---------------------------- MODULE MCQueryParser ----------------------------
EXTENDS QueryParser

(* Values location.search takes for URLs a user may type: no query (also *)
(* for a URL ending in a bare '?', which location.search reports as ''), *)
(* duplicate keys, a value with a raw '=', a key without '=', an escaped *)
(* value, __proto__.                                                      *)
MCRawQueries ==
    {"", "?cmd=sign", "?cmd=sign&op=create", "?cmd=evm&cmd=jvm",
     "?op=a=b", "?op", "?cmd=evm&op", "?op=x%3Dy&op=z", "?__proto__=x&cmd=evm",
     "?cmd=&op=%26"}

MCParamKeys == <<"cmd", "op", "filediv">>

(* Values with each character escape encodes, and plain ones. *)
MCParamValues == {"evm", "a=b", "a&b", "50%", "x y", ""}
=============================================================================
