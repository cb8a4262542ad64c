----------------------------- MODULE QueryParser -----------------------------
(***************************************************************************)
(* GetRequest, the query-string parser of every console page              *)
(* (src/vanntool/static/js/table.js, and identical copies in the two      *)
(* cmds.js files), applied to location.search on each page load.          *)
(*                                                                         *)
(* The result is a JavaScript object: a function from property names to   *)
(* string values.  Assigning to theRequest["__proto__"] a string calls    *)
(* the prototype setter, which ignores a non-object value, so that key    *)
(* never becomes a property.                                              *)
(*                                                                         *)
(* Data abstraction: unescape decodes %XX with the hex digits of the      *)
(* escapes in Escapes; the URLs and values used have no other escape.     *)
(* A link may be built by encoding a parameter list with escape (the      *)
(* pages that build links are not under src/).                            *)
(***************************************************************************)
EXTENDS JsDom

CONSTANTS
    RawQueries,    \* location.search values typed or pasted by the user
    ParamKeys,     \* the sequence of parameter names links are built with
    ParamValues    \* parameter values links are built with

VARIABLES
    search,        \* location.search of the page loaded
    sent,          \* the parameters the link was built from, or Undefined
    request        \* what GetRequest returned on that page

vars == <<search, sent, request>>

(* The escapes unescape decodes, and escape produces, in this model. *)
Escapes == ("%3D" :> "=") @@ ("%26" :> "&") @@ ("%25" :> "%") @@ ("%20" :> " ")

(* Mutant: unescape returns its argument's text undecoded. *)
unescapeUndecoded(v) == IF v = Undefined THEN "undefined" ELSE v

(* unescape(v): undefined is converted to the string "undefined"; a %XX  *)
(* sequence is decoded, scanning left to right, anything else is kept.   *)
unescape(v) ==
    IF v = Undefined THEN "undefined"
    ELSE LET n == Len(v)
             D[i \in 1..(n + 1)] ==
                 IF i > n THEN ""
                 ELSE IF i + 2 <= n /\ SubSeq(v, i, i + 2) \in DOMAIN Escapes
                      THEN Escapes[SubSeq(v, i, i + 2)] \o D[i + 3]
                      ELSE SubSeq(v, i, i) \o D[i + 1]
         IN  D[1]

(* The object with no own property. *)
NoProps == [k \in {} |-> ""]

(* theRequest[key] = value: "__proto__" goes to the prototype setter. *)
SetProp(obj, key, value) ==
    IF key = "__proto__" THEN obj
    ELSE [k \in DOMAIN obj \cup {key} |-> IF k = key THEN value ELSE obj[k]]

(* Mutant: the loop stops one pair early. *)
GetRequestSkipLast(url) ==
    IF IndexOf(url, "?") = -1 THEN NoProps
    ELSE LET strs == Split(SubSeq(url, 2, Len(url)), "&")
             R[i \in 0..(Len(strs) - 1)] ==
                 IF i = 0 THEN NoProps
                 ELSE SetProp(R[i - 1], At(Split(strs[i], "="), 0),
                              unescape(At(Split(strs[i], "="), 1)))
         IN  R[Len(strs) - 1]

(* GetRequest() on location.search = url: with a '?', url.substr(1) is   *)
(* split on '&' and each piece on '='; piece i assigns its part 0 the     *)
(* unescaped part 1, in order.                                           *)
GetRequest(url) ==
    IF IndexOf(url, "?") = -1 THEN NoProps
    ELSE LET strs == Split(SubSeq(url, 2, Len(url)), "&")
             R[i \in 0..Len(strs)] ==
                 IF i = 0 THEN NoProps
                 ELSE SetProp(R[i - 1], At(Split(strs[i], "="), 0),
                              unescape(At(Split(strs[i], "="), 1)))
         IN  R[Len(strs)]

(* escape(v) for the characters of Escapes. *)
escape(v) ==
    LET Enc(c) == IF \E e \in DOMAIN Escapes : Escapes[e] = c
                  THEN CHOOSE e \in DOMAIN Escapes : Escapes[e] = c ELSE c
    IN  FoldLeft(LAMBDA acc, i : acc \o Enc(SubSeq(v, i, i)), "",
                 [i \in 1..Len(v) |-> i])

(* The query of a link built from the parameters p, a function from some *)
(* of the keys to values, written in the order of ParamKeys.             *)
LinkQuery(p) ==
    LET ks == SelectSeq(ParamKeys, LAMBDA k : k \in DOMAIN p)
    IN  "?" \o FoldLeft(LAMBDA acc, i : acc \o (IF i = 1 THEN "" ELSE "&")
                                             \o ks[i] \o "=" \o escape(p[ks[i]]),
                        "", [i \in 1..Len(ks) |-> i])

(* The parameter lists links are built from: a value for each of a       *)
(* non-empty set of keys.                                                  *)
Params ==
    UNION {[D -> ParamValues] : D \in SUBSET {ParamKeys[i] : i \in DOMAIN ParamKeys} \ {{}}}

(* A page is loaded with the query q; its script calls GetRequest. *)
Load(q, p) ==
    /\ search' = q
    /\ sent' = p
    /\ request' = GetRequest(q)

Init ==
    \E q \in RawQueries :
        /\ search = q
        /\ sent = Undefined
        /\ request = GetRequest(q)

(* The user types or pastes a URL. *)
Navigate == \E q \in RawQueries : Load(q, Undefined)

(* The user follows a link built from a parameter list. *)
FollowLink == \E p \in Params : Load(LinkQuery(p), p)

Next == Navigate \/ FollowLink

Spec == Init /\ [][Next]_vars

-----------------------------------------------------------------------------
(***************************************************************************)
(* Properties, stated over the pieces of the query between '&'.           *)
(***************************************************************************)

Pieces ==
    IF IndexOf(search, "?") = -1 THEN << >>
    ELSE Split(SubSeq(search, 2, Len(search)), "&")

(* The name of a piece: the text before its first '='. *)
NameOf(piece) == At(Split(piece, "="), 0)

(* Piece i is the last one that names its key. *)
IsLast(i) == \A j \in (i + 1)..Len(Pieces) : NameOf(Pieces[j]) # NameOf(Pieces[i])

(* A page reached through a link built with escape gets back exactly the *)
(* parameters the link was built from: every key, each with its value,   *)
(* '=' '&' '%' and spaces in values included.                            *)
LinkRoundTrip == sent # Undefined => request = sent

(* Spec 3: on duplicate keys the last piece wins.  Whatever the value of *)
(* the last piece naming k, no earlier piece's value survives.           *)
LastWriteWins ==
    \A i \in DOMAIN Pieces :
        (/\ NameOf(Pieces[i]) \in DOMAIN request
         /\ IsLast(i))
        => request[NameOf(Pieces[i])] = unescape(At(Split(Pieces[i], "="), 1))

(* parseQuery of spec 4.6, the reference: no '?' gives the empty mapping; *)
(* otherwise the query is split on '&', each pair on its first '=', the  *)
(* value unescaped, a pair without '=' maps its key to undefined, and    *)
(* the last pair naming a key wins.                                      *)
PairKey(piece) ==
    LET eq == IndexOf(piece, "=") IN IF eq = -1 THEN piece ELSE SubSeq(piece, 1, eq)
PairValue(piece) ==
    LET eq == IndexOf(piece, "=")
    IN  IF eq = -1 THEN Undefined ELSE unescape(SubSeq(piece, eq + 2, Len(piece)))
ParseQuery(url) ==
    IF IndexOf(url, "?") = -1 THEN NoProps
    ELSE LET ps == Split(SubSeq(url, 2, Len(url)), "&")
             LastPair(k) == CHOOSE i \in DOMAIN ps :
                            PairKey(ps[i]) = k
                            /\ \A j \in (i + 1)..Len(ps) : PairKey(ps[j]) # k
         IN  [k \in {PairKey(ps[i]) : i \in DOMAIN ps} |-> PairValue(ps[LastPair(k)])]

(* Spec 3 and 4.6: whatever the user types into the address bar, the    *)
(* page's GetRequest returns what parseQuery specifies: every key, the   *)
(* whole value after the first '=', undefined for a pair without one.    *)
MatchesParseQuery == request = ParseQuery(search)

====
