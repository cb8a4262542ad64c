------------------------------ MODULE LegacyForm ------------------------------
(***************************************************************************)
(* The legacy command forms: the schema constructors, CreateCmd and the   *)
(* name-driven renderer (parseType, acceptFile, innerHTML, jointHTML,     *)
(* AddTable) of src/vanntool/static/js/cmds.js, and the peer page         *)
(* src/static/js/cmds.js, which has the same renderer and one schema.     *)
(*                                                                         *)
(* A schema object is the sequence of <<key, value>> pairs its            *)
(* constructor assigns, in assignment order (the order for-in visits      *)
(* them).  No member is a function, so AddTable's typeof test never      *)
(* skips one.  Placeholder texts are replaced by ASCII tags that keep     *)
(* every character the renderer or the HTML parser reacts to (quotes).    *)
(***************************************************************************)
EXTENDS JsDom

SpecailChangeValidator ==
    << <<"backend", "v-rpc-addr-or-name">>, <<"privkey", "v-key-or-password">>,
       <<"to_v_node", "pubkey-or-name?password">>, <<"target", "org-name">>,
       <<"power", "validator-power">>, <<"isCA", TRUE>> >>

Sign ==
    << <<"backend", "rpc-addr-or-name">>, <<"sec", "signing-key-or-password">>,
       <<"pub", "plaintext">> >>

OrgCreate ==
    << <<"title", "CREATE">>,
       <<"backend", "rpc-addr-or-name">>, <<"privkey", "key-or-password">>,
       <<"target", "base-org-name">>, <<"orgid", "new-org-name">>,
       <<"app_list", "apps-to-load">>, <<"p2p_laddr", "listen-port">>,
       <<"seeds", "seed-addrs">>, <<"sign_by_CA", "ca-signature">>,
       <<"genesisnode", "genesis-members">>,
       <<"configfile", "~/.ann_runtime/config.toml">>,
       <<"genesisfile", "~/.ann_runtime/genesisfile.json">> >>

OrgJoin ==
    << <<"backend", "rpc-addr-or-name">>, <<"privkey", "key-or-password">>,
       <<"target", "base-org-name">>, <<"orgid", "org-to-join">>,
       <<"app_list", "apps-to-load">>, <<"p2p_laddr", "listen-port">>,
       <<"seeds", "seed-addrs">>, <<"sign_by_CA", "ca-signature">>,
       <<"genesisnode", "genesis-members">>,
       <<"configfile", "~/.ann_runtime/config.toml">> >>

OrgLeave ==
    << <<"backend", "rpc-addr-or-name">>, <<"privkey", "key-or-password">>,
       <<"orgid", "org-to-leave">> >>

EventUploadCode ==
    << <<"backend", "rpc-addr-or-name">>, <<"privkey", "key-or-password">>,
       <<"target", "base-org-name">>, <<"code_text", "lua-code">>,
       <<"ownerid", "owner-org">> >>

EventRequest ==
    << <<"backend", "rpc-addr-or-name">>, <<"privkey", "key-or-password">>,
       <<"target", "base-org-name">>, <<"source", "source-org">>,
       <<"source_hash", "source-code-hash">>, <<"listener", "listener-org">>,
       <<"listener_hash", "listener-code-hash">> >>

EventUnsubscribe ==
    << <<"backend", "rpc-addr-or-name">>, <<"privkey", "key-or-password">>,
       <<"target", "base-org-name">>, <<"listener", "listener-org">>,
       <<"source", "source-org">> >>

EvmCreate ==
    << <<"backend", "rpc-addr-or-name">>, <<"target", "chain-name">>,
       <<"privkey", "account-key">>, <<"params", "ctor-args">>,
       <<"abi_definition_text", "abi">>, <<"code_text", "bytecode">> >>

EvmCallOrRead ==
    << <<"backend", "rpc-addr-or-name">>, <<"target", "chain-name">>,
       <<"privkey", "account-key">>, <<"contract", "contract-addr">>,
       <<"method", "evm-method">>, <<"params", "call-args">>,
       <<"abi_definition_text", "abi">> >>

IkhofiCreate ==
    << <<"backend", "rpc-addr-or-name">>, <<"target", "chain-name">>,
       <<"privkey", "account-key">>, <<"contractid", "new-contract">> >>

IkhofiCall ==
    << <<"backend", "rpc-addr-or-name">>, <<"target", "chain-name">>,
       <<"privkey", "account-key">>, <<"contractid", "contract-name">>,
       <<"method", "ikhofi-method">>, <<"params", "ikhofi-args('p1','p2',..)">> >>

(* The schema of the peer page, src/static/js/cmds.js. *)
InitPeer ==
    << <<"config_path", "/config/store/path">>, <<"chainid", "chain-name">>,
       <<"peer_privkey", "">>, <<"p2p_port", "46656">>, <<"rpc_port", "46657">>,
       <<"event_port", "46650">>, <<"peers", "<IP1>:<Port1>,<IP2>:<Port2>...">>,
       <<"auth_privkey", "ca-signing-key">>, <<"log_path", "/log/path">>,
       <<"genesisfile", "">> >>

(* CreateCmd(cmd, op): new Object (no members) when nothing matches. *)
CreateCmd(cmd, op) ==
    CASE cmd = "special" /\ op = "change_validator" -> SpecailChangeValidator
      [] cmd = "sign"                               -> Sign
      [] cmd = "organization" /\ op = "create"      -> OrgCreate
      [] cmd = "organization" /\ op = "join"        -> OrgJoin
      [] cmd = "organization" /\ op = "leave"       -> OrgLeave
      [] cmd = "event" /\ op = "uploadcode"         -> EventUploadCode
      [] cmd = "event" /\ op = "request"            -> EventRequest
      [] cmd = "event" /\ op = "unsubscribe"        -> EventUnsubscribe
      [] cmd = "evm" /\ op \in {"call", "read"}     -> EvmCallOrRead
      [] cmd = "evm" /\ op = "create"               -> EvmCreate
      [] cmd = "jvm" /\ op = "create"               -> IkhofiCreate
      [] cmd = "jvm" /\ op \in {"call", "query"}    -> IkhofiCall
      [] OTHER                                      -> << >>

(* CreateCmd of the peer page. *)
CreateCmdPeer(cmd, op) == IF cmd = "initpeer" THEN InitPeer ELSE << >>

(* The widget kind inferred from the field name. *)
parseType(key) ==
    CASE IndexOf(key, "file") > -1  -> "file"
      [] IndexOf(key, "_list") > -1 -> "list"
      [] IndexOf(key, "_text") > -1 -> "text"
      [] IndexOf(key, "is") = 0     -> "bool"
      [] OTHER                      -> key

acceptFile(file) == IF IndexOf(file, "config") > -1 THEN ".toml" ELSE ".json"

(* The elements of the fragment innerHTML(type, key, defvalue) returns. *)
innerHTML(type, key, defvalue) ==
    CASE type = "file" ->
           << [NoAttr EXCEPT !.tag = "input", !.id = key \o "_dir",
                             !.name = key \o "_dir"],
              [NoAttr EXCEPT !.tag = "input", !.type = "file",
                             !.id = key \o "_file", !.name = key \o "_file",
                             !.accept = acceptFile(key), !.onchange = key] >>
      [] type = "bool" ->
           << [NoAttr EXCEPT !.tag = "input", !.type = "radio",
                             !.id = key \o "_T", !.name = key],
              [NoAttr EXCEPT !.tag = "input", !.type = "radio",
                             !.id = key \o "_F", !.name = key] >>
      [] type = "text" ->
           << [NoAttr EXCEPT !.tag = "textarea", !.id = key, !.name = key] >>
      [] type = "list" ->
           << [NoAttr EXCEPT !.tag = "input", !.id = key, !.name = key],
              [NoAttr EXCEPT !.tag = "datalist", !.id = "_appnames_list"] >>
      [] OTHER ->
           << [NoAttr EXCEPT !.tag = "input", !.type = "text", !.id = key,
                             !.name = key,
                             !.placeholder = SingleQuotedAttr(defvalue)] >>

(* Mutant: the second row of the file case repeats innerHTML(keytype, ..) *)
(* instead of innerHTML("text", ..).                                      *)
jointHTMLFileRowCopied(key, value) ==
    LET keytype == parseType(key) IN
    IF keytype = "file"
    THEN innerHTML(keytype, key, value) \o innerHTML(keytype, key, value)
    ELSE innerHTML(keytype, key, value)

(* Mutant: the file case renders the picker row but not the text area row. *)
jointHTMLNoTextRow(key, value) == innerHTML(parseType(key), key, value)

(* One or, for a file field, two table rows (parseTableStyle) per field. *)
jointHTML(key, value) ==
    LET keytype == parseType(key) IN
    IF keytype = "file"
    THEN innerHTML(keytype, key, value) \o innerHTML("text", key, value)
    ELSE innerHTML(keytype, key, value)

(* The whole form: the rows of every member in for-in order. *)
AddTable(cmdObj) ==
    FlattenSeq([i \in 1..Len(cmdObj) |-> jointHTML(cmdObj[i][1], cmdObj[i][2])])

=============================================================================
