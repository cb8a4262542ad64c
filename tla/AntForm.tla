------------------------------- MODULE AntForm -------------------------------
(***************************************************************************)
(* The "ant" command forms of src/vanntool/static/js/table.js: schemas    *)
(* whose values carry the widget kind after a '|', CreateCmd, and the     *)
(* renderer (parseInput, parseRadio, innerHTML, jointHTML, AddTable).     *)
(*                                                                         *)
(* jointHTML assigns the implicit global str and has no default case: a   *)
(* field whose kind is none of file, checkbox, input, text returns the    *)
(* fragment of the last field that had one, and throws a ReferenceError   *)
(* if no field has assigned str yet.  Placeholder texts are replaced by   *)
(* ASCII tags that keep the quotes and the '|' of the source; the spaces *)
(* inside a quoted text are dropped (they cannot end a value that opens  *)
(* with a quote) and curly quotes become backticks.                      *)
(***************************************************************************)
EXTENDS JsDom

SpecailChangeValidator ==
    << <<"backend", "'v-rpc-addr-or-name'|input">>,
       <<"privkey", "'v-key-or-password'|input">>,
       <<"to_v_node", "'pubkey-or-name?password'|input">>,
       <<"target", "'org-name'|input">>, <<"power", "'validator-power'|input">>,
       <<"isCA", "|checkbox">> >>

Sign ==
    << <<"backend", "'rpc-addr-or-name'|input">>,
       <<"sec", "'signing-key-or-password'|input">>,
       <<"pub", "pubkey-to-sign|input">> >>

OrgCreate ==
    << <<"backend", "'rpc-addr-or-name'|input">>,
       <<"privkey", "'key-or-password'|input">>,
       <<"target", "'base-org-name'|input">>, <<"orgid", "'new-org-name'|input">>,
       <<"app_list", "'apps-to-load'|input">>,
       <<"p2p_laddr", "'listen-port'|input">>, <<"seeds", "'seed-addrs'|input">>,
       <<"sign_by_CA", "'ca-signature'|input">>,
       <<"genesisnode", "'genesis-members'|input">>,
       <<"configfile", "'~/.ann_runtime/config.toml'|file">>,
       <<"genesisfile", "'~/.ann_runtime/genesisfile.json'|file">> >>

OrgJoin ==
    << <<"backend", "'rpc-addr-or-name'|input">>,
       <<"privkey", "'key-or-password'|input">>,
       <<"target", "'base-org-name'|input">>, <<"orgid", "org-to-join|input">>,
       <<"app_list", "apps-to-load|input">>,
       <<"p2p_laddr", "'listen-port'|input">>, <<"seeds", "'seed-addrs'|input">>,
       <<"sign_by_CA", "'ca-signature'|input">>,
       <<"genesisnode", "'genesis-members'|input">>,
       <<"configfile", "'~/.ann_runtime/config.toml'|file">> >>

OrgLeave ==
    << <<"backend", "'rpc-addr-or-name'|input">>,
       <<"privkey", "'key-or-password'|input">>,
       <<"orgid", "'org-to-leave'|input">> >>

EventUploadCode ==
    << <<"backend", "'rpc-addr-or-name'|input">>,
       <<"privkey", "'key-or-password'|input">>,
       <<"target", "'base-org-name'|input">>, <<"code_text", "'lua-code'|text">>,
       <<"ownerid", "'owner-org'|input">> >>

EventRequest ==
    << <<"backend", "'rpc-addr-or-name'|input">>,
       <<"privkey", "'key-or-password'|input">>,
       <<"target", "'base-org-name'|input">>, <<"source", "'source-org'|input">>,
       <<"source_hash", "'source-code-hash'|input">>,
       <<"listener", "'listener-org'|input">>,
       <<"listener_hash", "'listener-code-hash'|input">> >>

EventUnsubscribe ==
    << <<"backend", "'rpc-addr-or-name'|input">>,
       <<"privkey", "'key-or-password'|input">>,
       <<"target", "'base-org-name'|input">>,
       <<"listener", "'listener-org'|input">>, <<"source", "'source-org'|input">> >>

EvmCreate ==
    << <<"backend", "'rpc-addr-or-name'|input">>,
       <<"target", "'chain-name'|input">>, <<"privkey", "account-key|input">>,
       <<"params", "ctor-args|input">>, <<"abi_definition_text", "abi|text">>,
       <<"code_text", "bytecode|text">> >>

EvmCallOrRead ==
    << <<"backend", "'rpc-addr-or-name'|input">>,
       <<"target", "'chain-name'|input">>, <<"privkey", "'account-key'|input">>,
       <<"contract", "'contract-addr'|input">>,
       <<"method", "'evm-method'|input">>, <<"params", "'call-args'|input">>,
       <<"abi_definition_text", "'abi'|text">> >>

IkhofiCreate ==
    << <<"backend", "'rpc-addr-or-name'|input">>,
       <<"target", "'chain-name'|input">>, <<"privkey", "'account-key'|input">>,
       <<"contractid", "'new-contract'|input">> >>

IkhofiCall ==
    << <<"backend", "'rpc-addr-or-name'|input">>,
       <<"target", "'chain-name'|input">>, <<"privkey", "'account-key'|input">>,
       <<"contractid", "'contract-name'|input">>,
       <<"method", "'ikhofi-method'|input">>,
       <<"params", "'ikhofi-args(`p1`, `p2`,..)'|input">> >>

(* CreateCmd(cmd, op): new Object (no members) when nothing matches. *)
CreateCmd(cmd, op) ==
    CASE cmd = "special" /\ op = "change_validator" -> SpecailChangeValidator
      [] cmd = "sign"                               -> Sign
      [] cmd = "organization" /\ op = "create"      -> OrgCreate
      [] cmd = "organization" /\ op = "join"        -> OrgJoin
      [] cmd = "organization" /\ op = "leave"       -> OrgLeave
      [] cmd = "event" /\ op = "uploadcode"         -> EventUploadCode
      [] cmd = "event" /\ op = "request"            -> EventRequest
      [] cmd = "event" /\ op = "unsubscribe"        -> EventUnsubscribe
      [] cmd = "evm" /\ op \in {"call", "read"}     -> EvmCallOrRead
      [] cmd = "evm" /\ op = "create"               -> EvmCreate
      [] cmd = "jvm" /\ op = "create"               -> IkhofiCreate
      [] cmd = "jvm" /\ op \in {"call", "query"}    -> IkhofiCall
      [] OTHER                                      -> << >>

(* parseInput(key, placeholder): id=${key} name=${key} placeholder=${..}. *)
parseInput(key, placeholder) ==
    << [NoAttr EXCEPT !.tag = "input", !.type = "text", !.id = key, !.name = key,
                      !.placeholder = UnquotedAttr(placeholder)] >>

(* parseRadio(key): two radios named key, with fixed label and span ids. *)
parseRadio(key) ==
    << [NoAttr EXCEPT !.tag = "label", !.id = "radio-label-1"],
       [NoAttr EXCEPT !.tag = "span", !.id = "radio-span-1"],
       [NoAttr EXCEPT !.tag = "input", !.type = "radio", !.name = key],
       [NoAttr EXCEPT !.tag = "label", !.id = "radio-label-2"],
       [NoAttr EXCEPT !.tag = "span", !.id = "radio-span-2"],
       [NoAttr EXCEPT !.tag = "input", !.type = "radio", !.name = key] >>

acceptFile(file) == IF IndexOf(file, "config") > -1 THEN ".toml" ELSE ".json"

(* The two cases of innerHTML that jointHTML uses here. *)
innerHTML(type, key) ==
    IF type = "file"
    THEN << [NoAttr EXCEPT !.tag = "input", !.id = key \o "_dir",
                           !.name = key \o "_dir"],
            [NoAttr EXCEPT !.tag = "input", !.type = "file",
                           !.id = key \o "_file", !.name = key \o "_file",
                           !.accept = acceptFile(key), !.onchange = key] >>
    ELSE << [NoAttr EXCEPT !.tag = "textarea", !.id = key, !.name = key] >>

(* Mutant: the "text" case is missing from the switch. *)
HandledNoText == {"file", "checkbox", "input"}

(* The kinds jointHTML has a case for. *)
Handled == {"file", "checkbox", "input", "text"}

(* Mutant: the input case passes the whole value, kind included, as the *)
(* placeholder.                                                          *)
jointHTMLWholeValue(key, value) ==
    LET keytype == At(Split(value, "|"), 1)
    IN  CASE keytype = "file"     -> innerHTML("file", key) \o innerHTML("text", key)
          [] keytype = "checkbox" -> parseRadio(key)
          [] keytype = "input"    -> parseInput(key, value)
          [] keytype = "text"     -> innerHTML("text", key)

(* The fragment jointHTML assigns to str for a field of a handled kind. *)
jointHTML(key, value) ==
    LET keyvalue == At(Split(value, "|"), 0)
        keytype  == At(Split(value, "|"), 1)
    IN  CASE keytype = "file"     -> innerHTML("file", key) \o innerHTML("text", key)
          [] keytype = "checkbox" -> parseRadio(key)
          [] keytype = "input"    -> parseInput(key, keyvalue)
          [] keytype = "text"     -> innerHTML("text", key)

(* The kind a schema value names. *)
KindOf(value) == At(Split(value, "|"), 1)

(* The hidden fields AddTable writes first and the containers it writes last. *)
Hidden ==
    << [NoAttr EXCEPT !.tag = "input", !.type = "hidden", !.id = "cmd", !.name = "cmd"],
       [NoAttr EXCEPT !.tag = "input", !.type = "hidden", !.id = "op", !.name = "op"],
       [NoAttr EXCEPT !.tag = "input", !.type = "hidden", !.id = "filediv",
                      !.name = "filediv"] >>

Trailer ==
    << [NoAttr EXCEPT !.tag = "div", !.id = "extra_button", !.name = "extra_button"],
       [NoAttr EXCEPT !.tag = "div", !.id = "result", !.name = "result"] >>

(* What jointHTML returns for member i: its own fragment, or the stale    *)
(* value of str left by the last member before it of a handled kind, or   *)
(* Undefined when str was never assigned (the read throws).               *)
StrAfter(cmdObj, i) ==
    LET set == {j \in 1..i : KindOf(cmdObj[j][2]) \in Handled}
    IN  IF set = {} THEN Undefined
        ELSE LET j == CHOOSE m \in set : \A n \in set : n <= m
             IN  jointHTML(cmdObj[j][1], cmdObj[j][2])

(* The whole form, or Undefined when AddTable throws. *)
AddTable(cmdObj) ==
    IF \E i \in 1..Len(cmdObj) : StrAfter(cmdObj, i) = Undefined
    THEN Undefined
    ELSE Hidden \o FlattenSeq([i \in 1..Len(cmdObj) |-> StrAfter(cmdObj, i)])
                \o Trailer

=============================================================================
