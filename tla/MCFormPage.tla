------------------------------ MODULE MCFormPage ------------------------------
(* FormPage for TLC: every command and operation the scripts know, one   *)
(* unknown value of each, and a page loaded without an op parameter.     *)
EXTENDS FormPage

CONSTANTS f1, f2

MCFiles == {f1, f2}

MCFileFields == {"configfile", "genesisfile"}

MCCmds == {"special", "sign", "organization", "event", "evm", "jvm", "initpeer",
           "unknown"}

MCOps == {"change_validator", "create", "join", "leave", "uploadcode", "request",
          "unsubscribe", "call", "read", "query", "unknown", Undefined}
=============================================================================
