---------------------------- MODULE MCFileIngest ----------------------------
(* FileIngest for TLC: the two file fields of organization/create. *)
EXTENDS FileIngest

CONSTANTS f1, f2

MCFiles == {f1, f2}

MCFileKeys == {"configfile", "genesisfile"}
=============================================================================
