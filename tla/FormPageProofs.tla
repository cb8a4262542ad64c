---------------------------- MODULE FormPageProofs ----------------------------
(***************************************************************************)
(* Proofs about the composition of a command page with its file fields,  *)
(* for every set of pages, commands, operations, file keys and files:    *)
(* the page never changes under the file actions, every step of the page *)
(* is a step of FileIngest on the keys of its form, so the FileIngest     *)
(* results (provenance of the text areas, the spec 4.3 contract) carry   *)
(* over to every page.                                                    *)
(***************************************************************************)
EXTENDS FormPage, TLAPS

FIP == INSTANCE FileIngestProofs WITH FileKeys <- FileFields

(* FileIngest as FormPage instantiates it and as the proofs module sees *)
(* it are the same specification.                                        *)
LEMMA SameIngest ==
    /\ FI!Init = FIP!Init
    /\ FI!IInv = FIP!IInv
    /\ FI!IInv' = FIP!IInv'
BY DEF FI!Init, FIP!Init, FI!IInv, FIP!IInv, FI!TypeOK, FIP!TypeOK,
       FI!ContentProvenance, FIP!ContentProvenance,
       FI!ReadersProvenance, FIP!ReadersProvenance,
       FI!Value, FIP!Value, FI!Reader, FIP!Reader

LEMMA SameIngestNext ==
    /\ [FI!Next]_FI!vars = [FIP!Next]_FIP!vars
    /\ [FI!Contract!Next]_FI!Contract!cvars = [FIP!Contract!Next]_FIP!Contract!cvars
BY DEF FI!Next, FIP!Next, FI!vars, FIP!vars, FI!ChangeFile, FIP!ChangeFile,
       FI!ChangeFileNone, FIP!ChangeFileNone, FI!EditContent, FIP!EditContent,
       FI!EditDir, FIP!EditDir, FI!ReaderLoad, FIP!ReaderLoad,
       FI!ReaderError, FIP!ReaderError, FI!Contract!Next, FIP!Contract!Next,
       FI!Contract!cvars, FIP!Contract!cvars, FI!Contract!Select, FIP!Contract!Select,
       FI!Contract!Clear, FIP!Contract!Clear, FI!Contract!Deliver, FIP!Contract!Deliver,
       FI!Contract!TypeContent, FIP!Contract!TypeContent,
       FI!Contract!TypeDir, FIP!Contract!TypeDir

(* The page on screen is one AddTable rendered for the pair it was       *)
(* loaded with.                                                           *)
PageInv ==
    /\ variant \in Pages
    /\ cmd \in Cmds
    /\ op \in Ops
    /\ form = Render(variant, cmd, op)

FPInv == PageInv /\ FI!IInv

(* The keys the form's onchange handlers pass are file keys FileIngest   *)
(* knows.                                                                 *)
LEMMA FormKeys == PageInv => FileKeysOf(form) \subseteq FileFields
BY FileFieldsAssumption DEF PageInv

(* A step of the page is a step of FileIngest on FileFields, or leaves   *)
(* the file state alone, and never changes the page.                      *)
LEMMA PageStep ==
    PageInv /\ [Next]_vars => [FI!Next]_FI!vars /\ UNCHANGED pageVars
<1> SUFFICES ASSUME PageInv, [Next]_vars
             PROVE  [FI!Next]_FI!vars /\ UNCHANGED pageVars
    OBVIOUS
<1>1. FileKeysOf(form) \subseteq FileFields
    BY FormKeys
<1>2. CASE Next
    BY <1>1, <1>2 DEF Next, FI!Next
<1>3. CASE UNCHANGED vars
    BY <1>3 DEF vars, pageVars, FI!vars
<1>4. QED
    BY <1>2, <1>3

LEMMA InitFPInv == Init => FPInv
<1> SUFFICES ASSUME Init PROVE FPInv
    OBVIOUS
<1>1. PageInv
    BY DEF Init, PageInv
<1>2. FI!IInv
    <2>1. FIP!Init => FIP!IInv
        BY FIP!InitIInv, IngestAssumption
    <2>2. FI!Init
        BY DEF Init
    <2>3. QED
        BY <2>1, <2>2, SameIngest
<1>3. QED
    BY <1>1, <1>2 DEF FPInv

LEMMA NextFPInv == FPInv /\ [Next]_vars => FPInv'
<1> SUFFICES ASSUME FPInv, [Next]_vars PROVE FPInv'
    OBVIOUS
<1>1. [FI!Next]_FI!vars /\ UNCHANGED pageVars
    BY PageStep DEF FPInv
<1>2. PageInv'
    BY <1>1 DEF FPInv, PageInv, pageVars
<1>3. FI!IInv'
    BY <1>1, FIP!NextIInv, IngestAssumption, SameIngest, SameIngestNext DEF FPInv
<1>4. QED
    BY <1>2, <1>3 DEF FPInv

(* Every page runs FileIngest on the keys of its form: the file-field    *)
(* state of a page behaves as the FileIngest safety specification allows. *)
THEOREM PageRunsIngest == Spec => FI!Init /\ [][FI!Next]_FI!vars
<1>1. Init => FI!Init
    BY DEF Init
<1>2. FPInv /\ [Next]_vars => [FI!Next]_FI!vars
    BY PageStep DEF FPInv
<1>3. QED
    BY <1>1, <1>2, InitFPInv, NextFPInv, PTL DEF Spec

(* On every page, however the reads of its file fields interleave, fail *)
(* or are overtaken by a cancel, a text area only ever holds '', typed   *)
(* text or a file chosen with that field's own picker (FileIngest's      *)
(* ContentProvenance, carried over through its inductive invariant).    *)
THEOREM PageProvenance == Spec => []FI!ContentProvenance
<1>1. FPInv => FI!ContentProvenance
    BY DEF FPInv, FI!IInv
<1>2. QED
    BY <1>1, InitFPInv, NextFPInv, PTL DEF Spec

(* Every page implements the spec 4.3 file-field contract. *)
THEOREM PageContract == Spec => FI!ImplementsContract
<1>1. Init => FI!Contract!Init
    BY DEF Init, FI!Init, FI!Contract!Init
<1>2. FPInv /\ [Next]_vars => [FI!Contract!Next]_FI!Contract!cvars
    <2> SUFFICES ASSUME FPInv, [Next]_vars
                 PROVE  [FI!Contract!Next]_FI!Contract!cvars
        OBVIOUS
    <2>1. [FI!Next]_FI!vars
        BY PageStep DEF FPInv
    <2>2. QED
        BY <2>1, FIP!NextContract, IngestAssumption, SameIngest, SameIngestNext DEF FPInv
<1>3. QED
    BY <1>1, <1>2, InitFPInv, NextFPInv, PTL
       DEF Spec, FI!ImplementsContract, FI!Contract!Spec

=============================================================================
