-------------------------- MODULE FileIngestProofs --------------------------
(***************************************************************************)
(* Proofs about FileIngest for every value of the constants: the type     *)
(* invariant, and that a text area only receives files chosen with its    *)
(* own picker (ContentProvenance), through the inductive invariant IInv,  *)
(* and that FileIngest implements the spec 4.3 contract FileFieldContract *)
(* (Refinement).                                                          *)
(***************************************************************************)
EXTENDS FileIngest, TLAPS

(* Init establishes the type invariant. *)
LEMMA InitTypeOK == Init => TypeOK
BY ConstantsAssumption DEF Init, TypeOK, Value

(* Every step preserves the type invariant. *)
LEMMA NextTypeOK == TypeOK /\ [Next]_vars => TypeOK'
<1> SUFFICES ASSUME TypeOK, [Next]_vars PROVE TypeOK'
    OBVIOUS
<1>1. ASSUME NEW k \in FileKeys, NEW x \in Files, ChangeFile(k, x)
      PROVE  TypeOK'
    BY <1>1, ConstantsAssumption DEF ChangeFile, TypeOK, Value, Reader
<1>2. ASSUME NEW k \in FileKeys, ChangeFileNone(k) PROVE TypeOK'
    BY <1>2 DEF ChangeFileNone, TypeOK, Value
<1>3. ASSUME NEW k \in FileKeys, EditContent(k) PROVE TypeOK'
    BY <1>3 DEF EditContent, TypeOK, Value
<1>4. ASSUME NEW k \in FileKeys, EditDir(k) PROVE TypeOK'
    BY <1>4 DEF EditDir, TypeOK, Value
<1>5. ASSUME NEW r \in readers, ReaderLoad(r) PROVE TypeOK'
    BY <1>5 DEF ReaderLoad, TypeOK, Value, Reader
<1>6. ASSUME NEW r \in readers, ReaderError(r) PROVE TypeOK'
    BY <1>6 DEF ReaderError, TypeOK
<1>7. CASE UNCHANGED vars
    BY <1>7 DEF vars, TypeOK
<1>8. QED
    BY <1>1, <1>2, <1>3, <1>4, <1>5, <1>6, <1>7 DEF Next

(* The type invariant holds in every reachable state. *)
THEOREM TypeCorrect == Spec => []TypeOK
BY InitTypeOK, NextTypeOK, PTL DEF Spec

(* Init establishes the inductive invariant. *)
LEMMA InitIInv == Init => IInv
BY InitTypeOK DEF Init, IInv, ContentProvenance, ReadersProvenance

(* Every step preserves the inductive invariant. *)
LEMMA NextIInv == IInv /\ [Next]_vars => IInv'
<1> SUFFICES ASSUME IInv, [Next]_vars PROVE IInv'
    OBVIOUS
<1>0. TypeOK'
    BY NextTypeOK DEF IInv
<1> USE DEF IInv, ContentProvenance, ReadersProvenance
<1>1. ASSUME NEW k \in FileKeys, NEW x \in Files, ChangeFile(k, x)
      PROVE  IInv'
    BY <1>0, <1>1 DEF ChangeFile, TypeOK
<1>2. ASSUME NEW k \in FileKeys, ChangeFileNone(k) PROVE IInv'
    BY <1>0, <1>2 DEF ChangeFileNone
<1>3. ASSUME NEW k \in FileKeys, EditContent(k) PROVE IInv'
    BY <1>0, <1>3 DEF EditContent, TypeOK
<1>4. ASSUME NEW k \in FileKeys, EditDir(k) PROVE IInv'
    BY <1>0, <1>4 DEF EditDir
<1>5. ASSUME NEW r \in readers, ReaderLoad(r) PROVE IInv'
    (* The written file is the one the reader was started for, and that *)
    (* file was chosen for the reader's own key.                         *)
    <2>1. r.file \in picked[r.key] /\ r.key \in FileKeys
        BY <1>5 DEF TypeOK, Reader
    <2>2. ContentProvenance'
        BY <1>5, <2>1 DEF ReaderLoad, TypeOK
    <2>3. ReadersProvenance'
        BY <1>5 DEF ReaderLoad
    <2>4. QED
        BY <1>0, <2>2, <2>3
<1>6. ASSUME NEW r \in readers, ReaderError(r) PROVE IInv'
    BY <1>0, <1>6 DEF ReaderError
<1>7. CASE UNCHANGED vars
    BY <1>0, <1>7 DEF vars
<1>8. QED
    BY <1>1, <1>2, <1>3, <1>4, <1>5, <1>6, <1>7 DEF Next

(* Only files chosen with a field's own picker reach its text area, in   *)
(* every reachable state and for every value of the constants.            *)
THEOREM Provenance == Spec => []ContentProvenance
<1>1. Init => IInv
    BY InitIInv
<1>2. IInv /\ [Next]_vars => IInv'
    BY NextIInv
<1>3. IInv => ContentProvenance
    BY DEF IInv
<1>4. QED
    BY <1>1, <1>2, <1>3, PTL DEF Spec

(* The inductive strengthening itself holds in every reachable state:    *)
(* every pending FileReader reads a file chosen with the picker of the    *)
(* field whose keyid its onload captured.                                 *)
LEMMA IInvariant == Spec => []IInv
BY InitIInv, NextIInv, PTL DEF Spec

(* Every step of the implementation is a step of the file-field contract *)
(* or leaves its variables alone; onload is a Deliver because the reader *)
(* reads a file chosen for the key it captured (ReadersProvenance).      *)
LEMMA NextContract == IInv /\ [Next]_vars => [Contract!Next]_Contract!cvars
<1> SUFFICES ASSUME IInv, [Next]_vars PROVE [Contract!Next]_Contract!cvars
    OBVIOUS
<1>1. ASSUME NEW k \in FileKeys, NEW x \in Files, ChangeFile(k, x)
      PROVE  Contract!Next
    BY <1>1 DEF ChangeFile, Contract!Next, Contract!Select
<1>2. ASSUME NEW k \in FileKeys, ChangeFileNone(k) PROVE Contract!Next
    BY <1>2 DEF ChangeFileNone, Contract!Next, Contract!Clear
<1>3. ASSUME NEW k \in FileKeys, EditContent(k) PROVE Contract!Next
    BY <1>3 DEF EditContent, Contract!Next, Contract!TypeContent
<1>4. ASSUME NEW k \in FileKeys, EditDir(k) PROVE Contract!Next
    BY <1>4 DEF EditDir, Contract!Next, Contract!TypeDir
<1>5. ASSUME NEW r \in readers, ReaderLoad(r) PROVE Contract!Next
    <2>1. r.key \in FileKeys /\ r.file \in picked[r.key]
        BY DEF IInv, TypeOK, Reader, ReadersProvenance
    <2>2. Contract!Deliver(r.key)
        BY <1>5, <2>1 DEF ReaderLoad, Contract!Deliver
    <2>3. QED
        BY <2>1, <2>2 DEF Contract!Next
<1>6. ASSUME NEW r \in readers, ReaderError(r) PROVE UNCHANGED Contract!cvars
    BY <1>6 DEF ReaderError, Contract!cvars
<1>7. CASE UNCHANGED vars
    BY <1>7 DEF vars, Contract!cvars
<1>8. QED
    BY <1>1, <1>2, <1>3, <1>4, <1>5, <1>6, <1>7 DEF Next

(* FileIngest implements the contract of spec 4.3: with the FileReaders  *)
(* hidden, the form only ever shows a chosen path, clears it, receives a *)
(* file chosen for that field, or takes the user's typing.               *)
THEOREM Refinement == Spec => ImplementsContract
<1>1. Init => Contract!Init
    BY DEF Init, Contract!Init
<1>2. QED
    BY <1>1, NextContract, IInvariant, PTL DEF Spec, ImplementsContract, Contract!Spec

=============================================================================
