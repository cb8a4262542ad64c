----------------------------- MODULE FileIngest -----------------------------
(***************************************************************************)
(* The file-upload wiring of a rendered command form (ChangeFile and       *)
(* ShowFile, src/vanntool/static/js/table.js, identical copies in the two  *)
(* cmds.js files).                                                          *)
(*                                                                         *)
(* A field k rendered as a file widget has three DOM elements: the text    *)
(* input k_dir showing the chosen path, the file picker k_file whose       *)
(* onchange calls ChangeFile(k, this.value, this.files), and the text area *)
(* k that receives the file's text and is what the form submits.          *)
(* ChangeFile writes the path into k_dir and starts a FileReader whose     *)
(* onload callback later writes the text into k.  Readers are not          *)
(* cancelled and not ordered: each completes whenever the browser's read   *)
(* finishes.                                                               *)
(*                                                                         *)
(* Data abstraction: a file is a model value; the path the picker reports  *)
(* for it and the text read from it are both represented by the file.     *)
(***************************************************************************)
EXTENDS Naturals

CONSTANTS
    FileKeys,      \* keys of the fields rendered as file widgets
    Files,         \* the files the user may pick
    Empty,         \* "", the initial value of k_dir and of the text area k
    Typed,         \* some text typed by the user into k_dir or k
    MaxReads,      \* bound on the number of FileReader objects created
    ReadsMayFail   \* whether the browser may end a read with an error

ASSUME ConstantsAssumption ==
    /\ MaxReads \in Nat
    /\ ReadsMayFail \in BOOLEAN
    /\ Empty \notin Files
    /\ Typed \notin Files
    /\ Empty # Typed

VARIABLES
    dir,       \* dir[k]: the value of the input k_dir
    content,   \* content[k]: the value of the text area k
    readers,   \* FileReaders whose read has not finished
    nextId,    \* the id the next FileReader gets
    picked     \* history: picked[k] is the set of files ever chosen for k

vars == <<dir, content, readers, nextId, picked>>

(* What k_dir and the text area k can hold. *)
Value == Files \cup {Empty, Typed}

(* A FileReader created by ShowFile(keyid, file): its onload closure *)
(* captures keyid.                                                    *)
Reader == [id : 1..MaxReads, key : FileKeys, file : Files]

TypeOK ==
    /\ dir \in [FileKeys -> Value]
    /\ content \in [FileKeys -> Value]
    /\ readers \subseteq Reader
    /\ nextId \in 1..(MaxReads + 1)
    /\ picked \in [FileKeys -> SUBSET Files]

(* The form as AddTable renders it: both inputs empty, no read running. *)
Init ==
    /\ dir = [k \in FileKeys |-> Empty]
    /\ content = [k \in FileKeys |-> Empty]
    /\ readers = {}
    /\ nextId = 1
    /\ picked = [k \in FileKeys |-> {}]

(***************************************************************************)
(* onchange of k_file with one file x chosen: ChangeFile sets k_dir to the *)
(* picker's value, then ShowFile creates a FileReader for files[0] and     *)
(* starts readAsText, which returns at once.                               *)
(***************************************************************************)
ChangeFile(k, x) ==
    /\ nextId <= MaxReads
    /\ dir' = [dir EXCEPT ![k] = x]
    /\ readers' = readers \cup {[id |-> nextId, key |-> k, file |-> x]}
    /\ nextId' = nextId + 1
    /\ picked' = [picked EXCEPT ![k] = @ \cup {x}]
    /\ UNCHANGED content

(* Mutant: a read is started for files[0] even when the list is empty. *)
ChangeFileNoneReads(k) ==
    /\ nextId <= MaxReads
    /\ dir' = [dir EXCEPT ![k] = Empty]
    /\ readers' = readers \cup {[id |-> nextId, key |-> k, file |-> Empty]}
    /\ nextId' = nextId + 1
    /\ UNCHANGED <<content, picked>>

(***************************************************************************)
(* onchange of k_file with an empty file list (the picker was cancelled):  *)
(* ChangeFile sets k_dir to "", then file[0] is undefined and readAsText   *)
(* throws, so no reader is started and the text area is left as it was.   *)
(***************************************************************************)
ChangeFileNone(k) ==
    /\ dir' = [dir EXCEPT ![k] = Empty]
    /\ UNCHANGED <<content, readers, nextId, picked>>

(* Mutant: onload takes keyid from a variable shared by all readers, *)
(* which holds the key of the newest read started.                   *)
ReaderLoadSharedKey(r) ==
    /\ r \in readers
    /\ LET newest == CHOOSE s \in readers : \A t \in readers : t.id <= s.id
       IN  content' = [content EXCEPT ![newest.key] = r.file]
    /\ readers' = readers \ {r}
    /\ UNCHANGED <<dir, nextId, picked>>

(* The read of reader r finishes and its onload callback writes the text *)
(* into the element whose id is the captured keyid.                      *)
ReaderLoad(r) ==
    /\ r \in readers
    /\ content' = [content EXCEPT ![r.key] = r.file]
    /\ readers' = readers \ {r}
    /\ UNCHANGED <<dir, nextId, picked>>

(* The read of reader r ends in an error: no onerror handler is set and  *)
(* onload does not fire, so nothing is written.                          *)
ReaderError(r) ==
    /\ ReadsMayFail
    /\ r \in readers
    /\ readers' = readers \ {r}
    /\ UNCHANGED <<dir, content, nextId, picked>>

(* The user edits the text area k or the input k_dir by hand. *)
EditContent(k) ==
    /\ content' = [content EXCEPT ![k] = Typed]
    /\ UNCHANGED <<dir, readers, nextId, picked>>

EditDir(k) ==
    /\ dir' = [dir EXCEPT ![k] = Typed]
    /\ UNCHANGED <<content, readers, nextId, picked>>

Next ==
    \/ \E k \in FileKeys :
          \/ \E x \in Files : ChangeFile(k, x)
          \/ ChangeFileNone(k)
          \/ EditContent(k)
          \/ EditDir(k)
    \/ \E r \in readers : ReaderLoad(r) \/ ReaderError(r)

(* The browser finishes every read it started, with load or error. *)
Settle(i) == \E r \in readers : r.id = i /\ (ReaderLoad(r) \/ ReaderError(r))

Fairness == \A i \in 1..MaxReads : WF_vars(Settle(i))

Spec == Init /\ [][Next]_vars /\ Fairness

-----------------------------------------------------------------------------
(***************************************************************************)
(* Properties.                                                             *)
(***************************************************************************)

(* The text area of a file field only ever holds "", what the user typed, *)
(* or the text of a file the user chose with that field's own picker: a   *)
(* FileReader's onload never writes a file into another field's text      *)
(* area, however the reads of several fields interleave.                  *)
ContentProvenance ==
    \A k \in FileKeys : content[k] \in {Empty, Typed} \cup picked[k]

(* The inductive strengthening of ContentProvenance that the proofs use *)
(* (FileIngestProofs): every pending reader reads a file that was chosen *)
(* for the field whose keyid it captured.                                *)
ReadersProvenance == \A r \in readers : r.file \in picked[r.key]

IInv == TypeOK /\ ContentProvenance /\ ReadersProvenance

(* The file-field contract of spec 4.3 (FileFieldContract), with the     *)
(* FileReaders in flight hidden: every step of ChangeFile, onload, a      *)
(* failed read or an edit is a step of the contract or leaves dir,        *)
(* content and picked unchanged.                                          *)
Contract == INSTANCE FileFieldContract

ImplementsContract == Contract!Spec

(* Once a file has been chosen for field k, the text area k eventually    *)
(* stops being empty: some onload callback writes a file's text into it   *)
(* (or the user typed into it).  Holds when reads do not fail.           *)
PickedFileArrives ==
    \A k \in FileKeys : (picked[k] # {}) ~> (content[k] # Empty)

(* Spec 4.3: ChangeFile shows the chosen path in k_dir and reads that    *)
(* file into k.  Once no read of k is pending, a text area that holds a  *)
(* file's text holds the file its k_dir shows (unless the user typed     *)
(* into k_dir): the file submitted is the file displayed, whatever order *)
(* the reads, cancels and failures came in.                              *)
SubmittedFileShown ==
    \A k \in FileKeys :
        (/\ content[k] \in Files
         /\ dir[k] # Typed
         /\ \A r \in readers : r.key # k)
        => dir[k] = content[k]

====
