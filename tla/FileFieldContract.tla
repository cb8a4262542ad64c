-------------------------- MODULE FileFieldContract --------------------------
(***************************************************************************)
(* What a file field of a command form promises (spec 4.3), without the    *)
(* FileReaders that implement it: choosing a file shows its path at once,  *)
(* and at some later moment the text area receives the text of some file  *)
(* chosen for that field (the last completion wins, in no fixed order).   *)
(* Cancelling the picker clears the path; the user may type into either    *)
(* element.  The reads in flight are hidden: FileIngest implements this    *)
(* specification under the identity mapping of dir, content and picked.   *)
(***************************************************************************)
CONSTANTS FileKeys, Files, Empty, Typed

VARIABLES
    dir,       \* dir[k]: the path shown in k_dir
    content,   \* content[k]: the text area k, what the form submits
    picked     \* picked[k]: the files ever chosen for k

cvars == <<dir, content, picked>>

Init ==
    /\ dir = [k \in FileKeys |-> Empty]
    /\ content = [k \in FileKeys |-> Empty]
    /\ picked = [k \in FileKeys |-> {}]

(* The user chooses file x for field k: its path is shown at once. *)
Select(k, x) ==
    /\ dir' = [dir EXCEPT ![k] = x]
    /\ picked' = [picked EXCEPT ![k] = @ \cup {x}]
    /\ UNCHANGED content

(* The picker is cancelled: no path is shown. *)
Clear(k) ==
    /\ dir' = [dir EXCEPT ![k] = Empty]
    /\ UNCHANGED <<content, picked>>

(* The text of some file chosen for k arrives in k. *)
Deliver(k) ==
    /\ \E x \in picked[k] : content' = [content EXCEPT ![k] = x]
    /\ UNCHANGED <<dir, picked>>

(* The user types into the text area k or into k_dir. *)
TypeContent(k) ==
    /\ content' = [content EXCEPT ![k] = Typed]
    /\ UNCHANGED <<dir, picked>>

TypeDir(k) ==
    /\ dir' = [dir EXCEPT ![k] = Typed]
    /\ UNCHANGED <<content, picked>>

Next ==
    \E k \in FileKeys :
        \/ \E x \in Files : Select(k, x)
        \/ Clear(k)
        \/ Deliver(k)
        \/ TypeContent(k)
        \/ TypeDir(k)

Spec == Init /\ [][Next]_cvars

=============================================================================
