------------------------------- MODULE JsDom -------------------------------
(***************************************************************************)
(* The JavaScript and DOM primitives the console's scripts are built on,  *)
(* with the semantics the scripts rely on: String.prototype.indexOf and   *)
(* split on a one-character separator, indexing past the end of an array  *)
(* (undefined), and the form elements the markup strings produce.         *)
(***************************************************************************)
EXTENDS Integers, Sequences, SequencesExt

CONSTANT Undefined   \* JavaScript's undefined

(* s.indexOf(t): the first position of t in s, counted from 0, or -1. *)
IndexOf(s, t) ==
    LET hits == {i \in 0..(Len(s) - Len(t)) : SubSeq(s, i + 1, i + Len(t)) = t}
    IN  IF hits = {} THEN -1 ELSE CHOOSE i \in hits : \A j \in hits : i <= j

(* s.split(c) for a one-character separator c: the pieces between the     *)
(* occurrences of c, as many as there are occurrences plus one.            *)
Split(s, c) ==
    LET cuts  == SetToSortSeq({i \in 1..Len(s) : SubSeq(s, i, i) = c}, <)
        bound == <<0>> \o cuts \o <<Len(s) + 1>>
    IN  [j \in 1..(Len(bound) - 1) |-> SubSeq(s, bound[j] + 1, bound[j + 1] - 1)]

(* a[i] on a JavaScript array: undefined past the end. *)
At(a, i) == IF i \in 0..(Len(a) - 1) THEN a[i + 1] ELSE Undefined

(***************************************************************************)
(* A form element as the HTML parser builds it from a markup fragment:    *)
(* the attributes the submission and the scripts address it by.  An       *)
(* attribute the markup does not set is Undefined.  Elements with neither  *)
(* an id nor a name (labels, buttons, icons, layout divs) are left out.   *)
(***************************************************************************)
NoAttr ==
    [tag |-> Undefined, type |-> Undefined, id |-> Undefined, name |-> Undefined,
     placeholder |-> Undefined, accept |-> Undefined, onchange |-> Undefined]

(* The value of an attribute written name='v' (single-quoted): the parser *)
(* ends it at the first single quote inside v.                            *)
SingleQuotedAttr(v) ==
    LET q == IndexOf(v, "'") IN IF q = -1 THEN v ELSE SubSeq(v, 1, q)

(* The value of an attribute written name=v (unquoted, followed by >):    *)
(* if v opens with a quote the value runs to the matching quote, else to  *)
(* the first space.                                                       *)
UnquotedAttr(v) ==
    IF Len(v) > 0 /\ SubSeq(v, 1, 1) = "'"
    THEN SingleQuotedAttr(SubSeq(v, 2, Len(v)))
    ELSE LET sp == IndexOf(v, " ") IN IF sp = -1 THEN v ELSE SubSeq(v, 1, sp)

=============================================================================
