---------------------------- MODULE NavAccordion ----------------------------
(***************************************************************************)
(* The accordion the comments of nav.js describe, with no animation: a    *)
(* click either expands the clicked item and collapses every other one    *)
(* (展开未展开) or collapses the clicked item (收缩已展开).  Which of the  *)
(* two a click does is left open here: the handler decides it from the    *)
(* display it reads, which an animation in flight may not have reached    *)
(* yet.  NavMenu implements this specification with expanded mapped to  *)
(* the submenus whose queued animations end open.                          *)
(***************************************************************************)
CONSTANT Items

VARIABLE expanded   \* the items whose submenu is expanded

Init == expanded = {}

(* Expand i: every submenu is collapsed and i's is expanded. *)
Expand(i) == expanded' = {i}

(* Collapse i: i's submenu is collapsed, the others are left alone. *)
Collapse(i) == expanded' = expanded \ {i}

Next == \E i \in Items : Expand(i) \/ Collapse(i)

Spec == Init /\ [][Next]_expanded

=============================================================================
