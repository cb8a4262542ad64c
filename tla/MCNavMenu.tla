------------------------------ MODULE MCNavMenu ------------------------------
(* Three menu items, so that a click can cross two animations of others. *)
EXTENDS NavMenu

CONSTANTS a, b, c

MCItems == {a, b, c}

=============================================================================
