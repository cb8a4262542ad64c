---------------------------- MODULE MCCipherHelper ----------------------------
EXTENDS CipherHelper

(* n copies of the code unit c. *)
Units(c, n) == [i \in 1..n |-> c]

(* Keys around the 16-unit boundary, one that pads to the same key as    *)
(* another ("0a" and "a"), and keys with two- and three-byte UTF-8 units. *)
MCKeys ==
    {<< >>, Units(97, 1), << 48, 97 >>, Units(97, 5), Units(97, 15), Units(97, 16),
     Units(97, 17), Units(97, 20), Units(98, 4) \o Units(97, 16),
     << 233 >> \o Units(97, 4), Units(20013, 16)}

(* "", "x", sixteen "x" (a whole block), "é". *)
MCPlaintexts == {<< >>, << 120 >>, Units(120, 16), << 233 >>}
=============================================================================
