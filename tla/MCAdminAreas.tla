---------------------------- MODULE MCAdminAreas ----------------------------
(***************************************************************************)
(* A small instance of AdminAreas for TLC.                                 *)
(***************************************************************************)
EXTENDS AdminAreas, TLC

CONSTANTS a, b, c, s1, s2

\* Anything, or what has failed.
Two == {Phase, {"failed"}}

\* Each of two clients has a key; the third is still to be created.
Held == [k \in 1 .. MaxKey |-> IF k = 1 THEN a ELSE IF k = 2 THEN b ELSE None]

SlotSymmetry == Permutations(Slot)
=============================================================================
