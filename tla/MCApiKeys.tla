------------------------------ MODULE MCApiKeys ------------------------------
(***************************************************************************)
(* A small instance of ApiKeys for TLC.                                    *)
(***************************************************************************)
EXTENDS ApiKeys, TLC

\* Requests are interchangeable, and so are ids and selections.
Symmetry == Permutations(Admin) \cup Permutations(Key) \cup Permutations(Selection)
=============================================================================
