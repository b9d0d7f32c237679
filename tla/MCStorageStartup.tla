--------------------------- MODULE MCStorageStartup ---------------------------
(***************************************************************************)
(* A small instance of StorageStartup for TLC: two processes with the same *)
(* directory and one configured with another.                              *)
(***************************************************************************)
EXTENDS StorageStartup, TLC

CONSTANTS r1, r2, r3, d1, d2

OneApart == (r3 :> d2) @@ [r \in Replica |-> d1]

\* The processes with the same directory are interchangeable.
ReplicaSymmetry == Permutations({r1, r2})
=============================================================================
