------------------------- MODULE MCStorageMigration -------------------------
(***************************************************************************)
(* Small instances of StorageMigration for TLC.                            *)
(***************************************************************************)
EXTENDS StorageMigration, TLC

CONSTANTS p1, p2, p3, o1, o2

\* Copiers are interchangeable; used for a safety run only.
CopierSymmetry == Permutations(Copier)

\* One profile has the default limit, another serves two transfers at a time.
OneAndTwo == [p \in Profile |-> IF p = p3 THEN 2 ELSE 1]

\* Both objects live on the first profile only.
OneHome == [o \in Object |-> {p1}]

\* The second object is also on the third profile, where it was damaged: there, a
\* migration from the first finds it and copies only the other.
TwoHomes      == [o \in Object |-> IF o = o2 THEN {p1, p3} ELSE {p1}]
CorruptSecond == {<<p3, o2>>}

Quiet == [k \in Bounds |-> 0]

\* Any one fault of every kind, two resumes, and enough claims of an item to pass the
\* last attempt.
OneFault == ("any" :> 1) @@ ("resume" :> 2) @@ ("claims" :> 3) @@ [k \in Bounds |-> 1]

\* Processes die twice; nothing else goes wrong that a lease does not cover.
Deaths == ("die" :> 2) @@ ("any" :> 2) @@ ("resume" :> 2) @@ ("claims" :> 9) @@ Quiet

=============================================================================
