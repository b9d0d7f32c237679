------------------------ MODULE MCTemplateLifecycle -------------------------
(***************************************************************************)
(* A small instance of TemplateLifecycle for TLC.                          *)
(***************************************************************************)
EXTENDS TemplateLifecycle, TLC

CONSTANTS t1, t2, c1, c2

\* The second content is larger: it fits only alone.
Sizes == (c1 :> 1) @@ (c2 :> 2)

\* The first text needs no asset, the second one needs the large one.
Good == {<<t, m>> \in Text \X Manifest : t = t1 \/ \E f \in File : m[f] = c2}

\* Requests are interchangeable, and so are file names.
Symmetry == Permutations(Request) \cup Permutations(File)
=============================================================================
