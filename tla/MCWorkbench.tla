---------------------------- MODULE MCWorkbench ----------------------------
(***************************************************************************)
(* A small instance of Workbench for TLC.                                  *)
(***************************************************************************)
EXTENDS Workbench, TLC

CONSTANTS A, B, good, part, bad, broken, blank

\* Saving completes the sample data of an unfinished text.
Completion == [t \in Text |-> IF t = part THEN good ELSE t]

Draft(t, files)     == [status |-> "draft", text |-> t, files |-> files]
Published(t, files) == [status |-> "published", text |-> t, files |-> files]

\* A published version and another template with a rejected draft; or one draft with a
\* file, and no other template.
Two == [v \in Version |-> IF v = <<A, 1>> THEN Published(good, {})
                         ELSE IF v = <<B, 1>> THEN Draft(bad, {}) ELSE NoRow]
One == [v \in Version |-> IF v = <<A, 1>> THEN Draft(good, File) ELSE NoRow]

Starts == {Two, One}

SlotSymmetry == Permutations(Slot)
=============================================================================
