SPECIFICATION Spec
CONSTANTS
  t1 = t1
  t2 = t2
  c1 = c1
  c2 = c2
  Text = {t1, t2}
  File = {f1, f2}
  Content = {c1, c2}
  SizeOf <- Sizes
  Compiles <- Good
  Request = {r1, r2}
  MaxVersion = 2
  MaxRevision = 2
  MaxAssets = 2
  MaxBytes = 2
  None = None
INVARIANTS TypeOK CompiledUnlessReused PublishedIsStored
PROPERTIES ApprovedIsFrozen
SYMMETRY Symmetry
CHECK_DEADLOCK FALSE
