SPECIFICATION Spec
CONSTANTS
  Client = {c1}
  Key = {k1, k2, k3}
  Admin = {a1, a2}
  Selection = {s1, s2}
  Grace = {1}
  MaxTime = 1
  Never = Never
  None = None
INVARIANTS RotationPairs NoLockCycle
PROPERTIES LifeOnlyShrinks NoKeyAfterDisable RotationKeepsAccess
SYMMETRY Symmetry
CHECK_DEADLOCK FALSE
