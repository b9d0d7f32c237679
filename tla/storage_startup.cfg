SPECIFICATION Spec
CONSTANTS
  r1 = r1
  r2 = r2
  r3 = r3
  d1 = d1
  d2 = d2
  Replica = {r1, r2, r3}
  Directory = {d1, d2}
  Dir <- OneApart
  OldDir = d1
  Scripts = 2
  BuiltIn = {t}
  Template = {t}
  Report = {u}
  MaxFaults = 1
  None = None
INVARIANTS ServedIsReadable StartsUnlessMisconfigured ReadsAreFaithful
SYMMETRY ReplicaSymmetry
CHECK_DEADLOCK FALSE
