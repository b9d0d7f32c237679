SPECIFICATION Spec
CONSTANTS
  a = a
  b = b
  c = c
  s1 = s1
  s2 = s2
  MaxJob = 3
  Failed = {1}
  Filters <- Two
  PageSize = 2
  Client = {a, b, c}
  Start <- Held
  MaxKey = 4
  Slot = {s1, s2}
  None = None
  MaxClicks = 4
  MaxFaults = 1
INVARIANTS TypeOK RetryIsInformed SecretsKept
SYMMETRY SlotSymmetry
CHECK_DEADLOCK FALSE
