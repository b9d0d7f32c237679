SPECIFICATION Spec
CONSTANTS
  p1 = p1
  p2 = p2
  p3 = p3
  o1 = o1
  o2 = o2
  Migration = {m1}
  Object = {o1, o2}
  Profile = {p1, p2, p3}
  Dispatcher = {d1}
  Copier = {c1, c2}
  Operator = {a1}
  Home <- TwoHomes
  Digested = {o1, o2}
  Corrupt <- CorruptSecond
  Limit <- OneAndTwo
  MaxAttempts = 2
  Faults <- OneFault
  None = None
INVARIANTS TypeOK VerifiedCopy TransfersWithinLimit 
PROPERTIES CancelStopsDispatch
SYMMETRY CopierSymmetry
CHECK_DEADLOCK FALSE
