SPECIFICATION FairSpec
CONSTANTS
  p1 = p1
  p2 = p2
  p3 = p3
  o1 = o1
  o2 = o2
  Migration = {m1}
  Object = {o1, o2}
  Profile = {p1, p2, p3}
  Dispatcher = {d1}
  Copier = {c1, c2}
  Operator = {a1}
  Home <- OneHome
  Digested = {o1, o2}
  Corrupt = {}
  Limit <- OneAndTwo
  MaxAttempts = 2
  Faults <- Deaths
  None = None
INVARIANTS CompletedIsPlaced
 
CHECK_DEADLOCK FALSE
