SPECIFICATION Spec
CONSTANTS
  A = A
  B = B
  good = good
  part = part
  bad = bad
  broken = broken
  blank = blank
  Slug = {A, B}
  MaxVersion = 2
  Start <- Starts
  Text = {good, part, bad, broken, blank}
  Malformed = {broken}
  Rejected = {bad}
  Completed <- Completion
  Starter = good
  Blank = blank
  Typed = {part, broken}
  File = {f1}
  Slot = {s1, s2}
  MaxClicks = 3
  MaxFaults = 1
  None = None
INVARIANTS TypeOK OwnText PublishesWhatWasShown PublishIsAnalysed BusyIsBacked ShownIsStored
SYMMETRY SlotSymmetry
CHECK_DEADLOCK FALSE
