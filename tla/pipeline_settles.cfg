SPECIFICATION FairSpec
CONSTANTS
  w1 = w1
  w2 = w2
  h1 = h1
  h2 = h2
  Job = {j1}
  Worker = {w1}
  Owner = {d1, d2}
  Actor = {admin}
  Key = {key1}
  None = None
  Handler = {h1}
  WorkerOf <- Single
  MaxRetry = 2
  Faults <- DispatchFaults
INVARIANTS QueuedIsBacked
PROPERTIES EventuallySettled
CHECK_DEADLOCK FALSE
