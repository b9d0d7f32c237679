SPECIFICATION Spec
CONSTANTS
  w1 = w1
  w2 = w2
  h1 = h1
  h2 = h2
  Job = {j1, j2}
  Worker = {w1, w2}
  Owner = {d1}
  Actor = {admin}
  Key = {key1}
  None = None
  Handler = {h1, h2}
  WorkerOf <- OneEach
  MaxRetry = 1
  Faults <- StallFaults
INVARIANTS RetryParentFailed
SYMMETRY JobsAndPairs
CHECK_DEADLOCK FALSE
