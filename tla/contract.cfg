SPECIFICATION Spec
CONSTANTS
  Source <- Sources
  Sample <- Values
  Data <- Values
  None = None
INVARIANTS ReanalysisIsStable AcceptedDataRenders ItemOrderIrrelevant
CHECK_DEADLOCK FALSE
