SPECIFICATION FairSpec
CONSTANTS
  Worker = {w1, w2}
  Run = {r1, r2}
  Request <- MCWholeDataset
  LastPartition = 2
  PageCount <- MCTwoThenOne
  Payload = {v1}
  MaxFailures = 1
  MaxCrashes = 1
  MaxLateLeases = 1
  None = None
INVARIANTS
  ProgressIsExact
  SucceededIsComplete
PROPERTIES
  OvertakenStaysFailed
  ProgressNeverReverses
  TargetIsReached
CHECK_DEADLOCK FALSE
