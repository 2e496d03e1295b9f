SPECIFICATION Spec
CONSTANTS
  None = None
  NoRun = NoRun
  Idle = Idle
  Instance = {i1}
  Goal = {"PAPER_EXECUTION"}
  Asked <- MCTrading
  Registered <- AllTools
  Granted <- Capability
  AccountGranted = TRUE
  LiveAuthorizer = TRUE
  ModeOf <- MCModeOf
  Key = {k1}
  MaxToolCalls = 9
  MaxInvalidCalls = 2
  MaxReconciliations = 2
  Timeout = 1
  ApprovalTimeout = 1
  Lifetime = {1}
  MaxClock = 1
INVARIANTS
  RejectedReconciliationIsRetryable
CHECK_DEADLOCK FALSE
