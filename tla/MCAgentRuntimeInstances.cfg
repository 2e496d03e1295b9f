SPECIFICATION Spec
CONSTANTS
  None = None
  NoRun = NoRun
  Idle = Idle
  Instance = {i1, i2}
  Goal = {"PAPER_EXECUTION"}
  Asked <- MCTrading
  Registered <- AllTools
  Granted <- Capability
  AccountGranted = TRUE
  LiveAuthorizer = TRUE
  ModeOf <- MCModeOf
  Key = {k1}
  MaxToolCalls = 9
  MaxInvalidCalls = 2
  MaxReconciliations = 2
  Timeout = 2
  ApprovalTimeout = 1
  Lifetime = {1}
  MaxClock = 2
INVARIANTS
  StopSignalIsDurable
PROPERTIES
  ImplementsPromise
CHECK_DEADLOCK FALSE
