SPECIFICATION FairSpec
CONSTANTS
  None = None
  NoRun = NoRun
  Idle = Idle
  Instance = {i1}
  Goal = {"MARKET_RESEARCH", "BACKTEST_REPORT", "PORTFOLIO_REPORT", "ORDER_DRAFT", "PAPER_EXECUTION", "LIVE_ASSISTED_EXECUTION"}
  Asked <- MCEverything
  Registered <- AllTools
  Granted <- Capability
  AccountGranted = TRUE
  LiveAuthorizer = TRUE
  ModeOf <- MCModeOf
  Key = {k1}
  MaxToolCalls = 9
  MaxInvalidCalls = 2
  MaxReconciliations = 2
  Timeout = 2
  ApprovalTimeout = 1
  Lifetime = {1, 2}
  MaxClock = 2
INVARIANTS
  OutcomesCanBeStored
  EvidenceIsComplete
PROPERTIES
  OnlyAuthorisedSubmissions
  RunEnds
  ReconcilingCloses
CHECK_DEADLOCK FALSE
