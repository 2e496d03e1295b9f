CONSTANTS
  Failed = Failed
  Absent = Absent
  Instruments = {1, 2}
  Benchmark = "index"
  Version = "v1"
  FirstDay = 3
  LastDay = 5
  MaxPublications = 1
  MaxRuns = 2
  WeightUnit = 100
  Point = 100
  QuantityUnit = 2
  InitialNav = 400
  RotationPolicy <- MCRotationPolicy
  FeeRules <- MCFeeRules
  Tables <- MCTables
  LateBars <- MCLateBars
  PastBars <- MCPastBars
  Listings <- MCListings
  Relistings <- MCRelistings
  MarketStates <- MCMarketStates
SPECIFICATION Spec
INVARIANTS
  AnswersReplay
  NoDayReachesBack
  ImbalanceIsRounding
CHECK_DEADLOCK FALSE
