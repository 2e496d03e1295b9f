CONSTANTS
  Failed = Failed
  Absent = Absent
  Instruments = {1, 2}
  TypeOf <- MCTypeOf
  IndustryOf <- MCIndustryOf
  Builder <- MCBuilder
  Policy <- MCPolicy
  MarketRules <- MCMarketRules
  FeeRules <- MCFeeRules
  Slippage <- MCSlippage
  Calendar <- MCCalendar
  TicksPerDay = 3
  Validity = 2
  AllowPartial = TRUE
  MaxStateAge = 3
  Markets <- MCMarkets
  Sleeves <- MCSleeves
  Budgets = {8500}
  Watermark = 110
  OpeningCash = 82
  OpeningFrozen = 2
  OpeningLots <- MCOpeningLots
  OpeningPrice <- MCOpeningPrice
  LotIds = {3, 4, 5, 6}
  MaxTime = 5
  MaxBatches = 2
SPECIFICATION Spec
INVARIANTS PlansReplay LimitedBuysAreFunded BuysStayWithinRisk
PROPERTY OnlySettledUnitsLeave
CHECK_DEADLOCK FALSE
