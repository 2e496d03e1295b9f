CONSTANTS
  Missing = Missing
  Refused = Refused
  Version = "v1"
  Whole = 10
  WeightUnit = 100
  RegimePolicy <- MCRegimePolicy
  TransitionPolicy <- MCTransitionPolicy
  MainlinePolicy <- MCMainlinePolicy
  LeaderPolicy <- MCLeaderPolicy
  CandidatePolicy <- MCCandidatePolicy
  StrategyPolicy <- MCStrategyPolicy
  Markets <- MCMarkets
  IndustryTables <- MCIndustryTables
  CrossSections <- MCCrossSections
  Opening <- MCOpening
  LastSession = 4
SPECIFICATION ResearchSpec
INVARIANTS LeadersFollowTheirHistory HoldingsFollowLeadership FailuresAreRounding
PROPERTY ChangesAreConfirmed
CHECK_DEADLOCK FALSE
