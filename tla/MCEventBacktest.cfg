CONSTANTS
  Failed = Failed
  Absent = Absent
  Signals = {g1}
  OrderIds = {o1, o2}
  FillIds = {f1, f2}
  Quantities = {1, 2}
  Prices = {2}
  Limits = {2}
  Targets <- MCTargets
  Rule <- MCRule
  FeeRule <- MCFeeRule
  Sessions <- MCSessions
  Calendar <- MCCalendar
  Configs <- MCConfigs
  OpeningCash = 5
  OpeningLots <- MCOpeningLots
SPECIFICATION Spec
INVARIANTS LedgerMatchesFills LotsMatchPosition OrdersMatchFills
SYMMETRY MCSymmetry
CHECK_DEADLOCK FALSE
