SPECIFICATION FairSpec
CONSTANTS
  Accounts = {a1}
  Global = global
  OrderKeys = {o1}
  Batches = {b1, b2}
  MaxVersion = 1
  MaxTime = 1
  SnapshotTags = {s1}
  Callers = {t1, t2}
  Refreshers = {r1}
  None = None
INVARIANTS
  StoreStaysConsistent
  AnswersStayTrue
PROPERTIES
  ImplementsGuardedOrders
  EverySubmissionEnds
