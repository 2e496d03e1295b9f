\* A retried tool answers what it answered before.
CONSTANTS
  NoSnapshot = NoSnapshot
  Threads = {t1, t2}
  Keys = {k1, k2}
  Decisions = {d1}
  LastTime = 1
  LastVersion = 2
  MaxDrafts = 2
SPECIFICATION ToolsSpec
INVARIANTS
  OneDraftPerKey
  ReceiptsAreTrue
  RetriesKeepTheReceipt
