SPECIFICATION Spec
CONSTANTS
  Accounts = {a1}
  Global = global
  OpKeys = {p1, p2, p3, p4}
  Sources = {x1}
  OrderKeys = {o1}
  Batches = {b1}
  MaxVersion = 1
  MaxTime = 1
  MaxRevision = 3
  MaxCommands = 5
  None = None
SYMMETRY Symmetry
CONSTRAINT FewCommands
INVARIANTS
  StateMatchesHistory
  ApproverSawEveryIncident
  EventsHaveOneCause
PROPERTIES
  ImplementsOrderGate
