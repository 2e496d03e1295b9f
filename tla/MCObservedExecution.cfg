SPECIFICATION ObservedSpec
CONSTANTS
  Failed = Failed
  Absent = Absent
  Venue = venue
  Stranger = stranger
  account = account
  snapshot0 = snapshot0
  log0 = log0
  Executions <- MCExecutions
  Policies <- MCPolicies
  MaxEvents = 2
  LastMoment = 3
PROPERTIES
  UnstoppedEvidenceAddsUp
  HonestEvidencePasses
  RepeatsChangeNoCheck
CHECK_DEADLOCK FALSE
