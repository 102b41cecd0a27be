SPECIFICATION Spec
CONSTANTS
  Absent = Absent
  WireReasons = {"token_not_found", "source_unavailable", "permission_revoked", "token_consumed"}
  MaxRequests = 4
  Stray = Stray
  SelectCalls <- MCCalls
  Scenarios <- OneScenario
  Triggers <- MCTriggers
  NoRequest = NoRequest
CHECK_DEADLOCK FALSE
PROPERTIES
  LaterStartRejected
