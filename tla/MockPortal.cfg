SPECIFICATION FairSpec
CONSTANTS
  Absent = Absent
  WireReasons = {"token_not_found", "source_unavailable", "permission_revoked", "token_consumed"}
  MaxRequests = 3
  Stray = Stray
  SelectCalls <- MCCalls
  Scenarios <- MCScenarios
  Triggers <- MCTriggers
  NoRequest = NoRequest
CHECK_DEADLOCK FALSE
INVARIANTS
  TypeOK
  UnavailabilityUsedOnce
  PolicyNeedsToken
  RescueAnswersOne
PROPERTIES
  EveryRequestAnswered
  FailureClosesSession
