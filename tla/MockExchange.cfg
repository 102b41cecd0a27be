SPECIFICATION ExchangeSpec
CONSTANTS
  Absent = Absent
  NotString = NotString
  WireReasons = {"token_not_found", "source_unavailable", "permission_revoked", "token_consumed"}
  Patterns = {"draft", "broken"}
  Broken = {"broken"}
  MaxRules = 2
  MaxRequests = 3
  Stray = Stray
  SelectCalls <- MCCalls
  Scenarios <- MCScenarios
  Triggers <- MCTriggers
  NoRequest = NoRequest
  Setups <- MCSetups
  Expected = 1
CHECK_DEADLOCK FALSE
INVARIANTS
  ClosedHeardIsRefused
  RecordedAsConfigured
  NoPromptsIsEnough
  WaitTellsTruth
  PluginAndModelAgree
  MockAndCosmicAgree
PROPERTIES
  ClientGetsThrough
  WaitReturns
