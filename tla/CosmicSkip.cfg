SPECIFICATION Spec
CONSTANTS
  c1 = c1
  Calls = {c1}
  Ids <- MCIds
  Apps <- MCApps
  NoAppId = ""
  Titles <- MCTitles
  Patterns <- MCPatterns
  Matches <- MCMatches
  Lists <- WideLists
  OutputNames <- MCOutputs
  Tokens <- WideTokens
  Absent = Absent
  WireReasons = {"token_not_found", "source_unavailable", "permission_revoked", "token_consumed"}
  Policies <- WidePolicies
  ExtRules <- ClientRules
  PickModes <- TwoPicks
  PickRules <- ClientRules
  Unreadable <- MCUnreadable
  MaxPending = 1
  NoCall = NoCall
  NoSource = NoSource
  NoToken = NoToken
  NoTitle = ""
  MaxRules = 2
  NoCapture = NoCapture
INVARIANTS
  SkipReportsFailure
