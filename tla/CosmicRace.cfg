SPECIFICATION FairSpec
CONSTANTS
  c1 = c1
  c2 = c2
  Calls = {c1, c2}
  Ids <- MCIds
  Apps <- MCApps
  NoAppId = ""
  Titles <- MCTitles
  Patterns <- MCPatterns
  Matches <- MCMatches
  Lists <- RaceLists
  OutputNames = {}
  Tokens <- RaceTokens
  Absent = Absent
  WireReasons = {"token_not_found", "source_unavailable", "permission_revoked", "token_consumed"}
  Policies <- RacePolicies
  ExtRules <- NoRules
  PickModes <- OnePick
  PickRules <- NoRules
  Unreadable <- MCUnreadable
  MaxPending = 1
  NoCall = NoCall
  NoSource = NoSource
  NoToken = NoToken
  NoTitle = ""
  MaxRules = 2
  NoCapture = NoCapture
INVARIANTS
  TypeOK
  NoLostRescue
  WaiterIsRegistered
  PendingBounded
PROPERTIES
  StartProgresses
