SPECIFICATION Spec
CONSTANTS
  Ids = {1, 2, 3}
  Apps <- MCApps
  NoAppId = ""
  Titles = {"t0", "t1", "t2"}
  Patterns = {"p", "q"}
  Matches <- MCMatches
  SavedWindows <- MCSavedWindows
  MaxWindows = 3
CHECK_DEADLOCK FALSE
INVARIANTS
  ListAgreesWithCandidates
  AutoStaysInApp
PROPERTIES
  ArrivalOnlyImproves
