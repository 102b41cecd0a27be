SPECIFICATION Spec
CONSTANTS
  Ids = {1, 2}
  Apps = {"", "code", "web"}
  NoAppId = ""
  Titles = {"main", "mail"}
  Patterns = {"p"}
  Matches = {}
  OutputNames = {"HDMI"}
  NoSource = NoSource
  NoToken = NoToken
  Shown <- MCShown
  Seeds <- MCSeeds
  Suggested <- MCSuggested
  NoTitle = ""
  Blank = Blank
  Bad = Bad
  ClientRules <- MCClientRules
  MaxRules = 1
  MaxRows = 2
CHECK_DEADLOCK FALSE
INVARIANTS
  VectorsParallel
  ModesAsShown
  SharedAsShown
  SingleMeansOne
