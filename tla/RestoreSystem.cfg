SPECIFICATION Spec
CONSTANTS
  Absent = Absent
  NotString = NotString
  WireReasons = {"token_not_found", "source_unavailable", "permission_revoked", "token_consumed"}
  Patterns = {"draft"}
  Broken = {}
  MaxRules = 1
  c1 = c1
  c2 = c2
  Clients = {c1, c2}
  LongNames = {"long"}
  Beginnings <- MCBeginnings
  Version = 6
  OldToken = "old"
  NewTokens <- MCTokens
SYMMETRY ClientSymmetry
INVARIANTS
  TypeOK
  PickerWithReason
  InvalidMeansGone
  UselessTokenIsReported
PROPERTIES
  KeepsContract
