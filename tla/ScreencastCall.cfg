SPECIFICATION CallSpec
CONSTANTS
  Absent = Absent
  WireReasons = {"token_not_found", "source_unavailable", "permission_revoked", "token_consumed"}
  RawActions = {2, 3}
  MaxLabel = 4
  Versions = {5, 6}
  Inputs <- MCInputs
INVARIANTS
  ResolversAgree
  SentAsRead
  PickersShowTheLabel
