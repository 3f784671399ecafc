SPECIFICATION Spec
CONSTANTS
  ip1 = ip1
  u1 = u1
  u2 = u2
  Nil = Nil
  Requests = {r1, r2}
  Nodes = {n1}
  IPs = {ip1}
  Identifiers <- FewIdentifiers
  ShortAt = 1
  LongAt = 2
  Short = 1
  Long = 2
  Manual = {1, 3}
  MaxTime = 5
  MaxRestarts = 1
  MaxDenials = 3
  Checks = {c1, c2}
  Conditions <- FewConditions
  Added <- FewAdded
  Updates <- FewUpdates
  EditableIds = {"general-api", "custom"}
  Levels = {"high", "critical"}
  MaxEdits = 1
  MaxReports = 2
CHECK_DEADLOCK FALSE
INVARIANTS LimitersAreCurrent BlocksEarned
PROPERTIES EscalationNeverShortens BlocksEnd
