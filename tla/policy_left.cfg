SPECIFICATION PolicySpec
CONSTANTS
  Checks = {c1}
  Conditions = {}
  Added = {}
  Updates = {}
  EditableIds = {"general-api"}
  Levels = {"high", "critical"}
  MaxEdits = 1
  MaxReports = 3
  Nil = Nil
CHECK_DEADLOCK FALSE
PROPERTY LeftWhenReduced
