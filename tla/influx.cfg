SPECIFICATION Spec
CONSTANTS
  a1 = a1
  a2 = a2
  b1 = b1
  Points = {p1, p2, p3}
  Invalid = {p3}
  BatchSize = 2
  WritesFail = TRUE
  Records = {a1, a2, b1}
  MeasurementOf <- Kinds
  Measurements <- FewMeasurements
  Duration <- Kept
  Unparsable = {"bad"}
  ManualCalls <- ByHand
  Jobs = {j1, j2}
  ManualJobs = {j2}
  Updates = {u1, u2}
  LastWrite = 1
  MaxTime = 3
CHECK_DEADLOCK FALSE
INVARIANTS OnePlace DeletedAreArchived
PROPERTIES SweepComplete PendingLeaves
