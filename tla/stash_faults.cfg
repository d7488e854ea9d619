SPECIFICATION Spec
CONSTANTS
  Distorters = {d1, d2, d3}
  Restorers = {r1, r2}
  None = None
  HEAD = 2
  Sizes <- MCSizes
  LaunchPolicy = "kind"
  MaxCrashes = 2
  MaxEdits = 2
  CallsMayFail = TRUE
SYMMETRY Symmetry
INVARIANTS
  Recoverable
PROPERTIES
  ReportsTrue
CHECK_DEADLOCK FALSE
