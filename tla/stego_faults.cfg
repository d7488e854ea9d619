SPECIFICATION Spec
CONSTANTS
  a1 = a1
  Adders = {a1, a2, a3}
  Readers = {r1}
  Clearers = {c1, c2}
  MsgLen <- MCMsgLen
  LEN = 1
  MAGIC_LEN = 2
  Sizes <- MCSizes
  LaunchPolicy = "shared"
  MaxCrashes = 1
  WritesMayFail = TRUE
SYMMETRY Symmetry
INVARIANTS
  OriginalKept
PROPERTIES
  WritersReportTrue
  ReadReportsTrue
CHECK_DEADLOCK FALSE
