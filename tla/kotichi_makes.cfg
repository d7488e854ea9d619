SPECIFICATION Spec
CONSTANTS
  Makes = {m1, m2}
  Cells <- MCCells
  DiskFull = {m2}
  MaxClock = 1
  tom = tom
  tim = tim
  ann = ann
  Cats = {tom, tim, ann}
  Hash <- MCHash
  End = End
  need_unique = 2
  parallelism = 2
  max_rounds = 2
INVARIANTS
  AnswersTrue
  NoFetchOutlives
  LoneNameKept
PROPERTIES
  MakesEnd
CHECK_DEADLOCK FALSE
