SPECIFICATION ProcessesSpec
CONSTANTS
  MaxFd = 5
INVARIANTS
  TargetsPrepared
  PidFileTrue
CHECK_DEADLOCK FALSE
