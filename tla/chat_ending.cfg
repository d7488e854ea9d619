SPECIFICATION Spec
CONSTANTS
  MaxLines = 3
  MaxDatagrams = 2
  MaxSignals = 2
INVARIANTS
  NeverDeaf
PROPERTIES
  StopEnds
CHECK_DEADLOCK FALSE
