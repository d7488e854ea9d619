SPECIFICATION Spec
CONSTANTS
  MaxLines = 1
  MaxDatagrams = 0
  MaxSignals = 1
PROPERTIES
  CtrlCEnds
CHECK_DEADLOCK FALSE
