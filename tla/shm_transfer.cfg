SPECIFICATION Spec
CONSTANTS
  MAX_FILES = 2
  MAX_FILESIZE = 1
  Names = {n1, n2, n3}
  NoName = NoName
  MaxEntries = 3
  Refused = {n2}
  Inputs <- MCInputs
INVARIANTS
  FifoDelivery
  NothingLeftBehind
  CompleteDelivery
PROPERTIES
  Termination
  ImplementsChannel
CHECK_DEADLOCK FALSE
