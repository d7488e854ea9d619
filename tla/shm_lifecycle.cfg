SPECIFICATION Spec
CONSTANTS
  Producers = {p1, p2}
  Consumers = {c1, c2}
  p1 = p1
  p2 = p2
  None = None
  MAX_FILES = 2
  FilesOf <- MCFilesOf
  Users <- MCUsers
INVARIANTS
  MutexPerObject
  TakenOnceInOrder
  SessionIntact
PROPERTIES
  SessionsEnd
CHECK_DEADLOCK FALSE
