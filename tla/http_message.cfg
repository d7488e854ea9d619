SPECIFICATION MessageSpec
CONSTANTS
  MaxContent = 3
  payload_max_length = 2
  RecvSize = 2
  Forms <- MCForms
  Epilogues <- MCEpilogues
  MaxParts = 2
  HeaderMax = 10
  Requests <- MCRequests
  RangeMax = 4
  Targets <- MCTargets
  Routes <- MCRoutes
  ParamNames <- MCParamNames
  Files <- MCFiles
  Dirs <- MCDirs
  Feeds <- MCFeeds
  MaxFaults = 3
  MaxStops = 1
  max_reconnect_attempts = 1
INVARIANTS
  ReceivedWhole
  AcceptedWhenSent
  FormAsSent
  RangesServed
  TargetArrives
  RoutedRight
  EventsInOrder
PROPERTIES
  EventsEnd
CHECK_DEADLOCK FALSE
