SPECIFICATION ExchangeSpec
CONSTANTS
  Conns = {c1, c2, c3}
  Jobs = {c1, c2, c3}
  Workers = {w1}
  max_queued_requests = 1
  keep_alive_max_count = 2
  AcceptFails = TRUE
  Threads = {t1, t2, t3}
  Clients = {k1, k2}
  t1 = t1
  t2 = t2
  t3 = t3
  k1 = k1
  k2 = k2
  ClientOf <- MCClientOf
  keep_alive <- MCKeepAlive
  Plans <- MCPlans
  MaxRedirects = 1
  MaxStops = 1
  None = None
INVARIANTS
  PairedAnswers
  EachJobOnce
PROPERTIES
  HandledOnce
  NotClosedInUse
  StopCloses
  StopEnds
  CallsEnd
CHECK_DEADLOCK FALSE
