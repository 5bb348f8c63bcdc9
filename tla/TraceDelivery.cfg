\* Two sockets (the current one and one cut but still being read), four
\* events counting each host's session_start, two faults: enough for a second
\* host to replay what the first sent while the first's frames are still in
\* flight.
SPECIFICATION FairSpec
CONSTANTS
  Conns = {c1, c2}
  NoConn = NoConn
  MaxEvents = 4
  MaxFaults = 2
  MaxTears = 1
INVARIANTS
  TypeOK
  StoredInEmitOrder
  PassedMeansStored
  TearCostsAtMostOne
PROPERTIES
  ImplementsTraceLog
  EventuallyAllStored
CHECK_DEADLOCK FALSE
