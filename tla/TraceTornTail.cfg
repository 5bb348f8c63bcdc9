\* Two hosts, one of them killed inside a write.
SPECIFICATION Spec
CONSTANTS
  Conns = {c1, c2}
  NoConn = NoConn
  MaxEvents = 2
  MaxFaults = 1
  MaxTears = 1
INVARIANT OnlyTheTailIsLost
CHECK_DEADLOCK FALSE
