\* Two tasks that overlap, while sessions boot, end, hang, age and crash at any
\* moment: a launch meets full slots, lingering rounds, rounds on its own
\* directory, and sweeps that loaded the registry before it.
SPECIFICATION FairSpec
CONSTANTS
  Callers = {t1}
  Keepers = {t2}
  Users = {u1}
  Admins = {}
  Dirs = {d1}
  MaxSessions = 2
  MaxSlots = 2
  MaxPerUser = 2
  MaxStray = 1
INVARIANTS
  TypeOK
  RoomsAreListed
  RoomsAreApart
  HealthyRoomsAreSpared
PROPERTY GoneRoomsAreFreed
CHECK_DEADLOCK FALSE
