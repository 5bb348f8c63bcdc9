\* A sweep or a look overlaps a launch.
SPECIFICATION Spec
CONSTANTS
  Callers = {t1, t2}
  Keepers = {t1, t2}
  Users = {u1}
  Admins = {u1}
  Dirs = {d1, d2}
  MaxSessions = 2
  MaxSlots = 2
  MaxPerUser = 1
  MaxStray = 0
INVARIANT EveryRoomIsListed
CHECK_DEADLOCK FALSE
