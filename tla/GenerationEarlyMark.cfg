\* One plan item, built once.
SPECIFICATION Spec
CONSTANTS
  Plans = {p1}
  Reps = {}
  MaxBuilds = 1
  MaxRequests = 1
  MaxPids = 1
  MaxRooms = 0
  MaxMarks = 1
  MaxEvents = 2
INVARIANT RulingDecides
CHECK_DEADLOCK FALSE
