\* One request and one interviewer turn are enough.
SPECIFICATION Spec
CONSTANTS
  Rounds <- MCRounds
  Reqs = {r1}
  MaxActivities = 2
INVARIANT ClosedTrace
CHECK_DEADLOCK FALSE
