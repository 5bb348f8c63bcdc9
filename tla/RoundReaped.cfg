\* A round nobody did anything in is enough.
SPECIFICATION Spec
CONSTANTS
  Rounds <- MCRounds
  Reqs = {r1}
  MaxActivities = 1
INVARIANT ReapSparesGrading
CHECK_DEADLOCK FALSE
