\* Four shapes of round, two requests that can be in flight at once and three
\* things begun in all: room for a request, a turn and a run to be under way
\* together when the round ends, and for editor events after it.
SPECIFICATION FairSpec
CONSTANTS
  Rounds <- MCRounds
  Reqs = {r1, r2}
  MaxActivities = 3
INVARIANTS
  TypeOK
  OneEnding
  OneShotVerdictStands
  MemoryFollowsRecord
  OnlyInFlightTrails
PROPERTY EndedSettles
CHECK_DEADLOCK FALSE
