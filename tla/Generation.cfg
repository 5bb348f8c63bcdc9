\* One plan item and one practice rep on one build slot, the beta's setting.
\* Two builds, a session and a validation by an agent itself, three of them in
\* all, and every failure may be retried automatically: enough for a failed
\* build's automatic and manual retry, for the rebuild of a round that was
\* launched or marked by its agent, and for a rep admitted while the slot was
\* free to be built beside the plan item.
SPECIFICATION FairSpec
CONSTANTS
  Plans = {p1}
  Reps = {r1}
  MaxBuilds = 1
  MaxRequests = 2
  MaxPids = 2
  MaxRooms = 1
  MaxMarks = 1
  MaxEvents = 3
INVARIANTS
  TypeOK
  OneAgentPerRound
  NoHealthyBuildFails
  OneAutomaticRetry
  ReadyIsValidated
PROPERTY BuildsAreDecided
CHECK_DEADLOCK FALSE
