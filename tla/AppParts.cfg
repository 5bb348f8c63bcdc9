SPECIFICATION Spec
CONSTANTS
  Subs = {1, 2}
  MaxChanges = 3
  MaxBillingFaults = 1
  Practice = {1, 2}
  Planned = {3}
  FreeRounds = 2
  PaidRounds = 2
  LastDay = 2
  MaxRuns = 2
  MaxMissed = 1
  MaxSessions = 3
  MaxWorkspaceFaults = 2
  Slots = {1, 2}
  FirstShapes = {1, 2}
  MaxShapes = 4
  MaxPreviews = 2
  Rounds = {1, 2, 3}
  Streak = 2
  MaxOdd = 1
  MaxDeaths = 1
  MaxRejudges = 1
  People = {1, 2}
  Sweeps = {w1, w2}
  MaxSweeps = 3
  MaxMailFaults = 1
  Cards = {1, 2}
  MaxWrites = 4
  MaxSwept = 3
  MaxLosses = 1
  Backups = {1, 2, 3, 4}
  Keep = 2
  MaxClock = 3
  MaxTrace = 4
  Tolerance = 1
  MaxReads = 2
  RoundOf <- ItemRounds
  RoundDates = {0, 2, 4}
  LoopDates = {0, 6}
  LastRunDay = 6
  MaxMoves = 2
  FUTURE_DAYS_SHOWN = 2
  Dims = {"clarify", "verify"}
  MinTests = 2
  Ordered = {"one_failing_test"}
  MaxFlaws = 1
INVARIANTS
  TypeOK
  PreparedWorkIsKept
  UpkeepIsSafe
  OffersAreHonest
  WhatIsSaidIsEarned
CONSTRAINT Followed
CHECK_DEADLOCK FALSE
