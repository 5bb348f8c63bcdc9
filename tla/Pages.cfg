SPECIFICATION Spec
CONSTANTS
  MaxSegments = 3
  OutCap = 3
  VoiceCap = 4
  MaxVoiceFaults = 1
  MaxTyped = 2
  MaxPanesFaults = 1
  MaxTurns = 2
  MaxPageFaults = 1
  ShapeGaps = {shape}
  FlavorGaps = {flavor}
  MaxAnswers = 2
  MaxClarifies = 2
  MaxPosts = 1
  MaxDeskFaults = 1
  Plans = {a, b}
  MaxPlanTurns = 2
  MaxAccepts = 2
  MaxOpens = 1
  MaxPlanFaults = 1
  Files = {1, 2}
  Cycles = 2
  MinSaid = 1
  MaxEvents = 5
  Sids = {1, 2}
  Tabs = {1, 2}
  MaxWishes = 3
  MaxCardFaults = 1
  KeyFiles = {key}
  QUESTION_STREAK_LIMIT = 1
  ACK_MIN_NARRATION = 2
  MaxTalk = 3
  MaxChecks = 1
  MaxHour = 1
INVARIANTS
  TypeOK
  NothingSaidIsLost
  SubmittedIsGraded
  DesksSendWhatTheyShow
  InterviewerIsFair
  DoorsHold
CONSTRAINT Followed
CHECK_DEADLOCK FALSE
