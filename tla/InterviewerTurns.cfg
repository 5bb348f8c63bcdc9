\* Three utterances fill the queue of two and evict; four initiatives reach
\* the sign-off with questions asked by the lane alone, or use up the two
\* redactions of a hint and of the redirect.
SPECIFICATION FairSpec
CONSTANTS
  Words = {w1, w2, w3}
  Episodes = {e1}
  MaxInitiatives = 4
INVARIANTS
  TypeOK
  OneVoice
  WordsAccounted
  WrapRunsItsCourse
  HelpIsBudgeted
PROPERTY EveryWordSettles
CHECK_DEADLOCK FALSE
