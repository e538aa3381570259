SPECIFICATION Spec
CONSTANTS
  AscendSkips = {TRUE, FALSE}
  Failing <- Everything
  MaxHooks = 2
  MaxReplies = 2
  MaxOutside = 1
INVARIANTS DraftMailedOnce ProgressInv
PROPERTY SettledStays
CHECK_DEADLOCK FALSE
