SPECIFICATION FairSpec
CONSTANTS
  Directory <- TwiceTheSame
  Blocks <- SomeBlocks
  TabLimit = 9
  ListLimit = 1
  Slots = {1}
  Plans <- AnyPlan
  Failing = {"tms", "create", "put", "mail", "teams", "enqueue", "revoke"}
  Outsiders = {"tendered", "portal"}
  MaxRatecons = 1
  MaxReplies = 2
  MaxOutside = 1
  MaxDispatch = 1
CHECK_DEADLOCK FALSE
INVARIANTS TmsInv NamedDriver OneContactPerPhone
PROPERTY ProcessingEnds
