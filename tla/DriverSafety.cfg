SPECIFICATION Spec
CONSTANTS
  Directory <- OneDriver
  Blocks <- TwoBlocks
  TabLimit = 9
  ListLimit = 1
  Slots = {1, 2}
  Plans <- OnePlan
  Failing = {"tms", "hydrate", "create", "put", "mail", "teams", "enqueue", "revoke", "raise"}
  Outsiders = {"tendered", "superseded", "portal"}
  MaxRatecons = 2
  MaxReplies = 1
  MaxOutside = 1
  MaxDispatch = 1
PROPERTIES ScheduledOnce OneRungAtATime LateRemindersLost
CHECK_DEADLOCK FALSE
