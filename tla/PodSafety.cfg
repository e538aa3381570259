SPECIFICATION Spec
CONSTANTS
  MultiStops = {TRUE, FALSE}
  Failing <- Everything
  Steps <- TwoSteps
  MaxHooks = 2
  MaxPackets = 2
  MaxOutside = 1
INVARIANTS StatusInv EachReminderOnce
PROPERTY ReminderLeavesReceived
CHECK_DEADLOCK FALSE
