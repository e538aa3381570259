SPECIFICATION Spec
CONSTANTS
  Loads <- AllLoads
  NoThread = NoThread
  Threads = {t1, t2}
  Slots = {1}
  Skips = {"accepted", "rejected"}
  Failing = {"read", "mail", "enqueue", "register", "revoke", "link", "raise"}
  MaxMails = 2
  MaxOutside = 1
INVARIANTS ReminderInv EscalatedLast
PROPERTIES PassedOverOnce LateTimersLost
SYMMETRY Symmetry
CHECK_DEADLOCK FALSE
