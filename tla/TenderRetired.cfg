SPECIFICATION Spec
CONSTANTS
  Loads <- TwoCarriers
  NoThread = NoThread
  Threads = {t1, t2}
  Slots = {1}
  Skips = {"accepted", "rejected"}
  Failing = {}
  MaxMails = 3
  MaxOutside = 0
PROPERTY LiveThreadNotRetired
CHECK_DEADLOCK FALSE
