CONSTANTS
  Callers = {c1, c2}
  Workflows = {"driver_assignment", "ratecon", "pod_lifecycle", "load_tendering", "appointment_scheduling"}
  Subs <- AllSubs
  Requests <- ProgramRequests
  Idle = Idle
  MaxTransactions = 3
SPECIFICATION LogSpec
SYMMETRY Symmetry
INVARIANTS LogTypeOK TrailTellsRow PausedWhileFailed
PROPERTIES ReviewEndsOnProgress
