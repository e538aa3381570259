SPECIFICATION Spec
CONSTANTS
  Pages <- MCPages
  Content <- MCContent
  Attachments <- MCAttachments
  Shipments <- MCShipments
  Failing = {"fetch", "download", "classify", "refuse", "stage", "merge", "llm", "numbers",
             "persist", "trim", "s3", "turvo", "die"}
  MaxFiles = 2
  MaxPackets = 2
  MaxRescores = 1
  MaxPages = 4
INVARIANTS StoredWithoutRatecons ScoreInv
CHECK_DEADLOCK FALSE
