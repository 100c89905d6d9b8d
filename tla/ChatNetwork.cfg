CONSTANTS
  MaxTexts <- TwoAndNone
  MaxAbove = 1
  MaxEnvs = 1
  MaxEks = 3
  MaxKeys = 40
  Receipts = TRUE
  Anchored = {}
  Custody = TRUE
  Faults = {"loss", "late", "dial", "rate", "refuse", "delete", "disk"}
  MaxFaults = 2
SPECIFICATION Spec
INVARIANTS TypeOK StoredInOrder  
CHECK_DEADLOCK FALSE
