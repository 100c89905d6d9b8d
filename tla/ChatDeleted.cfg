CONSTANTS
  MaxTexts <- TwoAndNone
  MaxAbove = 1
  MaxEnvs = 1
  MaxEks = 3
  MaxKeys = 40
  Receipts = FALSE
  Anchored = {}
  Custody = FALSE
  Faults = {"delete"}
  MaxFaults = 1
SPECIFICATION Spec
INVARIANT DeletedStaysDeleted
CHECK_DEADLOCK FALSE
