CONSTANTS
  MaxTexts <- TwoAndOne
  MaxAbove = 1
  MaxEnvs = 1
  MaxEks = 3
  MaxKeys = 40
  Receipts = FALSE
  Anchored = {}
  Custody = FALSE
  Faults = {"loss", "late", "dial", "rate", "refuse", "big", "crash", "delete"}
  MaxFaults = 1
SPECIFICATION FairSpec
INVARIANTS KeysUsedOnce StoredOnce
 
CHECK_DEADLOCK FALSE
