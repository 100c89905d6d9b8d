CONSTANTS
  MaxTexts <- TwoAndNone
  MaxAbove = 1
  MaxEnvs = 1
  MaxEks = 3
  MaxKeys = 40
  Receipts = FALSE
  Anchored = {1}
  Custody = FALSE
  Faults = {"loss", "late", "crash", "disk", "power", "delete", "cut", "redo", "record", "copy", "restore"}
  MaxFaults = 3
SPECIFICATION Spec
INVARIANTS KeysUsedOnce NumbersGivenOnce TextsKept  NoFalseAlarm
CHECK_DEADLOCK FALSE
