SPECIFICATION FairSpec
CONSTANTS
    N = 3
    MaxVer = 3
    Broken = {2}
    MaxUpdates = 2
    ByHand = TRUE
    Again = {}
    Faults = {"crash", "rename", "remove", "save", "stage", "slow"}
    MaxFaults = 3
INVARIANTS TypeOK  
 
CHECK_DEADLOCK FALSE
