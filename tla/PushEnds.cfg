SPECIFICATION FairSpec
CONSTANTS
    Links = {l1, l2}
    Size = 2
    MaxJobs = 1
    MaxInbound = 2
    Rounds = 1
    MaxFaults = 2
    Faults = {"loss", "crash", "rxcrash", "cancel", "rxcancel"}
PROPERTY
    EverySendEnds
CHECK_DEADLOCK FALSE
