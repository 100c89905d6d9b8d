SPECIFICATION Spec
CONSTANTS
    Links = {l1, l2}
    Size = 2
    MaxJobs = 1
    MaxInbound = 2
    Rounds = 1
    MaxFaults = 2
    Faults = {"loss", "clear"}
PROPERTY
    RunningUntouched
CHECK_DEADLOCK FALSE
