SPECIFICATION Spec
CONSTANTS
    Links = {l1, l2}
    Size = 2
    MaxJobs = 1
    MaxInbound = 2
    Rounds = 1
    MaxFaults = 2
    Faults = {"loss", "timeout", "dial", "giveup", "cancel", "edit", "shutdown", "crash", "rxcancel", "rxcrash", "disk", "sweep", "clear", "rot"}
SYMMETRY Sym
INVARIANTS
    TypeOK
    DoneIsFinal
    
    
CHECK_DEADLOCK FALSE
