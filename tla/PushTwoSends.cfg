SPECIFICATION Spec
CONSTANTS
    Links = {l1, l2}
    Size = 2
    MaxJobs = 2
    MaxInbound = 1
    Rounds = 1
    MaxFaults = 2
    Faults = {"loss", "cancel", "edit", "shutdown"}
SYMMETRY Sym
INVARIANT
    NothingStranded
CHECK_DEADLOCK FALSE
