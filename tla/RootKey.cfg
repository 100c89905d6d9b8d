SPECIFICATION FairSpec
CONSTANTS
    Procs = {a, b, c}
    Sealers = {a, b}
    Nobody = nobody
    Together = {{a}, {a, b}, {a, c}}
    MaxMade = 10
    Files = {1, 2}
    Faults = {"crash", "unavail", "flaky", "badwrap", "gone", "link", "io", "rename"}
    MaxFaults = 3
INVARIANTS TypeOK OneKey KeyOnDisk
PROPERTY Converges
