SPECIFICATION Spec
CONSTANTS
    Ids = {a, b}
    MaxVer = 3
    MaxDue = 2
    Slack = 1
INVARIANTS
    TypeOK
    RecoverySound
    GarbageExact
    LogBounded
PROPERTY
    Recoverable
