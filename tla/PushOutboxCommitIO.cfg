SPECIFICATION SpecCommitIO
CONSTANTS
    Ids = {a, b}
    MaxVer = 2
    MaxDue = 1
    Slack = 1
INVARIANTS
    WantedJobsKept
