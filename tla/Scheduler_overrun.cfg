SPECIFICATION Spec
CONSTANTS
    Process = {p1, p2}
    NumJobs = 1
    Interval <- OneInterval
    MaxStall = 2
    MaxRun = 7
    MaxTime = 7
INVARIANTS
    TurnsApart
PROPERTIES
    StartsSpaced
