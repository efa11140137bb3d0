SPECIFICATION FairSpec
CONSTANTS
    Process = {p1, p2}
    NumJobs = 2
    Interval <- TwoIntervals
    MaxStall = 1
    MaxRun = 1
    MaxTime = 4
INVARIANTS
    StatusShowsRun
PROPERTIES
    ImplementsOneTurn
    EveryTurnComes
