SPECIFICATION FairSpec
CONSTANTS
    Rule = {r}
    Subject = {s}
    Id = {i1, i2}
    Evaluator = {v, w}
    Cooldown = 1
    MaxLag = 1
    MaxFaults = 1
    NoRule = NoRule
INVARIANTS
    NoAlertWithoutRule
PROPERTIES
    RepeatsAreRaces
    PauseIsKept
    FindingIsReported
