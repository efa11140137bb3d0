SPECIFICATION Spec
CONSTANTS
    Rule = {r}
    Subject = {s}
    Id = {i1, i2}
    Evaluator = {w}
    Cooldown = 1
    MaxLag = 1
    MaxFaults = 0
    NoRule = NoRule
INVARIANTS
    HistoryStays
