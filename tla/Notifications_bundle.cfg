SPECIFICATION FairSpec
CONSTANTS
    Event = {e1, e2}
    WithDomain = {}
    Channel = {m}
    MailChannel = {m}
    Address = {}
    Chosen <- AllChosen
    Skippable = {"resolved", "ignored"}
    BatchSize = 2
    Window = 1
    RetryMax = 1
    RetryDelay = 1
    MaxTime = 2
    MaxFaults = 1
INVARIANTS
    StatusIsTrue
    RetriesEnd
PROPERTIES
    ImplementsOutbox
    ClosedStaysSilent
