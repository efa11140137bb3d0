SPECIFICATION Spec
CONSTANTS
    Event = {e1}
    WithDomain = {}
    Channel = {w}
    MailChannel = {}
    Address = {}
    Chosen <- AllChosen
    Skippable = {"resolved", "ignored"}
    BatchSize = 1
    Window = 1
    RetryMax = 1
    RetryDelay = 1
    MaxTime = 2
    MaxFaults = 0
PROPERTIES
    SilentOnceClosed
