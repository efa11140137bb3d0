SPECIFICATION FairSpec
CONSTANTS
    Event = {e1}
    WithDomain = {e1}
    Channel = {w}
    MailChannel = {}
    Address = {a}
    Chosen <- AllChosen
    Skippable = {"resolved", "ignored"}
    BatchSize = 1
    Window = 1
    RetryMax = 1
    RetryDelay = 1
    MaxTime = 3
    MaxFaults = 1
PROPERTIES
    LostStaysSilent
    EveryDeliverySettles
