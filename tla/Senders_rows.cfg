SPECIFICATION FairSpec
CONSTANTS
    Source = {s1}
    Sender = {k1}
    Session = {p, q}
    Decision = {"trusted", "suspicious"}
    Listed = "suspicious"
    Batch = 1
    ForAddress = {"unknown", "suspicious"}
    ForSender = {"trusted", "reset"}
    MaxOrders = 2
    MaxChanges = 1
    Network = {s1}
    NoSender = NoSender
    Kind = {"esp"}
    None = None
    Label <- MCLabel
    Builtin <- MCBuiltin
    Extra <- MCExtra
    HostName <- MCHostName
    Lists <- MCLists
    Answer <- MCAnswer
    Forward <- MCForward
    Settings <- MCSettings
    Passed = {0, 1, 2}
INVARIANTS
    EvidenceIsWeighed
PROPERTIES
    DecisionsStay
    SourcesSettle
