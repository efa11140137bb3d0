SPECIFICATION Spec
CONSTANTS
    Public <- PublicNames
    None = None
    Failed = Failed
    SpfLimit = 2
    SpfDepth = 2
    MinBits = 1024
    GoodBits = 1500
    KeyBytes = 32
    ActiveDays = 7
    MaxSelectors = 2
    d1 = d1
    Domain = {d1, d2}
    Request = {m, n, q}
    Run = {j}
    MaxAge = 1
    Cooldown = 1
    Parallel = 2
    BatchSize = 1
    Old = 2
    Slow = 1
    MaxVersion = 1
    MaxFaults = 1
    Never = Never
    x1 = x1
    Listed = {a1}
    Admin = {adm}
    Entry = {r1, r2}
    Owner <- OwnerOf
    Job = {k}
    Page = {p}
    MaxWeek = 2
    MaxOrders = 2
    i1 = i1
    i2 = i2
    q1 = q1
    q2 = q2
    Import = {i1, i2}
    Received = {w}
    Report = {q1, q2}
    Loose = {}
    Log = {g}
    Path <- PathOf
    From <- FromOf
    Keep <- KeepOf
    RawDays = 1
    PerRun = 1
    Eldest = 2
    MaxMishaps = 1
    Browser = {b1, b2}
    Password = {old, new}
    old = old
    Email = {e1, e2}
    e1 = e1
    Ip <- IpOf
    Window = 2
    Lockout = 2
    MaxPerIp = 2
    MaxPerAccount = 1
    MaxTime = 2
    MaxAttempts = 4
    Nothing = Nothing
    Handler = {h1, h2}
    f = f
    g = g
    Person = {f, g, o}
    Operator = o
    Role = {"org_admin", "manager"}
    DomainName = {n1, n2}
    Limit = {0, 1, 2}
    MaxRows <- RowBounds
    Tool = {t1, t2}
    Visitor = {v1, v2}
    MaxCodes = 2
    MaxLost = 1
    Connection = {c1, c2}
    Peer = {p1}
    Mailbox = {m1, m2}
    Known = {m1}
    PerPeer = 2
    PerMailbox = 1
    Hour = 1
    MaxClock = 3
    MaxCalls = 3
    Editor = {a, b}
    Value = {1, 2}
    Unset = Unset
    RowId = {1, 2, 3}
    MaxSaves = 3
    s1 = s1
    s2 = s2
    ReportId = {s1, s2}
    Zone = {"a", "b"}
    Moment = {0, 1, 3}
    Begun = {}
    Entries <- EntriesOf
    Policy <- PolicyTags
    Class = {"suspicious"}
    SenderName <- SenderNames
    DnsStatus = {"ok"}
    Elsewhere <- ElsewhereOf
    KeepDays = 2
    PurgeLimit = 1
    MaxChanges = 1
    PeriodDays = 2
    ListLimit = 2
    Baseline = 2
    Scheduled = TRUE
    Defaults <- DefaultsOf
    Limits <- LimitSets
    Rule <- RuleSets
INVARIANTS
    FiguresAgree
    SlotsComeBack
    VerdictsHold
    FilesFollowRows
    SomebodyGotIt
    OldSessionsEnd
    GuessesAreBounded
    OneFirstAdmin
    AnswersHold
    WindowsHold
    SettingsHold
PROPERTIES
    NewestResultStays
    CooldownHolds
    OneMailASlot
    AdminRemains
    JobsCatchUp
