SPECIFICATION TwiceSpec
CONSTANTS
    tm = tm
    fm = fm
    up = up
    dm = dm
    a = a
    b = b
    d1 = d1
    d2 = d2
    d3 = d3
    t1 = t1
    f1 = f1
    Mail = {fm}
    Upload = {}
    Org = {a, b}
    OfDomain = {}
    To <- Everyone
    Report = {d1, d2, d3, t1, f1}
    Dmarc = {d1, d2, d3}
    Tls = {t1}
    Bad = {}
    Contents <- Attached
    Session = {s1}
    NoMail = NoMail
    NoOrg = NoOrg
    NoReport = NoReport
    MaxFaults = 1
INVARIANTS
    NothingSavedTwice
CHECK_DEADLOCK FALSE
