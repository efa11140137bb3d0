SPECIFICATION FairSpec
CONSTANTS
    tm = tm
    fm = fm
    up = up
    dm = dm
    a = a
    b = b
    d1 = d1
    d2 = d2
    d3 = d3
    t1 = t1
    f1 = f1
    Mail = {tm, fm, up, dm}
    Upload = {up}
    Org = {a, b}
    OfDomain = {b}
    To <- Recipients
    Report = {d1, d2, d3, t1, f1}
    Dmarc = {d1, d2, d3}
    Tls = {t1}
    Bad = {d3}
    Contents <- Attached
    Session = {s1, s2}
    NoMail = NoMail
    NoOrg = NoOrg
    NoReport = NoReport
    MaxFaults = 1
INVARIANTS
    AcceptedIsStored
    TlsReportsOnce
    MailsStoredOnce
    TotalsAddUp
PROPERTIES
    DuplicatesAreRaces
    EveryMailSettles
