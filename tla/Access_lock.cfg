SPECIFICATION AccountsSpec
CONSTANTS
    Browser = {b1}
    Password = {old, new}
    Email = {e1}
    Ip <- OneAddress
    Window = 2
    Lockout = 2
    MaxPerIp = 3
    MaxPerAccount = 2
    MaxTime = 3
    MaxAttempts = 4
    Nothing = Nothing
INVARIANTS
    LockLasts
