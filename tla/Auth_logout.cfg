\* One device, calls one at a time: a login, a logout, a logout_all.
SPECIFICATION Spec
CONSTANTS
    phone = phone
    laptop = laptop
    tablet = tablet
    p1 = p1
    p2 = p2
    Devices <- MCOneDevice
    OAuthDevices <- MCOneDevice
    Threads <- MCOneThread
    MaxSessions = 2
    MaxAttempts = 2
    MaxCalls = 3
INVARIANTS
    LogoutAllEndsAllAccess
CHECK_DEADLOCK FALSE
