\* Three devices, one of them with OAuth logins too, a limit of two sessions, five
\* calls, two at a time.
SPECIFICATION Spec
CONSTANTS
    phone = phone
    laptop = laptop
    tablet = tablet
    p1 = p1
    p2 = p2
    Devices <- MCDevices
    OAuthDevices <- MCOneDevice
    Threads <- MCThreads
    MaxSessions = 2
    MaxAttempts = 2
    MaxCalls = 5
SYMMETRY MCSymmetry
INVARIANTS
    TypeOK
    OneUsablePerChain
    RevocationReachesAll
    AccessEndsWithRevocation
    InactiveSessionHasNoToken
    OrphanHasCause
    FailuresAreCounted
PROPERTIES
    LoginRestoresLimit
CHECK_DEADLOCK FALSE
