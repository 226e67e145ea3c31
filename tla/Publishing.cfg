\* A page with a required block and another, one file, two calls at a time.
SPECIFICATION Spec
CONSTANTS
    b1 = b1
    b2 = b2
    m1 = m1
    p1 = p1
    p2 = p2
    Blocks <- MCBlocks
    Required <- MCRequired
    Media <- MCMedia
    NoBlock = NoBlock
    NoFile = NoFile
    Threads <- MCThreads
    MaxVersions = 2
    MaxCalls = 3
SYMMETRY Symmetry
INVARIANTS
    TypeOK
    VersionsInOrder
    UsageIsExact
PROPERTIES
    PublishedFilesAreLive
    PageStateIsKept
    PublishedAsValidated
CHECK_DEADLOCK FALSE
