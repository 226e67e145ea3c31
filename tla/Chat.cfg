\* Three users, two conversations, two calls at a time.
SPECIFICATION Spec
CONSTANTS
    u1 = u1
    u2 = u2
    u3 = u3
    c1 = c1
    c2 = c2
    p1 = p1
    p2 = p2
    Users <- MCUsers
    Conversations <- MCConversations
    Threads <- MCThreads
    NoUser = NoUser
    NoConversation = NoConversation
    MaxSize = 2
    MaxRequest = 1
    MaxGroups = 1
    MaxCalls = 4
SYMMETRY Symmetry
INVARIANTS
    TypeOK
    HistoryInOrder
PROPERTIES
    GroupStaysManaged
    LimitsOvertaken
    DeletedStaysDeleted
    PreviewIsOfLast
CHECK_DEADLOCK FALSE
