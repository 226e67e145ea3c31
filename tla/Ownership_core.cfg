\* Transfers, forced transfers and member management, two calls at a time.
SPECIFICATION Spec
CONSTANTS
    a = a
    b = b
    c = c
    p1 = p1
    p2 = p2
    Users <- MCThreeUsers
    FirstOwner = a
    Provisional <- MCThird
    Procs <- MCTwoProcs
    Invitees <- MCTwoUsers
    Administered <- MCTwoUsers
    FormMappings <- MCForms
    Governance = TRUE
    MaxOffers = 1
INVARIANTS
    TypeOK
    ExactlyOneOwner
    OnlyOwnerHoldsOwnerRole
SYMMETRY MCSymmetry
PROPERTIES
    OwnershipMovesByOffer
    ImplementsLifecycle
