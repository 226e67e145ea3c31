\* The owner makes two offers, and both are accepted, one after the other.
SPECIFICATION Spec
CONSTANTS
    a = a
    b = b
    c = c
    p1 = p1
    p2 = p2
    Users <- MCThreeUsers
    FirstOwner = a
    Provisional <- MCNobody
    Procs <- MCOneProc
    Invitees <- MCTwoUsers
    Administered <- MCOneUser
    FormMappings <- MCNobody
    Governance = FALSE
    MaxOffers = 2
PROPERTIES
    AcceptedOfferIsOwners
\* With a full table and nobody to administer, nothing is left to do.
CHECK_DEADLOCK FALSE
