\* Two concurrent calls over two transactions: the manager mona invites, uma answers.
SPECIFICATION Spec
CONSTANTS
    mona = mona
    uma = uma
    vic = vic
    olga = olga
    p1 = p1
    p2 = p2
    Users <- MCStaffAndUser
    Managers <- MCStaff
    Candidates <- MCOneUser
    Inviters <- MCStaff
    Administered <- MCOneUser
    FormMappings <- MCInvitationForms
    Owner = olga
    Procs <- MCTwoProcs
    MaxTxns = 2
    MaxMembers = 3
    MaxPending = 2
    OpenMemberRequest = TRUE
INVARIANTS
    TypeOK
    OutcomeMatchesStatus
    MembershipHasCause
    ProvisionalHasInvitation
SYMMETRY MCSymmetry
PROPERTIES
    ImplementsLifecycle
