\* The inviter loses the permission to invite before the invitation is accepted.
SPECIFICATION Spec
CONSTANTS
    mona = mona
    uma = uma
    vic = vic
    olga = olga
    p1 = p1
    p2 = p2
    Users <- MCStaffAndUser
    Managers <- MCStaff
    Candidates <- MCOneUser
    Inviters <- MCStaff
    Administered <- MCOneUser
    FormMappings <- MCInvitationForms
    Owner = olga
    Procs <- MCTwoProcs
    MaxTxns = 1
    MaxMembers = 3
    MaxPending = 2
    OpenMemberRequest = TRUE
PROPERTIES
    RefusalInvalidates
