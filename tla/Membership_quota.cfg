\* The account has room for one more, and two invitees accept at once.
SPECIFICATION Spec
CONSTANTS
    mona = mona
    uma = uma
    vic = vic
    olga = olga
    p1 = p1
    p2 = p2
    Users <- MCTwoUsers
    Managers <- MCNobody
    Candidates <- MCTwoUsers
    Inviters <- MCOwner
    Administered <- MCNobody
    FormMappings <- MCInvitationForms
    Owner = olga
    Procs <- MCTwoProcs
    MaxTxns = 2
    MaxMembers = 2
    MaxPending = 2
    OpenMemberRequest = TRUE
PROPERTIES
    AcceptKeepsQuota
