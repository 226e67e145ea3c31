\* Calls one at a time: the owner olga invites, uma and vic are invited or ask to
\* join, and the member mona, who leaves and is removed, makes room for both or
\* for one; quotas, conflicts, cooldowns, expiry.
SPECIFICATION FairSpec
CONSTANTS
    mona = mona
    uma = uma
    vic = vic
    olga = olga
    p1 = p1
    p2 = p2
    Users <- MCStaffAndUsers
    Managers <- MCStaff
    Candidates <- MCTwoUsers
    Inviters <- MCOwner
    Administered <- MCStaff
    FormMappings <- MCRequestForms
    Owner = olga
    Procs <- MCOneProc
    MaxTxns = 2
    MaxMembers = 3
    MaxPending = 2
    OpenMemberRequest = TRUE
INVARIANTS
    QuotaOvershootBounded
    OpenPerUserBounded
PROPERTIES
    CooldownRespected
    EventuallyClosed
