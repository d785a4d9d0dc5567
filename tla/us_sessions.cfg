SPECIFICATION FairSpec
CONSTANTS
    Groups = {g}
    Roles = {r}
    Requests = {q1, q2}
    Modes <- MCModes
    MaxChanges = 2
    None = None
PROPERTIES
    MembershipsCatchUp
    OnlyGrantedRoles
CHECK_DEADLOCK FALSE
