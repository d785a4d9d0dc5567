SPECIFICATION Spec
CONSTANTS
    Calls = {c1, c2}
    Users = {u}
    Actors = {u, a}
    Groups = {"g", "h"}
    GroupLists <- MCGroupLists
    Passwords = {p}
    Gated = {"h"}
    Ids = {i1, i2, i3}
    Statuses <- MCStatuses
    MaxBusy = 2
    MaxRefusals = 1
    None = None
SYMMETRY MCSymmetry
INVARIANTS
    ListedRequestsExist
    AuditLogIsTrue
PROPERTIES
    NoSecondRequest
    AloneNothingIsLost
    RepliesAreTrue
CHECK_DEADLOCK FALSE
