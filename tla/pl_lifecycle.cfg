SPECIFICATION Spec
CONSTANTS
    Requests = {q1, q2}
    Roles = {a, b}
    Users = {u}
    Managed = {m1, m2}
    Inline = {i}
    Keys = {k}
    MaxRefusals = 1
    MaxEvent = 2
    None = None
INVARIANTS
    OrphansAreReported
    CleanCloneIsComplete
    RoleDeleteSucceeds
CHECK_DEADLOCK FALSE
