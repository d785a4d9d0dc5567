SPECIFICATION Spec
CONSTANTS
    c1 = c1
    c2 = c2
    adm = adm
    usr = usr
    s1 = s1
    s2 = s2
    Changes = {c1, c2}
    Kind <- InlineAndResource
    Docs = {1, 2}
    Users = {adm, usr}
    Admins = {adm}
    Sessions = {s1, s2}
    Commands = {"create", "view", "update_change", "apply_change", "cancel_change", "cancel_request", "reject_request", "move_back_to_pending", "approve_request"}
    Faults = {"write", "reply"}
    MaxCalls = 3
SYMMETRY SessionSymmetry
INVARIANTS
    AppliedDocumentWasSent
    ClosedItemShowsNothingApplied
PROPERTY
    AwsChangedOnlyByEntitledCalls
CHECK_DEADLOCK FALSE
