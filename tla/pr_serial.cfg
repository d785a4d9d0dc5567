SPECIFICATION FairSpec
CONSTANTS
    c1 = c1
    c2 = c2
    adm = adm
    usr = usr
    s1 = s1
    s2 = s2
    Changes = {c1, c2}
    Kind <- InlineAndResource
    Docs = {1, 2}
    Users = {adm, usr}
    Admins = {adm}
    Sessions = {s1}
    Commands = {"create", "view", "add_comment", "update_change", "apply_change", "cancel_change", "cancel_request", "reject_request", "move_back_to_pending", "approve_request"}
    Faults = {}
    MaxCalls = 4
INVARIANTS
    RecordMatchesAws
    ReplyLeavesNothingToSettle
PROPERTIES
    FollowsLifecycle
    AppliedGetsRecorded
CHECK_DEADLOCK FALSE
