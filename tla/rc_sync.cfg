SPECIFICATION FairSpec
CONSTANTS
    r1 = r1
    v1 = v1
    v2 = v2
    acc = acc
    e1 = e1
    e2 = e2
    None = None
    Junk = Junk
    Roles = {r1}
    Values = {v1, v2}
    AwsAtFirst <- First
    Accounts = {acc}
    AccountOf <- OneAccount
    Allowed = {r1}
    Workers = {e1, e2}
    Duty <- Duties
    Ttl = 1
    Grace = 1
    Stale = 1
    MaxTime = 2
    MaxChanges = 1
PROPERTIES
    CacheCatchesUp
    DeletedRoleLeaves
    TempPoliciesGo
    
CHECK_DEADLOCK FALSE
