SPECIFICATION FairSpec
CONSTANTS
    t1 = t1
    t2 = t2
    u1 = u1
    u2 = u2
    ip1 = ip1
    ip2 = ip2
    s1 = s1
    s2 = s2
    Tokens = {t1, t2}
    Users = {u1, u2}
    Ips = {ip1}
    Sessions = {s1}
    MatchIp = TRUE
    Faults = {}
    MaxCalls = 4
INVARIANTS
    AnsweredOnce
    
    ShownPageWorks
PROPERTY
    ApprovalReachesClient
CHECK_DEADLOCK FALSE
