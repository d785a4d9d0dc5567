SPECIFICATION Spec
CONSTANTS
    t1 = t1
    t2 = t2
    u1 = u1
    u2 = u2
    ip1 = ip1
    ip2 = ip2
    s1 = s1
    s2 = s2
    Tokens = {t1}
    Users = {u1, u2}
    Ips = {ip1, ip2}
    Sessions = {s1, s2}
    MatchIp = TRUE
    Faults = {"write", "crash"}
    MaxCalls = 4
SYMMETRY CallSymmetry
INVARIANT
    AnswersAreApproved
PROPERTY
    AnswersGoToTheAsker
CHECK_DEADLOCK FALSE
