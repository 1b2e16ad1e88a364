CONSTANTS
    Procs = {p1, p2}
    None = None
    Users = {u1, u2}
    Templates = {t1, t2}
    u1 = u1
    u2 = u2
    t1 = t1
    t2 = t2
    MaxCalls = 2
    MaxBadges = 3
    MaxClock = 16
    Start = 15
    Limit = 2
    Updates <- MCUpdates
    Founded <- MCFounded
    Past <- MCPast
SPECIFICATION DigestsSpec
INVARIANTS DigestsTypeOK CountersAgree WalkSeesAll JobServes DigestsHonest
CHECK_DEADLOCK FALSE
PROPERTY JobEnds JobAdvances
