\* One handler at a time: signing in twice and changing the password once.
SPECIFICATION Spec
CONSTANTS
    Users = {u1}
    Tokens = {t1, t2, t3}
    Procs = {p1}
    NoToken = NoToken
    Grace = 0
    Lifetime = 3
    AccessLife = 2
    MaxTime = 4
    MaxCalls = 5
CHECK_DEADLOCK FALSE
PROPERTIES
    PasswordChangeEndsSessions
