\* The promise of the sequential run, with two handlers at a time.
SPECIFICATION Spec
CONSTANTS
    Users = {u1}
    Tokens = {t1, t2, t3}
    Procs = {p1, p2}
    NoToken = NoToken
    Grace = 0
    Lifetime = 3
    AccessLife = 2
    MaxTime = 4
    MaxCalls = 5
CHECK_DEADLOCK FALSE
INVARIANTS
    EndedMeansDead
