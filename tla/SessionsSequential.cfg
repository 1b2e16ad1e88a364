\* One handler at a time, two accounts: also against the abstract specification.
SPECIFICATION Spec
CONSTANTS
    Users = {u1, u2}
    Tokens = {t1, t2, t3, t4}
    Procs = {p1}
    NoToken = NoToken
    Grace = 0
    Lifetime = 3
    AccessLife = 2
    MaxTime = 4
    MaxCalls = 5
CHECK_DEADLOCK FALSE
SYMMETRY MCSymmetry
INVARIANTS
    EndedMeansDead
PROPERTY
    PromiseKept
