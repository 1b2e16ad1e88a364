\* Two requests at a time about one account.
SPECIFICATION Spec
CONSTANTS
    Users = {u1}
    Tokens = {t1, t2, t3}
    Procs = {p1, p2}
    None = None
    Life = 2
CHECK_DEADLOCK FALSE
SYMMETRY MCSymmetry
INVARIANTS
    TypeOK
    UsedOnce
    OneLiveLink
    NewestLinkWorks
