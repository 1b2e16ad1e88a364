\* Three sign-ins at a time for one address.
SPECIFICATION Spec
CONSTANTS
    Procs = {p1, p2, p3}
    MaxAttempts = 3
    Window = 2
    MaxCalls = 8
CHECK_DEADLOCK FALSE
INVARIANTS
    TypeOK
    GuessesBounded
    LimitExact
    CounterTimed
PROPERTIES
    LockEnds
