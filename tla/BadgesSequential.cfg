\* One request at a time, two accounts: the promise holds.
SPECIFICATION Spec
CONSTANTS
    Organisers = {o1, o2}
    Badges = {b1, b2, b3}
    Slugs = {s1, s2}
    Codes = {c1, c2}
    Tags = {g1}
    Procs = {p1}
    None = None
    MaxCalls = 5
CHECK_DEADLOCK FALSE
INVARIANTS
    DeletedUnpublished
    CodeIffPrivate
    OneHashtagList
PROPERTIES
    SlugStable
    PromiseKept
