\* Two requests at a time on the badges of one account.
SPECIFICATION Spec
CONSTANTS
    Organisers = {o1}
    Badges = {b1, b2}
    Slugs = {s1, s2}
    Codes = {c1, c2}
    Tags = {g1}
    Procs = {p1, p2}
    None = None
    MaxCalls = 6
CHECK_DEADLOCK FALSE
SYMMETRY MCSymmetry
INVARIANTS
    TypeOK
    PublishedHasSlug
    SlugsDistinct
PROPERTIES
    DeletedFinal
    EditsKeepPublication
