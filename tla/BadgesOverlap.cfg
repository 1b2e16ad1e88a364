\* Two publications of one badge at a time.
SPECIFICATION Spec
CONSTANTS
    Organisers = {o1}
    Badges = {b1}
    Slugs = {s1, s2}
    Codes = {c1}
    Tags = {g1}
    Procs = {p1, p2}
    None = None
    MaxCalls = 4
CHECK_DEADLOCK FALSE
PROPERTIES
    SlugStable
