CONSTANTS
    Procs = {p1, p2}
    None = None
    Emails = {e1, e2}
    Segments = {"cloud", "image", "upload", "v17", "template-logos", "a"}
    Subjects = {g1, g2}
    Logos = {b1}
    e1 = e1
    e2 = e2
    g1 = g1
    g2 = g2
    b1 = b1
    MaxCalls = 4
    MaxUsers = 3
    MaxStates = 2
    MaxAssets = 5
    MaxTokens = 2
    Gmail <- MCGmail
    Pictures <- MCPictures
    Early <- MCEarly
    EarlyLogos <- MCEarlyLogos
SPECIFICATION SiteSpec
INVARIANTS SiteTypeOK AccountsSound  NothingLeaks LinkWorks
CHECK_DEADLOCK FALSE
SYMMETRY Alike
