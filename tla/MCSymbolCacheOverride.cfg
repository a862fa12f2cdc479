\* An addr2line that never fails; files come to the symbols directory only.
SPECIFICATION CacheSpec
CONSTANTS
    a1 = a1
    a2 = a2
    b1 = b1
    b2 = b2
    h1 = h1
    h2 = h2
    Builds = {b1, b2}
    Addresses = {a1, a2}
    Handlers = {h1, h2}
    Absent = Absent
    Partial = Partial
    None = None
    Unresolved = Unresolved
    Addr2lineFails = FALSE
    MaxWrites = 0
    MaxFilings = 2
    MaxRequests = 2
SYMMETRY MCSymmetry
INVARIANT OverrideIsHonoured
CHECK_DEADLOCK FALSE
