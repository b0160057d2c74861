\* A stage that keeps its segments open: queries, retention, forced clean-up, Close.
CONSTANTS
    o = o
    r = r
    s1 = s1
    s2 = s2
    x = x
    Selectors = {s1, s2}
    Creators = {}
    IdleClosers = {}
    Retainers = {r}
    Oldests = {o}
    Expirers = {}
    Collectors = {}
    Closers = {x}
    OpenFaults = FALSE
    MaxGen = 1
SPECIFICATION FairSpec
INVARIANTS
    HeldSegmentOpen
PROPERTIES
    DeletedSegmentIsReclaimed
    CloseClosesSegment
CHECK_DEADLOCK FALSE
