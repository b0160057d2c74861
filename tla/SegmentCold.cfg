\* A stage with close = true: sync sessions, queries and metrics against the idle closer.
CONSTANTS
    i = i
    m = m
    s1 = s1
    w1 = w1
    Selectors = {s1}
    Creators = {w1}
    IdleClosers = {i}
    Retainers = {}
    Oldests = {}
    Expirers = {}
    Collectors = {m}
    Closers = {}
    OpenFaults = TRUE
    MaxGen = 1
SPECIFICATION FairSpec
INVARIANTS
    NoOrphanIndex
PROPERTIES
    IdleSegmentCloses
CHECK_DEADLOCK FALSE
