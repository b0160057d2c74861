CONSTANTS
    Addrs = {"a1", "a2"}
    Callers = {k1}
    Conns = {1, 2, 3}
    Evictions = {1, 2}
    Probes = {1, 2}
    MaxFlips = 2
    MaxChurn = 1
    MaxReloads = 1
SPECIFICATION FairSpec
INVARIANTS
    ActiveIsOpen
    SelectorFollowsActive
    MarkHasProbe
PROPERTIES
    NodeReturns
    RemovedNodeLeaves
CHECK_DEADLOCK FALSE
