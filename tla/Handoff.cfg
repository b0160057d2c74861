CONSTANTS
    p1 = p1
    p2 = p2
    t1 = t1
    t2 = t2
    Tables = {t1, t2}
    Table <- MCTable
    Nodes = {n1, n2}
    Parts = {p1, p2}
    Item <- MCItem
    Key <- MCKey
    Number <- MCNumber
    Size <- MCSize
    Dropped = {p2}
    MaxSize = 2
    Batch = 2
    MaxFlips = 2
    MaxCrash = 1
SPECIFICATION FairSpec
INVARIANTS
    WithinLimit
    AccountCoversQueue
PROPERTIES
    
    QueuedReplayed
CHECK_DEADLOCK FALSE
