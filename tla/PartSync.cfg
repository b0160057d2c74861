SPECIFICATION FairSpec
CONSTANTS
    Nodes = {n1, n2}
    Size <- MCSize
    Old = 1
    Limits = {0, 2, 3}
    MaxRetries = 2
    MaxStops = 1
INVARIANT HandedOver
INVARIANT FailedPartsBounded
PROPERTY RemovesNoMoreThanNeeded
PROPERTY PartsLeaveTable
CHECK_DEADLOCK FALSE
