\* A repair of two replicas that have the same revision of an entity, one deleted.
CONSTANTS
    Count = 4
    SlotCount = 2
    Slot <- MCSlot
    Rank <- InOrder
    Replicas = {"a", "b", "c"}
    Starts <- MCStarts
    PageSize = 1
    BatchSize = 1
SPECIFICATION Spec
INVARIANTS
    TieGoesToClient
CHECK_DEADLOCK FALSE
