\* Propagations over two and three replicas that differ on four entities.
CONSTANTS
    Count = 4
    SlotCount = 2
    Slot <- MCSlot
    Rank <- MCRank
    Replicas = {"a", "b", "c"}
    Starts <- MCStarts
    PageSize = 1
    BatchSize = 1
SPECIFICATION FairSpec
INVARIANTS
    Converged
    TreesAgree
    GossipConverges
PROPERTIES
    NoStepBack
    PropagationEnds
CHECK_DEADLOCK FALSE
