SPECIFICATION Spec
CONSTANTS
    Writes = {w1, w2, w3}
    Readers = {}
    Receivers = {}
    Loops = {"flusher", "syncer"}
    MaxPart = 4
    MaxEpoch = 5
    MaxCrash = 1
    MaxClose = 0
    Faults = FALSE
INVARIANT NothingDropped
INVARIANT DurableRecoverable
SYMMETRY Symmetry
CHECK_DEADLOCK FALSE
