SPECIFICATION Spec
CONSTANTS
    Writes = {w1, w2}
    Readers = {r1}
    Receivers = {s1}
    Loops = {"flusher", "merger"}
    MaxPart = 4
    MaxEpoch = 6
    MaxCrash = 1
    MaxClose = 1
    Faults = FALSE
INVARIANT TypeOK
INVARIANT LiveManifestKept
INVARIANT HeldPartsUsable
INVARIANT DurableRecoverable
INVARIANT NoDirCollision
PROPERTY ImplementsContract
SYMMETRY Symmetry
CHECK_DEADLOCK FALSE
