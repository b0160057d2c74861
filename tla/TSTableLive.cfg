SPECIFICATION FairSpec
CONSTANTS
    Writes = {w1, w2}
    Readers = {}
    Receivers = {s1}
    Loops = {"flusher", "merger"}
    MaxPart = 4
    MaxEpoch = 5
    MaxCrash = 0
    MaxClose = 0
    Faults = FALSE
INVARIANT NoRowTwice
INVARIANT IntroductionFits
INVARIANT FlushDirFresh
INVARIANT SyncCompleteSurvives
PROPERTY RowsBecomeDurable
PROPERTY MergedPartsVanish
CHECK_DEADLOCK FALSE
