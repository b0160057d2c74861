CONSTANTS
    Settings <- Sound
    MaxRetries = 3
    MaxBuffer = 2
    MaxGap = 2
    MaxSends = 6
SPECIFICATION FairSpec
INVARIANT ReportedPartsDelivered
INVARIANT IntroducedPartsWhole
PROPERTY SessionEnds
CHECK_DEADLOCK FALSE
