CONSTANTS
    Settings <- Corrupting
    MaxRetries = 3
    MaxBuffer = 2
    MaxGap = 2
    MaxSends = 6
SPECIFICATION Spec
INVARIANT ReportedPartsDelivered
CHECK_DEADLOCK FALSE
