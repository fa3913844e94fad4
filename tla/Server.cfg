CONSTANTS
    c1 = c1
    c2 = c2
    Nobody = Nobody
    Connections <- TwoConnections
    Limits = {1, 2}
    SingleSession = FALSE
    MaxFrames = 3
SPECIFICATION LiveSpec
CHECK_DEADLOCK FALSE
INVARIANT RunningSessionsBounded
INVARIANT StopLeavesNoThread
INVARIANT TypeOK
PROPERTY ReleasedThreadsEnd
