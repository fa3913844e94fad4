CONSTANTS
    c1 = c1
    c2 = c2
    Nobody = Nobody
    Connections <- TwoConnections
    Limits = {2}
    SingleSession = FALSE
    MaxFrames = 1
SPECIFICATION LiveSpec
CHECK_DEADLOCK FALSE
PROPERTY StopReturns
