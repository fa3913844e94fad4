CONSTANTS
    Library <- TwoConnections
    Raw <- LastConnection
    RawFrames <- SomeFrames
    MaxCalls = 3
    MaxRaw = 3
    MaxEpoch = 2
SPECIFICATION Spec
CONSTRAINT Apart
CHECK_DEADLOCK FALSE
INVARIANT TypeOK
INVARIANT CallsAreTruthful
INVARIANT EffectsAreOwnedAndOrdered
