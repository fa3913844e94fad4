CONSTANTS
    a = a
    b = b
    None = None
    Records <- TraceRecords
    States <- TraceStates
    Empty <- NoRecords
    Apply <- Extended
    Fits <- AnySize
    MaxJournal = 4
    MaxSequence = 2
SPECIFICATION Spec
INVARIANT CrashLosesNothing
