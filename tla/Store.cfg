CONSTANTS
    a = a
    b = b
    None = None
    Records <- TraceRecords
    States <- TraceStates
    Empty <- NoRecords
    Apply <- Extended
    Fits <- AnySize
    MaxJournal = 4
    MaxSequence = 4
SPECIFICATION LiveSpec
INVARIANTS TypeOK NothingAcknowledgedIsLost
PROPERTIES Implements Reopens
