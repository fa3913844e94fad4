\* Files, payloads and calls, each altered in at most one place.
CONSTANTS
    None = None
    IdentityOrder <- IdsTwo
    Width = 3
    MaxCanonicalBytes = 25
    MaxAttributeTextLength = 1
    MaxSubjects = 1
    MaxAttributes = 2
    Misread = 2
    PlainReals = 3
    MaxDepth = 5
    MaxItems = 17
    MaxObjectMembers = 9
    MaxArrayItems = 1
    Docs <- MCDocs
    Stamps = {1, 2}
    Cells <- MCCells
    Tokens <- MCTokens
    MaxRetainedObservations = 1
    MaxEpoch = 2
    MaxRecords = 2
    MaxRecordsWhenAltering = 0
SPECIFICATION Spec
INVARIANTS
    OpensAgain
    AcceptedAsMeant
    AlteredIntentIsRefused
    PayloadsAreWhole
    ParserIsExact
    TypeOK
