SPECIFICATION ToolsSpec
CONSTANTS
  s1 = s1
  n1 = n1
  r1 = r1
  o1 = o1
  d1 = d1
  drifted = drifted
  AnySubject = AnySubject
  None = None
  Actionable <- AllDrift
  FenceOf <- OneFence
  Scopes <- ScopeOne
  Subjects <- SubjectOne
  Reporters <- ReporterOne
  ObservationIds = {o1}
  FenceIds <- FenceOne
  Digests = {d1}
  Bodies = {drifted}
  Policies <- PolicyTwo
  InitialPolicy <- Strict
  Generations <- GenTwo
  Times <- TimeOne
  Epochs <- EpochTwo
  AttemptIds <- IdsOne
  MaxPlans = 2
  MaxRetainedObservations = 2
  MaxRetainedAttempts = 1
  MaxRetainedOutcomes = 3
INVARIANTS
  ExitIsTruthful
  ToolsTypeOK
PROPERTIES
  InheritedIsInert
