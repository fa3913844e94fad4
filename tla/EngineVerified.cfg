SPECIFICATION Spec
CONSTANTS
  s1 = s1
  n1 = n1
  r1 = r1
  o1 = o1
  f1 = f1
  d1 = d1
  drifted = drifted
  AnySubject = AnySubject
  None = None
  Actionable <- AllDrift
  Scopes <- ScopeOne
  Subjects <- SubjectOne
  Reporters <- ReporterOne
  ObservationIds = {o1}
  FenceIds = {}
  Digests = {d1}
  Bodies = {drifted}
  Policies <- PolicyLax
  InitialPolicy <- Lax
  Generations <- GenOne
  Times <- TimeOne
  Epochs <- EpochTwo
  AttemptIds <- IdsTwo
  MaxPlans = 1
  MaxRetainedObservations = 2
  MaxRetainedAttempts = 2
  MaxRetainedOutcomes = 3
INVARIANTS
  VerifiedNeedsEvidence
