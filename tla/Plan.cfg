SPECIFICATION Spec
CONSTANTS
  x = x
  y = y
  None = None
  Subjects = {1, 2, 3}
  Attributes = {x, y}
  Values <- AllValues
  Inputs <- AllInputs
  MaxPlanActions = 2
CHECK_DEADLOCK FALSE
INVARIANTS
  EverySubjectOnce
  ConvergedMeansEqual
  DifferencesAreProven
  ActionsAreJustified
  ConvergedIsProven
  TypeOK
