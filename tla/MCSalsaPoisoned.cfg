CONSTANTS
  x = x
  y = y
  a = a
  b = b
  c = c
  Inputs <- MCInputs
  Queries <- MCQueries
  Values <- MCValues
  Zero = 0
  Instr <- Acyclic
  None = none
  MaxRevision = 1
  MayCancel = TRUE
SPECIFICATION Spec
INVARIANT CycleErrorsAreCycles
