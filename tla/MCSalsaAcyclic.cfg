CONSTANTS
  x = x
  y = y
  a = a
  b = b
  c = c
  Inputs <- MCInputs
  Queries <- MCQueries
  Values <- MCValues
  Zero = 0
  Instr <- Acyclic
  None = none
  MaxRevision = 3
  MayCancel = FALSE
SPECIFICATION FairSpec
INVARIANTS FreshMemosAreCurrent AnswersAreCurrent
PROPERTY RecomputeIsMinimal
