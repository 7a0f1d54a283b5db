CONSTANTS
  x = x
  y = y
  a = a
  b = b
  c = c
  Inputs <- MCInputs
  Queries <- MCQueries
  Values <- MCValues
  Zero = 0
  Instr <- Cyclic
  None = none
  MaxRevision = 2
  MayCancel = TRUE
SPECIFICATION FairSpec
INVARIANT RecursionIsBounded
PROPERTIES ReadsAreFromScratch GetsEnd
