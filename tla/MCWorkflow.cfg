\* Bodies of up to three items, forks of up to three branches, one signal that may arrive twice.
CONSTANTS
  Workflows <- MCWorkflows
  Signals = {"x"}
  None = none
  MaxSignals = 2
  MaxItems = 3
  MaxBranches = 3
SPECIFICATION Spec
INVARIANT ParallelStepsRunTogether
PROPERTIES Implements Returns
CHECK_DEADLOCK FALSE
