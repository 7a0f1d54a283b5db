\* Three goroutines, two new strings, slot 0 reserved and not in the map.
CONSTANTS
  Procs = {p1, p2, p3}
  Strings = {empty, a}
  Empty = empty
  PreInterned = FALSE
  None = none
SPECIFICATION FairSpec
INVARIANTS HandlesIdentifyStrings IssuedResolve TableAgrees
PROPERTIES CallsReturn ImplementsAtomic
CHECK_DEADLOCK TRUE
