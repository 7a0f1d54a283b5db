CONSTANT Sources <- MCSources
SPECIFICATION Spec
CHECK_DEADLOCK FALSE
INVARIANTS
  NeverPanics
  TokensAreLongest
  Lossless
  CursorsSlice
  LoopsProgress
  MeaningRoundTrips
  FilesCanBeAnalyzed
