CONSTANTS
  Paths <- MCPaths
  GoPaths <- MCGoPaths
  Models = {"m1", "m2"}
  Files <- MCFiles
  Texts <- MCTexts
  UserText = "user"
  SkipPrune <- MCSkipPrune
  TornWrites = TRUE
SPECIFICATION Spec
INVARIANT RunsConverge
