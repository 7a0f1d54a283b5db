CONSTANTS
  Paths <- MCPaths
  GoPaths <- MCGoPaths
  Models = {"m1", "m2", "m3", "m4", "m5"}
  Files <- MCFiles
  Texts <- MCTexts
  UserText = "user"
  SkipPrune <- MCSkipPrune
  TornWrites = FALSE
SPECIFICATION Spec
INVARIANTS RunsConverge RerunsChangeNothing
PROPERTY HandWrittenSurvives
