CONSTANTS
  Inputs <- MCInputs
  Suffixed <- MCSuffixed
  Rank <- MCRank
  Relationships <- MCRelationships
  Segments <- MCSegments
  Words <- MCWords
  GoTypeOf <- MCGoTypeOf
  TypeMapping <- MCTypeMapping
  RepositoryNames = {"repo"}
  PathBefore <- MCPathBefore
  PageSize = 3
  MaxWalk = 24
  None = none
SPECIFICATION FairSpec
INVARIANTS SharingComesFromUpdates OutputIsStable GeneratedOnce ImportsFit FilesKeepApart
PROPERTIES LoadIsWhole UpdatesStayWithin RemovesKeepTheRest Ends
CHECK_DEADLOCK FALSE
