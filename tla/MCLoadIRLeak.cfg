CONSTANTS
  Inputs <- MCInputs
  Suffixed <- MCSuffixed
  Rank <- MCRank
  Relationships <- MCRelationships
  Segments <- MCSegments
  Words <- MCWords
  GoTypeOf <- MCGoTypeOf
  TypeMapping <- MCTypeMapping
  RepositoryNames = {"repo"}
  PathBefore <- MCPathBefore
  PageSize = 3
  MaxWalk = 24
  None = none
SPECIFICATION FairSpec
PROPERTY UpdatesTouchMatchesOnly
CHECK_DEADLOCK FALSE
