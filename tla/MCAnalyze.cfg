CONSTANTS
  NoName = noname
  None = none
  Workspaces <- MCWorkspaces
  Cap = 2
  Letters <- MCLetters
  Capital <- MCCapital
  Separators = {"_"}
SPECIFICATION ContractSpec
INVARIANTS UnitsAreParsed RelationsAreSound FileOrderDoesNotMatter ReferencesResolve NearestAttributesWin AdapterFitsServer
PROPERTY Terminates
CHECK_DEADLOCK FALSE
