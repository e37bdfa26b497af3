CONSTANTS
  a = a
  b = b
  Name = {a, b}
  Contents <- AllTexts
  NoAST = NoAST
  NotFound = NotFound
  NoBuild = NoBuild
  ReadResults <- ReadAnything
  Remappings <- BothRemappings
  DefaultRemapping <- Identity
  EVMVersions = {ev1, ev2}
  DefaultEVMVersion = ev1
  Libraries = {none, lib1}
  NoLibraries = none
  RequestedSets <- Requests
  NoSuchContract = NoSuchContract
  OptimizeArgs = {FALSE}
  LiteralArgs = {FALSE}
  IsLibraryArgs = {FALSE, TRUE}
  Responses = {a}
  Prerelease = FALSE
  MaxWarningsAllowed = 2
  MaxErrorsAllowed = 1
  ReportBound = 1
SPECIFICATION PartsSpec
INVARIANTS ParsedStackIsClosed AnalysedIsClean ContractsComplete
  CompileReturnsFreshObjects CreationOrderExists
