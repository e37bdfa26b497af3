CONSTANTS
  a = a
  b = b
  none = none
  lib1 = lib1
  ev1 = ev1
  ev2 = ev2
  Name = {a, b}
  Contents <- Texts
  NoAST = NoAST
  NotFound = NotFound
  NoBuild = NoBuild
  ReadResults <- Read
  Remappings <- BothRemappings
  DefaultRemapping <- Identity
  EVMVersions = {ev1, ev2}
  DefaultEVMVersion = ev1
  Libraries = {none, lib1}
  NoLibraries = none
  RequestedSets <- NoRequestedSets
  NoSuchContract = NoSuchContract
  OptimizeArgs = {FALSE, TRUE}
  LiteralArgs = {FALSE, TRUE}
  IsLibraryArgs = {FALSE}
  Responses = {a}
  Prerelease = TRUE
  MaxWarningsAllowed = 3
  MaxErrorsAllowed = 2
  ReportBound = 20
  Requests <- GoodRequests
  Absent = Absent
  Star = Star
  NoName = NoName
  RequestBound = 3
SPECIFICATION SCSpec
INVARIANTS RequestSettingsEffective NoForeignSources FailureReported
PROPERTIES RequestsAnswered ServesEachAlone
CHECK_DEADLOCK FALSE
