SPECIFICATION Spec
CONSTANTS
  ac = ac  ah = ah  bc = bc  a = a  b = b
  NoPath = NoPath
  Paths <- MCPaths
  Names <- MCNames
  Symbols <- MCSymbols
  Usrs <- MCUsrs
  BadUsr <- MCBadUsr
  MainUsr = "main"
  EmptyUsr = ""
  Targets <- MCTargets
  StoredPath <- MCStoredPath
  LocalTarget <- MCLocalTarget
  Maps <- MCMaps
  Options <- MCOptions
  MaxFiles = 2
  MaxModules = 2
  MaxIncludes = 2
  MaxFunctions = 2
  MaxMacros = 1
  MaxTypes = 1
  MaxCalls = 1
  Bytes <- MCBytes
  NameBytes <- MCNameBytes
  Newline <- MCNewline
  Blanks <- MCBlanks
  MaxLine = 10
INVARIANTS StatusMatchesReport FileReportArrives NoFalseClaim FailedLoadTouchesNothing LayerAnswers
PROPERTIES Ends
CHECK_DEADLOCK FALSE
