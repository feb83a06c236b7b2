SPECIFICATION Spec
CONSTANTS
  NoPath = NoPath
  Paths <- MCPaths
  Names <- MCNames
  Symbols <- MCSymbols
  Usrs <- MCUsrs
  BadUsr <- MCBadUsr
  Targets <- MCTargets
  StoredPath <- MCStoredPath
  LocalTarget <- MCLocalTarget
  ModuleOfPath <- MCModuleOfPath
  ScanRecords <- MCScanRecords
  MaxFiles = 2
  MaxModules = 2
  MaxIncludes = 2
  MaxFunctions = 2
  MaxMacros = 1
  MaxTypes = 1
  MaxCalls = 1
  MaxRecords = 4
INVARIANTS Consistent
PROPERTIES FrozenByError KeepsPromise
CHECK_DEADLOCK FALSE
