SPECIFICATION Spec
CONSTANTS
  ac = ac  ah = ah  a2 = a2  bc = bc  cc = cc  long = long  cut = cut  a = a  b = b  c = c
  NoPath = NoPath
  Paths <- MCPaths
  Names <- MCNames
  Symbols <- MCSymbols
  Usrs <- MCUsrs
  BadUsr <- MCBadUsr
  Targets <- MCTargets
  StoredPath <- MCStoredPath
  LocalTarget <- MCLocalTarget
  RawNames <- MCRawNames
  NormalizeModule <- MCNormalize
  Facts <- MCLongFacts
  MaxFiles = 3
  MaxModules = 2
  MaxIncludes = 2
  MaxFunctions = 2
  MaxMacros = 1
  MaxTypes = 1
  MaxCalls = 1
  MaxLines = 4
INVARIANTS FileListedOnce
CHECK_DEADLOCK FALSE
