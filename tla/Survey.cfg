SPECIFICATION Spec
CONSTANTS
  ac = ac  ah = ah  bc = bc  bh = bh  a = a  b = b  c = c
  NoPath = NoPath
  Paths <- MCPaths
  Names <- MCNames
  Symbols <- MCSymbols
  Usrs <- MCUsrs
  BadUsr <- MCBadUsr
  MainUsr = "main"
  EmptyUsr = ""
  Targets <- MCTargets
  StoredPath <- MCStoredPath
  LocalTarget <- MCLocalTarget
  RawNames <- MCRawNames
  NormalizeModule <- MCNormalize
  Facts <- MCFacts
  Options <- MCOptions
  MaxFiles = 4
  MaxModules = 2
  MaxIncludes = 4
  MaxFunctions = 4
  MaxMacros = 4
  MaxTypes = 4
  MaxCalls = 4
  MaxFacts = 4
INVARIANTS FindingsOfFacts SplitPairsAccepted LibraryOmitsOnly StaticAdviceSafe TablesOfFacts GraphAgrees FindingsLocated
CHECK_DEADLOCK FALSE
