SPECIFICATION Spec
CONSTANTS
  gcc = gcc  clang = clang
  Bare = Bare  None = None  Empty = Empty
  Compilers <- MCCompilers
  Dirs <- MCDirs
  MaxCommands = 4
SYMMETRY MCSymmetry
INVARIANTS LastWasConfigured TestsAsBuilt CoverageSeesTests
CHECK_DEADLOCK FALSE
