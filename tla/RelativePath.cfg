SPECIFICATION Spec
CONSTANTS
  Empty = ""
  Components <- MCComponents
  Length <- MCLength
  MaxComponents = 5
  Bytes <- MCBytes
  Stem = "a"
  BytesOf <- MCBytesOf
  LibraryByte = "P"
  MaxName = 10
INVARIANTS
  TypeOK
  FitsDestination
  NormalForm
  CutOnlyAtTheEnd
  IncludesAsNames
  RelativeReaches
CHECK_DEADLOCK FALSE
