CONSTANTS
  a = a
  b = b
  e = e
  x = x
  y = y
  Names <- MCNames
  Bytes <- MCBytes
  RootName = slash
  Clobbered = clobbered
  Garbage = garbage
  MAX_CHILDREN = 1
  MAX_COMPONENTS = 1
  MAX_OPEN_FILES = 2
  U32 = 16
  MallocMayFail = TRUE
  MaxInodes = 3
  MaxFiles = 2
  MaxPos = 2
  Paths <- FilePaths
  OpenFlags <- AllFlags
  Contents <- ShortContents
  Sizes = {1, 2}
  Offsets <- SeekOffsets
SPECIFICATION Spec
SYMMETRY SameFiles
INVARIANTS TypeOK NoStrayAccess
PROPERTIES WritesInPlace FailedCallsPure
