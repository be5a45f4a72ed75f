CONSTANTS
  a = a
  b = b
  e = e
  x = x
  y = y
  Names <- MCNames
  Bytes <- MCBytes
  RootName = slash
  Clobbered = clobbered
  Garbage = garbage
  MAX_CHILDREN = 2
  MAX_COMPONENTS = 2
  MAX_OPEN_FILES = 2
  U32 = 4
  MallocMayFail = FALSE
  MaxInodes = 3
  MaxFiles = 1
  MaxPos = 3
  Paths <- FilePaths
  OpenFlags <- AllFlags
  Contents <- ShortContents
  Sizes = {1, 2}
  Offsets <- SeekOffsets
SPECIFICATION Spec
INVARIANT NoStrayAccess
