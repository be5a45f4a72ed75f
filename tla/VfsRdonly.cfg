CONSTANTS
  a = a
  b = b
  e = e
  x = x
  y = y
  Names <- MCNames
  Bytes <- MCBytes
  RootName = slash
  Clobbered = clobbered
  Garbage = garbage
  MAX_CHILDREN = 2
  MAX_COMPONENTS = 2
  MAX_OPEN_FILES = 2
  U32 = 16
  MallocMayFail = FALSE
  MaxInodes = 3
  MaxFiles = 2
  MaxPos = 2
  Paths <- FilePaths
  OpenFlags <- AllFlags
  Contents <- NoContents
  Sizes = {1}
  Offsets = {}
SPECIFICATION Spec
INVARIANT ReadersMayRead
