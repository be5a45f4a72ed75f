CONSTANTS
  a = a
  b = b
  e = e
  x = x
  y = y
  Names <- MCNames
  Bytes <- MCBytes
  RootName = slash
  Clobbered = clobbered
  Garbage = garbage
  MAX_CHILDREN = 2
  MAX_COMPONENTS = 2
  MAX_OPEN_FILES = 1
  U32 = 16
  MallocMayFail = TRUE
  MaxInodes = 5
  MaxFiles = 2
  MaxPos = 0
  Paths <- TreePaths
  OpenFlags <- CreateOnly
  Contents <- NoContents
  Sizes = {}
  Offsets = {}
SPECIFICATION Spec
INVARIANTS TreeShape SiblingNamesDistinct HandlesOnFiles
PROPERTIES PathsStable TableFollowsFiles
