CONSTANTS
  Cols = 3
  Rows = 2
  Glyph = g
  Newline = nl
  Sizes = {1, 2}
  Scratch = 2
  MaxVfsAlloc = 1
  BootEnd = 1
  HeapTop = 5
  Slash = slash
  Letter = letter
  NUL = nul
  Paths <- MCPaths
  MAX_COMPONENTS = 2
SPECIFICATION Spec
INVARIANTS PTypeOK CursorInReach CursorHalfway BootKeepsHeapEnd RowAboveLive ComponentsInOrder
