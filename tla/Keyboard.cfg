CONSTANTS
  Cols = 3
  Glyphs = {a, b}
  Newline = nl
  Scratch = 2
  Sector = 3
  MaxVfsAlloc = 2
  BootEnd = 2
  HeapTop = 9
SPECIFICATION Spec
INVARIANTS TypeOK HeapAboveBoot BootMemoryIntact PathIsLine
