CONSTANTS
  Cols = 3
  Rows = 3
  Glyphs = {a, b}
  Newline = nl
  Blank = blank
  Attr = attr
SPECIFICATION Spec
INVARIANTS TypeOK CursorOnScreen NothingBeyondCursor
PROPERTIES AllOrOneCell ImplementsScreenLine
