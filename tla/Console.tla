------------------------------ MODULE Console -------------------------------
(* The VGA text console of kernel.c: the cursor VIDEO_MEMORY, the bytes of   *)
(* the text buffer and the cursor register of the CRT controller.  One       *)
(* action is one call of print_char or clearScreen, run to its end.          *)
EXTENDS Integers, Sequences

CONSTANTS Cols, Rows,      \* 80 and 25
          Glyphs, Newline, \* what print_char is given
          Blank,           \* a cell that shows nothing: 0x00, or the BIOS's 0x20
          Attr             \* attribute bytes 0x05 and 0x07, not told apart

ASSUME SizeAssumption == Cols \in Nat \ {0} /\ Rows \in Nat \ {0}
ASSUME GlyphAssumption == Newline \notin Glyphs /\ Blank \notin Glyphs \cup {Newline}

VARIABLES vm,     \* VIDEO_MEMORY - 0xb8000, a byte offset
          vram,   \* the text buffer, one cell past the screen included
          crtc    \* cursor location register, a cell number

vars == <<vm, vram, crtc>>

RowBytes == 2 * Cols
ScreenBytes == Rows * RowBytes
Chars == Glyphs \cup {Newline}

TypeOK == /\ vm \in -1..(ScreenBytes - 1)
          /\ vram \in [-1..(ScreenBytes + 1) -> Glyphs \cup {Blank, Attr}]
          /\ crtc \in 0..(Rows * Cols - 1)

\* INT 10h mode 3 leaves a blank screen (boot.asm:59); VIDEO_MEMORY starts at its head.
Init == /\ vm = 0
        /\ vram = [k \in -1..(ScreenBytes + 1) |-> IF k % 2 = 0 THEN Blank ELSE Attr]
        /\ crtc = 0

\* clearScreen walks down from off, a blank and an attribute a turn, to here (below 0
\* only if off is odd), and blanks the byte it stops at.
Home(off) == -(off % 2)

\* Slips a property must catch, each put in the place of the definition it precedes:
\* the last blank is left out; the cursor steps two cells a turn.
WipedShort(mem, off) ==
  [k \in DOMAIN mem |-> IF k \notin (Home(off) + 1)..off THEN mem[k]
                        ELSE IF (off - k) % 2 = 0 THEN Blank ELSE Attr]
WipedWide(mem, off) ==
  [k \in DOMAIN mem |-> IF k \in Home(off)..off /\ (off - k) % 4 = 0 THEN Blank ELSE mem[k]]

Wiped(mem, off) ==
  [k \in DOMAIN mem |-> IF k \notin Home(off)..off THEN mem[k]
                        ELSE IF (off - k) % 2 = 0 THEN Blank ELSE Attr]

WipeFrom(mem, off) == /\ vram' = Wiped(mem, off)
                         /\ vm' = Home(off)
                         /\ crtc' = 0

\* Slip: a newline moves a row down and keeps its column.
CellKeepsColumn(ch) == IF ch = Newline THEN vm + (RowBytes - 2) ELSE vm

\* Where ch is stored: '\n' goes to the last cell of its row, which it blanks.
CellFor(ch) == IF ch = Newline THEN vm + (RowBytes - 2) - (vm % RowBytes) ELSE vm

Stored(ch, at) == [vram EXCEPT ![at] = IF ch = Newline THEN Blank ELSE ch,
                               ![at + 1] = Attr]

\* Slip: the screen is wiped one row too late.
PrintCharLate(ch) ==
  LET at == CellFor(ch)
  IN  IF at + 2 > ScreenBytes THEN WipeFrom(vram, vm)
      ELSE /\ vram' = Stored(ch, at)
           /\ vm' = at + 2
           /\ crtc' = (at + 2) \div 2

PrintChar(ch) ==
  LET at == CellFor(ch)
  IN  IF vm >= ScreenBytes THEN WipeFrom(vram, vm)
      ELSE IF at + 2 >= ScreenBytes THEN WipeFrom(Stored(ch, at), at + 2)
      ELSE /\ vram' = Stored(ch, at)
           /\ vm' = at + 2
           /\ crtc' = (at + 2) \div 2

ClearScreen == WipeFrom(vram, vm)

Next == ClearScreen \/ \E ch \in Chars : PrintChar(ch)

Spec == Init /\ [][Next]_vars
-----------------------------------------------------------------------------
\* The cursor stays on the screen, at the head of a cell, and the hardware cursor
\* shows it: no call leaves print_char on its off-screen branch (kernel.c:447,476).
CursorOnScreen == vm % 2 = 0 /\ vm < ScreenBytes /\ crtc = vm \div 2

\* Nothing shows at the cursor or beyond it, whatever newlines, wraps and wipes went
\* before: clearScreen need only wipe backwards from the cursor (kernel.c:505).
NothingBeyondCursor == \A c \in 0..(Rows * Cols) : 2 * c >= vm => vram[2 * c] = Blank

\* A call either wipes the whole screen or changes the one cell before the new
\* cursor: what the user reads is never half erased (kernel.c:445-480).
AllOrOneCell ==
  [][LET changed == {k \in DOMAIN vram : vram'[k] # vram[k] /\ k % 2 = 0}
     IN  \/ vm' = 0 /\ \A k \in DOMAIN vram : k % 2 = 0 => vram'[k] = Blank
         \/ changed \subseteq {vm' - 2}]_vars

\* What shows on the cursor's row, left of the cursor.
CursorLine == [i \in 1..((vm % RowBytes) \div 2) |-> vram[vm - (vm % RowBytes) + 2 * (i - 1)]]

Line == INSTANCE ScreenLine WITH line <- CursorLine

\* The console implements ScreenLine: every character printed shows at the end of the
\* cursor's row or starts the next row, and none is dropped (kernel.c:445-480).
ImplementsScreenLine == Line!Spec
=============================================================================
