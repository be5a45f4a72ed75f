--------------------------- MODULE ConsoleProofs ----------------------------
(* What holds of the console for any size of the screen: the cursor stays on *)
(* it, a wipe leaves nothing behind, and what the cursor's row shows is what *)
(* ScreenLine promises.                                                      *)
EXTENDS Console, SequenceTheorems, TLAPS

-----------------------------------------------------------------------------
(* Places: offset row * RowBytes + 2 * col is the head of a cell.            *)

LEMMA Sizes ==
  /\ Cols \in Nat \ {0} /\ Rows \in Nat \ {0}
  /\ RowBytes \in Nat \ {0} /\ RowBytes = 2 * Cols
  /\ ScreenBytes \in Nat \ {0} /\ ScreenBytes = Rows * RowBytes
  /\ Rows * Cols \in Nat /\ ScreenBytes = 2 * (Rows * Cols)
BY SizeAssumption DEF RowBytes, ScreenBytes

LEMMA DivMod ==
  ASSUME NEW v \in Nat, NEW n \in Nat \ {0}
  PROVE  /\ v \div n \in Nat /\ v % n \in 0..(n - 1)
         /\ v = n * (v \div n) + (v % n)
  OBVIOUS

LEMMA ModOf ==
  ASSUME NEW q \in Nat, NEW n \in Nat \ {0}, NEW r \in 0..(n - 1)
  PROVE  (q * n + r) % n = r
  OBVIOUS

LEMMA Times ==
  ASSUME NEW i \in Nat, NEW m \in Nat, NEW n \in Nat
  PROVE  /\ i * n \in Nat /\ (i + 1) * n = i * n + n
         /\ i < m => i * n + n <= m * n
         /\ m <= i => m * n <= i * n
  OBVIOUS

Place(row, col) == row * RowBytes + 2 * col

\* The row and the column of an offset.
LEMMA Places ==
  ASSUME NEW row \in Nat, NEW col \in 0..(Cols - 1)
  PROVE  /\ Place(row, col) \in Nat /\ Place(row, col) % 2 = 0
         /\ Place(row, col) % RowBytes = 2 * col
         /\ Place(row, col) - (Place(row, col) % RowBytes) = row * RowBytes
<1>1. 2 * col \in 0..(RowBytes - 1)
  BY Sizes
<1>2. Place(row, col) % RowBytes = 2 * col
  BY <1>1, Sizes, ModOf DEF Place
<1>3. row * RowBytes = 2 * (row * Cols) /\ row * Cols \in Nat
  BY Sizes
<1>4. Place(row, col) = 2 * (row * Cols + col)
  BY <1>3, Sizes DEF Place
<1>5. row * Cols + col \in Nat
  BY <1>3, Sizes
<1>6. Place(row, col) \in Nat /\ Place(row, col) % 2 = 0
  BY <1>4, <1>5
<1> QED
  BY <1>2, <1>3, <1>6, Sizes DEF Place

LEMMA PlaceOf ==
  ASSUME NEW v \in Nat, v % 2 = 0, v < ScreenBytes
  PROVE  \E row \in 0..(Rows - 1), col \in 0..(Cols - 1) : v = Place(row, col)
<1> DEFINE row == v \div RowBytes
           rem == v % RowBytes
<1>1. row \in Nat /\ rem \in 0..(RowBytes - 1) /\ v = RowBytes * row + rem
  BY Sizes, DivMod
<1>2. row < Rows
  <2>1. ASSUME Rows <= row PROVE FALSE
    <3>1. Rows * RowBytes <= row * RowBytes
      BY <2>1, <1>1, Sizes, Times
    <3>2. row * RowBytes = RowBytes * row /\ row * RowBytes \in Nat
      BY <1>1, Sizes
    <3> QED
      BY <3>1, <3>2, <1>1, Sizes
  <2> QED
    BY <2>1, <1>1, Sizes
<1>3. PICK col \in Nat : rem = 2 * col
  <2>1. RowBytes * row = 2 * (Cols * row) /\ Cols * row \in Nat
    BY <1>1, Sizes
  <2>2. PICK h \in Nat : v = 2 * h
    BY DivMod
  <2>3. rem = 2 * (h - Cols * row) /\ h - Cols * row \in Int
    BY <1>1, <2>1, <2>2
  <2> QED
    BY <2>3, <1>1
<1>4. col \in 0..(Cols - 1)
  BY <1>1, <1>3, Sizes
<1>5. v = Place(row, col)
  BY <1>1, <1>3, Sizes DEF Place
<1> QED
  BY <1>1, <1>2, <1>4, <1>5, Sizes

\* The next cell is the next of the row, or the first of the next row.
LEMMA NextPlace ==
  ASSUME NEW row \in 0..(Rows - 1), NEW col \in 0..(Cols - 1)
  PROVE  /\ col + 1 < Cols => Place(row, col) + 2 = Place(row, col + 1)
         /\ col + 1 = Cols => Place(row, col) + 2 = Place(row + 1, 0)
         /\ Place(row, col) + (RowBytes - 2) - 2 * col + 2 = Place(row + 1, 0)
         /\ Place(row, col) + 2 <= ScreenBytes
         /\ Place(row + 1, 0) <= ScreenBytes
<1>1. row * RowBytes \in Nat /\ (row + 1) * RowBytes = row * RowBytes + RowBytes
  BY Sizes, Times
<1>2. row * RowBytes + RowBytes <= Rows * RowBytes
  BY Sizes, Times
<1> QED
  BY <1>1, <1>2, Sizes DEF Place
-----------------------------------------------------------------------------
(* The inductive invariant: before the cursor its row shows glyphs, and from *)
(* the cursor on nothing shows.                                              *)

RowShown == \A k \in (vm - (vm % RowBytes))..(vm - 1) : k % 2 = 0 => vram[k] \in Glyphs

ConsoleInv == TypeOK /\ CursorOnScreen /\ NothingBeyondCursor /\ RowShown

Wide == -1..(ScreenBytes + 1)

LEMMA CursorNat == TypeOK /\ CursorOnScreen => vm \in Nat /\ vm >= 0
BY Sizes DEF TypeOK, CursorOnScreen

LEMMA CursorPlace ==
  ASSUME TypeOK, CursorOnScreen
  PROVE  \E row \in 0..(Rows - 1), col \in 0..(Cols - 1) : vm = Place(row, col)
BY CursorNat, PlaceOf DEF CursorOnScreen

\* What print_char does to the cursor: it takes the next cell, or the next row.
LEMMA CellAt ==
  ASSUME TypeOK, CursorOnScreen, NEW ch \in Chars,
         NEW row \in 0..(Rows - 1), NEW col \in 0..(Cols - 1), vm = Place(row, col)
  PROVE  LET at == CellFor(ch)
         IN  /\ at \in Nat /\ at % 2 = 0 /\ at + 2 <= ScreenBytes /\ vm <= at
             /\ ch # Newline => at = vm
             /\ ch # Newline /\ col + 1 < Cols => at + 2 = Place(row, col + 1)
             /\ ch = Newline \/ col + 1 = Cols => at + 2 = Place(row + 1, 0)
<1>1. vm \in Nat /\ vm % 2 = 0 /\ vm % RowBytes = 2 * col
  BY Places
<1>2. CASE ch = Newline
  <2>1. CellFor(ch) = vm + (RowBytes - 2) - 2 * col
    BY <1>1, <1>2 DEF CellFor
  <2>2. CellFor(ch) + 2 = Place(row + 1, 0) /\ Place(row + 1, 0) <= ScreenBytes
    BY <2>1, NextPlace
  <2>3. vm <= CellFor(ch) /\ CellFor(ch) \in Nat
    BY <1>1, <2>1, Sizes
  <2>4. CellFor(ch) % 2 = 0
    <3>1. PICK h \in Nat : vm = 2 * h
      BY <1>1, DivMod
    <3>2. CellFor(ch) = 2 * (h + (Cols - 1) - col) /\ h + (Cols - 1) - col \in Int
      BY <2>1, <3>1, Sizes
    <3> QED
      BY <3>2
  <2> QED
    BY <1>2, <2>2, <2>3, <2>4
<1>3. CASE ch # Newline
  <2>1. CellFor(ch) = vm
    BY <1>3 DEF CellFor
  <2> QED
    BY <1>1, <1>3, <2>1, NextPlace
<1> QED
  BY <1>2, <1>3

LEMMA StoredType ==
  ASSUME vram \in [Wide -> Glyphs \cup {Blank, Attr}], NEW ch \in Chars,
         NEW at \in Nat, at + 2 <= ScreenBytes, at % 2 = 0
  PROVE  /\ Stored(ch, at) \in [Wide -> Glyphs \cup {Blank, Attr}]
         /\ \A k \in Wide : k % 2 = 0 =>
              Stored(ch, at)[k] = IF k = at THEN (IF ch = Newline THEN Blank ELSE ch) ELSE vram[k]
<1>1. at \in Wide /\ at + 1 \in Wide /\ (at + 1) % 2 = 1
  BY Sizes DEF Wide
<1>2. Stored(ch, at) \in [Wide -> Glyphs \cup {Blank, Attr}]
  BY <1>1 DEF Stored, Chars
<1>3. ASSUME NEW k \in Wide, k % 2 = 0
      PROVE  Stored(ch, at)[k] = IF k = at THEN (IF ch = Newline THEN Blank ELSE ch) ELSE vram[k]
  <2>1. k # at + 1
    BY <1>1, <1>3
  <2> QED
    BY <1>1, <1>3, <2>1 DEF Stored
<1> QED
  BY <1>2, <1>3

\* A wipe from an even offset goes to the head of the screen and blanks all cells up to there.
LEMMA WipedCells ==
  ASSUME NEW mem \in [Wide -> Glyphs \cup {Blank, Attr}],
         NEW off \in Nat, off % 2 = 0, off <= ScreenBytes
  PROVE  /\ Home(off) = 0
         /\ Wiped(mem, off) \in [Wide -> Glyphs \cup {Blank, Attr}]
         /\ \A k \in Wide : k % 2 = 0 =>
              Wiped(mem, off)[k] = IF k \in 0..off THEN Blank ELSE mem[k]
<1>1. Home(off) = 0
  BY DEF Home
<1>2. DOMAIN mem = Wide
  OBVIOUS
<1>3. Wiped(mem, off) = [k \in Wide |-> IF k \notin 0..off THEN mem[k]
                                         ELSE IF (off - k) % 2 = 0 THEN Blank ELSE Attr]
  BY <1>1, <1>2 DEF Wiped
<1>4. Wiped(mem, off) \in [Wide -> Glyphs \cup {Blank, Attr}]
  BY <1>3
<1>5. ASSUME NEW k \in Wide, k % 2 = 0
      PROVE  Wiped(mem, off)[k] = IF k \in 0..off THEN Blank ELSE mem[k]
  <2>1. k \in Int
    BY Sizes DEF Wide
  <2>2. (off - k) % 2 = 0
    BY <2>1, <1>5
  <2> QED
    BY <1>3, <1>5, <2>2
<1> QED
  BY <1>1, <1>4, <1>5
-----------------------------------------------------------------------------
(* The steps: a call wipes the screen or stores one cell.                    *)

Memories == [Wide -> Glyphs \cup {Blank, Attr}]

WipeStep == /\ vm' = 0 /\ crtc' = 0 /\ vram' \in Memories
            /\ \A k \in Wide : k % 2 = 0 => vram'[k] = Blank

StoreStep(ch) ==
  LET at == CellFor(ch)
  IN  /\ at + 2 < ScreenBytes
      /\ vram' = Stored(ch, at) /\ vm' = at + 2 /\ crtc' = (at + 2) \div 2

\* Blank from an offset on.
BlankFrom(mem, off) == \A k \in Wide : k % 2 = 0 /\ k >= off => mem[k] = Blank

LEMMA Beyond == NothingBeyondCursor /\ TypeOK /\ CursorOnScreen => BlankFrom(vram, vm)
<1> SUFFICES ASSUME NothingBeyondCursor, TypeOK, CursorOnScreen,
                    NEW k \in Wide, k % 2 = 0, k >= vm
             PROVE  vram[k] = Blank
  BY DEF BlankFrom
<1>1. k \in Nat /\ k <= ScreenBytes + 1
  BY CursorNat, Sizes DEF Wide
<1>2. PICK c \in Nat : k = 2 * c
  BY <1>1, DivMod
<1>3. c \in 0..(Rows * Cols)
  BY <1>1, <1>2, Sizes
<1> QED
  BY <1>2, <1>3 DEF NothingBeyondCursor

LEMMA WipeStepOf ==
  ASSUME NEW mem \in Memories, NEW off \in Nat, off % 2 = 0, off <= ScreenBytes,
         BlankFrom(mem, off + 1), WipeFrom(mem, off)
  PROVE  WipeStep
<1>1. vm' = 0 /\ crtc' = 0 /\ vram' = Wiped(mem, off)
  BY WipedCells DEF WipeFrom, Memories
<1>2. vram' \in Memories
  BY <1>1, WipedCells DEF Memories
<1>3. ASSUME NEW k \in Wide, k % 2 = 0 PROVE vram'[k] = Blank
  <2>1. Wiped(mem, off)[k] = IF k \in 0..off THEN Blank ELSE mem[k]
    BY <1>3, WipedCells DEF Memories
  <2>2. CASE k \in 0..off
    BY <1>1, <2>1, <2>2
  <2>3. CASE k \notin 0..off
    <3>1. k \in Int /\ k # -1 /\ k >= -1
      BY <1>3, Sizes DEF Wide
    <3>2. k >= off + 1
      BY <2>3, <3>1
    <3> QED
      BY <1>1, <1>3, <2>1, <2>3, <3>2 DEF BlankFrom
  <2> QED
    BY <2>2, <2>3
<1> QED
  BY <1>1, <1>2, <1>3 DEF WipeStep

LEMMA ClearWipes == ConsoleInv /\ ClearScreen => WipeStep
<1> SUFFICES ASSUME ConsoleInv, ClearScreen PROVE WipeStep
  OBVIOUS
<1>1. vram \in Memories /\ vm \in Nat /\ vm % 2 = 0 /\ vm <= ScreenBytes
  BY CursorNat, Sizes DEF ConsoleInv, TypeOK, CursorOnScreen, Memories, Wide
<1>2. BlankFrom(vram, vm)
  BY Beyond DEF ConsoleInv
<1>3. BlankFrom(vram, vm + 1)
  BY <1>1, <1>2, Sizes DEF BlankFrom, Wide
<1> QED
  BY <1>1, <1>3, WipeStepOf DEF ClearScreen

LEMMA PrintSteps ==
  ASSUME ConsoleInv, NEW ch \in Chars, PrintChar(ch)
  PROVE  \/ CellFor(ch) + 2 = ScreenBytes /\ WipeStep
         \/ StoreStep(ch)
<1> DEFINE at == CellFor(ch)
<1>1. PICK row \in 0..(Rows - 1), col \in 0..(Cols - 1) : vm = Place(row, col)
  BY CursorPlace DEF ConsoleInv
<1>2. at \in Nat /\ at % 2 = 0 /\ at + 2 <= ScreenBytes /\ vm <= at
  BY <1>1, CellAt DEF ConsoleInv
<1>3. vram \in Memories /\ vm \in Nat /\ vm < ScreenBytes
  BY CursorNat DEF ConsoleInv, TypeOK, CursorOnScreen, Memories, Wide
<1> HIDE DEF at
<1>4. CASE at + 2 >= ScreenBytes
  <2>1. at + 2 = ScreenBytes
    BY <1>2, <1>4, Sizes
  <2>2. WipeFrom(Stored(ch, at), at + 2)
    BY <1>3, <1>4, Sizes DEF PrintChar, at
  <2>3. Stored(ch, at) \in Memories
    BY <1>2, <1>3, StoredType DEF Memories
  <2>4. BlankFrom(Stored(ch, at), at + 3)
    <3> SUFFICES ASSUME NEW k \in Wide, k % 2 = 0, k >= at + 3
                 PROVE  Stored(ch, at)[k] = Blank
      BY DEF BlankFrom
    <3>1. k # at /\ k >= vm
      BY <1>2, <1>3, Sizes DEF Wide
    <3>2. Stored(ch, at)[k] = vram[k]
      BY <1>2, <1>3, <3>1, StoredType DEF Memories
    <3> QED
      BY <3>1, <3>2, Beyond DEF ConsoleInv, BlankFrom
  <2>5. at + 2 \in Nat /\ (at + 2) % 2 = 0 /\ at + 3 = (at + 2) + 1
    BY <1>2
  <2>6. BlankFrom(Stored(ch, at), (at + 2) + 1)
    BY <2>4, <2>5
  <2>7. WipeStep
    BY <1>2, <2>2, <2>3, <2>5, <2>6, WipeStepOf
  <2> QED
    BY <2>1, <2>7 DEF at
<1>5. CASE at + 2 < ScreenBytes
  BY <1>3, <1>5, <1>2, Sizes DEF PrintChar, StoreStep, at
<1> QED
  BY <1>2, <1>4, <1>5, Sizes
-----------------------------------------------------------------------------
(* The invariant.                                                            *)

LEMMA WipeKeeps == WipeStep => ConsoleInv'
<1> SUFFICES ASSUME WipeStep PROVE ConsoleInv'
  OBVIOUS
<1>1. TypeOK'
  BY Sizes DEF WipeStep, TypeOK, Memories, Wide
<1>2. CursorOnScreen'
  BY Sizes DEF WipeStep, CursorOnScreen
<1>3. NothingBeyondCursor'
  <2> SUFFICES ASSUME NEW c \in 0..(Rows * Cols) PROVE vram'[2 * c] = Blank
    BY DEF NothingBeyondCursor
  <2>1. 2 * c \in Wide /\ (2 * c) % 2 = 0
    BY Sizes DEF Wide
  <2> QED
    BY <2>1 DEF WipeStep
<1>4. RowShown'
  <2>1. vm' - (vm' % RowBytes) = 0
    BY Sizes DEF WipeStep
  <2> QED
    BY <2>1 DEF RowShown, WipeStep
<1> QED
  BY <1>1, <1>2, <1>3, <1>4 DEF ConsoleInv

LEMMA StoreKeeps ==
  ASSUME ConsoleInv, NEW ch \in Chars, StoreStep(ch)
  PROVE  ConsoleInv'
<1> DEFINE at == CellFor(ch)
<1>1. PICK row \in 0..(Rows - 1), col \in 0..(Cols - 1) : vm = Place(row, col)
  BY CursorPlace DEF ConsoleInv
<1>2. /\ at \in Nat /\ at % 2 = 0 /\ at + 2 <= ScreenBytes /\ vm <= at
      /\ ch # Newline => at = vm
      /\ ch # Newline /\ col + 1 < Cols => at + 2 = Place(row, col + 1)
      /\ ch = Newline \/ col + 1 = Cols => at + 2 = Place(row + 1, 0)
  BY <1>1, CellAt DEF ConsoleInv
<1>3. vram \in Memories /\ vm \in Nat /\ vm < ScreenBytes /\ vm % RowBytes = 2 * col
  BY <1>1, CursorNat, Places DEF ConsoleInv, TypeOK, CursorOnScreen, Memories, Wide
<1>4. at + 2 < ScreenBytes /\ vram' = Stored(ch, at) /\ vm' = at + 2 /\ crtc' = (at + 2) \div 2
  BY DEF StoreStep
<1>5. /\ vram' \in Memories
      /\ \A k \in Wide : k % 2 = 0 =>
           vram'[k] = IF k = at THEN (IF ch = Newline THEN Blank ELSE ch) ELSE vram[k]
  BY <1>2, <1>3, <1>4, StoredType DEF Memories
<1> HIDE DEF at
<1>6. CursorOnScreen'
  BY <1>2, <1>4 DEF CursorOnScreen
<1>7. TypeOK'
  <2>0. at \in Nat /\ at % 2 = 0
    BY <1>2
  <2>1. PICK h \in Nat : at = 2 * h
    BY <2>0, DivMod
  <2>2. (at + 2) \div 2 = h + 1 /\ h + 1 <= Rows * Cols - 1
    BY <1>4, <2>1, Sizes
  <2> QED
    BY <1>2, <1>4, <1>5, <2>2, Sizes DEF TypeOK, Memories, Wide
<1>8. NothingBeyondCursor'
  <2> SUFFICES ASSUME NEW c \in 0..(Rows * Cols), 2 * c >= vm' PROVE vram'[2 * c] = Blank
    BY DEF NothingBeyondCursor
  <2>1. 2 * c \in Wide /\ (2 * c) % 2 = 0 /\ 2 * c # at /\ 2 * c >= vm
    BY <1>2, <1>3, <1>4, Sizes DEF Wide
  <2>2. vram[2 * c] = Blank
    BY <2>1 DEF ConsoleInv, NothingBeyondCursor
  <2> QED
    BY <1>5, <2>1, <2>2
<1>9. RowShown'
  <2>1. CASE ch # Newline /\ col + 1 < Cols
    <3>0. row \in Nat /\ col + 1 \in 0..(Cols - 1) /\ vm' = Place(row, col + 1)
      BY <1>2, <1>4, <2>1, Sizes
    <3>1. vm' % RowBytes = 2 * (col + 1)
      BY <3>0, Places
    <3> SUFFICES ASSUME NEW k \in (vm' - (vm' % RowBytes))..(vm' - 1), k % 2 = 0
                 PROVE  vram'[k] \in Glyphs
      BY DEF RowShown
    <3>2. k \in Int /\ at + 2 - 2 * (col + 1) <= k /\ k < at + 2
      BY <1>2, <1>4, <3>1
    <3>3. at = vm /\ at - 2 * col >= 0
      BY <1>1, <1>2, <2>1, Sizes, Times DEF Place
    <3>4. k \in Wide
      BY <1>2, <1>4, <3>2, <3>3, Sizes DEF Wide
    <3>5. CASE k = at
      BY <1>5, <2>1, <3>4, <3>5 DEF Chars
    <3>6. CASE k # at
      <4>1. k \in (vm - (vm % RowBytes))..(vm - 1)
        BY <1>2, <1>3, <3>2, <3>3, <3>6
      <4>2. vram[k] \in Glyphs
        BY <4>1 DEF ConsoleInv, RowShown
      <4> QED
        BY <1>5, <3>4, <3>6, <4>2
    <3> QED
      BY <3>5, <3>6
  <2>2. CASE ch = Newline \/ col + 1 = Cols
    <3>1. vm' = Place(row + 1, 0)
      BY <1>2, <1>4, <2>2
    <3>2. vm' % RowBytes = 0
      BY <3>1, Places, Sizes
    <3> QED
      BY <1>2, <1>4, <3>2 DEF RowShown
  <2> QED
    BY <2>1, <2>2, Sizes
<1> QED
  BY <1>6, <1>7, <1>8, <1>9 DEF ConsoleInv

LEMMA ConsoleInit == Init => ConsoleInv
<1> SUFFICES ASSUME Init PROVE ConsoleInv
  OBVIOUS
<1>1. vm = 0 /\ crtc = 0 /\ vram = [k \in Wide |-> IF k % 2 = 0 THEN Blank ELSE Attr]
  BY DEF Init, Wide
<1>2. TypeOK /\ CursorOnScreen
  BY <1>1, Sizes DEF TypeOK, CursorOnScreen, Wide
<1>3. NothingBeyondCursor
  BY <1>1, Sizes DEF NothingBeyondCursor, Wide
<1>4. RowShown
  <2>1. vm - (vm % RowBytes) = 0
    BY <1>1, Sizes
  <2> QED
    BY <1>1, <2>1 DEF RowShown
<1> QED
  BY <1>2, <1>3, <1>4 DEF ConsoleInv

LEMMA ConsoleNext == ConsoleInv /\ [Next]_vars => ConsoleInv'
<1> SUFFICES ASSUME ConsoleInv, [Next]_vars PROVE ConsoleInv'
  OBVIOUS
<1>1. CASE ClearScreen
  BY <1>1, ClearWipes, WipeKeeps
<1>2. ASSUME NEW ch \in Chars, PrintChar(ch) PROVE ConsoleInv'
  BY <1>2, PrintSteps, WipeKeeps, StoreKeeps
<1>3. CASE UNCHANGED vars
  BY <1>3 DEF vars, ConsoleInv, TypeOK, CursorOnScreen, NothingBeyondCursor, RowShown
<1> QED
  BY <1>1, <1>2, <1>3 DEF Next

LEMMA Inductive == Spec => []ConsoleInv
BY ConsoleInit, ConsoleNext, PTL DEF Spec

\* print_char and clearScreen leave the buffer's cells and the cursor what they are.
THEOREM ConsoleStaysTyped == Spec => []TypeOK
BY Inductive, PTL DEF ConsoleInv

\* The cursor never leaves the screen or the head of a cell, on a screen of any size
\* (kernel.c:445-480).
THEOREM CursorStaysOnScreen == Spec => []CursorOnScreen
BY Inductive, PTL DEF ConsoleInv

\* Nothing ever shows at the cursor or beyond it (kernel.c:445-514).
THEOREM NothingShowsBeyondCursor == Spec => []NothingBeyondCursor
BY Inductive, PTL DEF ConsoleInv
-----------------------------------------------------------------------------
(* What a step may change.                                                   *)

OneCell == LET changed == {k \in DOMAIN vram : vram'[k] # vram[k] /\ k % 2 = 0}
           IN  \/ vm' = 0 /\ \A k \in DOMAIN vram : k % 2 = 0 => vram'[k] = Blank
               \/ changed \subseteq {vm' - 2}

LEMMA StepsOneCell == ConsoleInv /\ [Next]_vars => [OneCell]_vars
<1> SUFFICES ASSUME ConsoleInv, Next PROVE OneCell
  OBVIOUS
<1>1. DOMAIN vram = Wide
  BY DEF ConsoleInv, TypeOK, Wide
<1>2. CASE WipeStep
  BY <1>1, <1>2 DEF WipeStep, OneCell
<1>3. ASSUME NEW ch \in Chars, StoreStep(ch) PROVE OneCell
  <2> DEFINE at == CellFor(ch)
  <2>1. PICK row \in 0..(Rows - 1), col \in 0..(Cols - 1) : vm = Place(row, col)
    BY CursorPlace DEF ConsoleInv
  <2>2. at \in Nat /\ at % 2 = 0 /\ at + 2 <= ScreenBytes
    BY <2>1, CellAt DEF ConsoleInv
  <2>3. vram' = Stored(ch, at) /\ vm' = at + 2
    BY <1>3 DEF StoreStep
  <2> HIDE DEF at
  <2>4. vram \in [Wide -> Glyphs \cup {Blank, Attr}]
    BY DEF ConsoleInv, TypeOK, Wide
  <2>5. \A k \in Wide : k % 2 = 0 =>
          vram'[k] = IF k = at THEN (IF ch = Newline THEN Blank ELSE ch) ELSE vram[k]
    BY <2>2, <2>3, <2>4, StoredType
  <2>6. vm' - 2 = at
    BY <2>2, <2>3
  <2>7. {k \in DOMAIN vram : vram'[k] # vram[k] /\ k % 2 = 0} \subseteq {vm' - 2}
    BY <1>1, <2>5, <2>6
  <2> QED
    BY <2>7 DEF OneCell
<1>4. CASE ClearScreen
  BY <1>2, <1>4, ClearWipes
<1>5. ASSUME NEW ch \in Chars, PrintChar(ch) PROVE OneCell
  BY <1>2, <1>3, <1>5, PrintSteps
<1> QED
  BY <1>4, <1>5 DEF Next

\* A call wipes the whole screen or changes one cell, on a screen of any size
\* (kernel.c:445-480).
THEOREM StepsChangeAllOrOneCell == Spec => AllOrOneCell
BY Inductive, StepsOneCell, PTL DEF Spec, AllOrOneCell, OneCell
-----------------------------------------------------------------------------
(* The refinement of ScreenLine: each call puts its character, or clears.    *)

LineIn(mem, row, col) == [i \in 1..col |-> mem[row * RowBytes + 2 * (i - 1)]]

LEMMA LineAt ==
  ASSUME NEW row \in Nat, NEW col \in 0..(Cols - 1), vm = Place(row, col)
  PROVE  CursorLine = LineIn(vram, row, col)
<1>1. vm % RowBytes = 2 * col /\ vm - (vm % RowBytes) = row * RowBytes
  BY Places
<1>2. (vm % RowBytes) \div 2 = col
  BY <1>1
<1> QED
  BY <1>1, <1>2 DEF CursorLine, LineIn

LEMMA NextLineAt ==
  ASSUME NEW row \in Nat, NEW col \in 0..(Cols - 1), vm' = Place(row, col)
  PROVE  CursorLine' = LineIn(vram', row, col)
<1>1. vm' % RowBytes = 2 * col /\ vm' - (vm' % RowBytes) = row * RowBytes
  BY Places
<1>2. (vm' % RowBytes) \div 2 = col
  BY <1>1
<1> QED
  BY <1>1, <1>2 DEF CursorLine, LineIn

LEMMA EmptyLine ==
  ASSUME NEW row \in Nat, vm' = Place(row, 0)
  PROVE  CursorLine' = << >>
<1>1. CursorLine' = LineIn(vram', row, 0)
  BY NextLineAt, Sizes
<1>2. LineIn(vram', row, 0) = << >>
  BY DEF LineIn
<1> QED
  BY <1>1, <1>2

\* The row as long as its glyphs.
LEMMA LineSeq ==
  ASSUME ConsoleInv, NEW row \in Nat, NEW col \in 0..(Cols - 1), vm = Place(row, col)
  PROVE  CursorLine \in Seq(Glyphs) /\ Len(CursorLine) = col
<1>1. CursorLine = LineIn(vram, row, col)
  BY LineAt
<1>2. ASSUME NEW i \in 1..col PROVE vram[row * RowBytes + 2 * (i - 1)] \in Glyphs
  <2>1. row * RowBytes \in Nat /\ vm - (vm % RowBytes) = row * RowBytes
    BY Sizes, Places
  <2>2. vm = row * RowBytes + 2 * col
    BY DEF Place
  <2> DEFINE k == row * RowBytes + 2 * (i - 1)
  <2>3. k \in (vm - (vm % RowBytes))..(vm - 1)
    BY <2>1, <2>2
  <2>4. k % 2 = 0
    <3>1. k = Place(row, i - 1)
      BY DEF Place
    <3>2. i - 1 \in 0..(Cols - 1)
      BY Sizes
    <3> QED
      BY <3>1, <3>2, Places
  <2> QED
    BY <2>3, <2>4 DEF ConsoleInv, RowShown
<1>3. LineIn(vram, row, col) \in [1..col -> Glyphs]
  BY <1>2 DEF LineIn
<1> QED
  BY <1>1, <1>3, SeqDef
 
LEMMA WipeClears == WipeStep => CursorLine' = << >>
<1> SUFFICES ASSUME WipeStep PROVE CursorLine' = << >>
  OBVIOUS
<1>1. vm' = Place(0, 0)
  BY Sizes DEF WipeStep, Place
<1> QED
  BY <1>1, EmptyLine

\* A wipe comes when the character fills the last cell, or is a newline on the last row.
LEMMA WipePuts ==
  ASSUME ConsoleInv, NEW ch \in Chars, CellFor(ch) + 2 = ScreenBytes, WipeStep
  PROVE  CursorLine' = Line!Put(CursorLine, ch)
<1>1. PICK row \in 0..(Rows - 1), col \in 0..(Cols - 1) : vm = Place(row, col)
  BY CursorPlace DEF ConsoleInv
<1>2. ch = Newline \/ col + 1 = Cols
  <2> SUFFICES ASSUME ch # Newline, col + 1 < Cols PROVE FALSE
    BY Sizes
  <2>1. Place(row, col) + 2 = ScreenBytes /\ Place(row, col) + 2 = Place(row, col + 1)
    BY <1>1, CellAt, NextPlace DEF ConsoleInv
  <2>2. row * RowBytes \in Nat /\ row * RowBytes + RowBytes <= Rows * RowBytes
    BY Sizes, Times
  <2> QED
    BY <2>1, <2>2, Sizes DEF Place
<1>3. Len(CursorLine) = col
  BY <1>1, LineSeq
<1> QED
  BY <1>2, <1>3, WipeClears DEF Line!Put

LEMMA StorePuts ==
  ASSUME ConsoleInv, NEW ch \in Chars, StoreStep(ch)
  PROVE  CursorLine' = Line!Put(CursorLine, ch)
<1> DEFINE at == CellFor(ch)
<1>1. PICK row \in 0..(Rows - 1), col \in 0..(Cols - 1) : vm = Place(row, col)
  BY CursorPlace DEF ConsoleInv
<1>2. /\ at \in Nat /\ at % 2 = 0 /\ at + 2 <= ScreenBytes
      /\ ch # Newline => at = vm
      /\ ch # Newline /\ col + 1 < Cols => at + 2 = Place(row, col + 1)
      /\ ch = Newline \/ col + 1 = Cols => at + 2 = Place(row + 1, 0)
  BY <1>1, CellAt DEF ConsoleInv
<1>3. vram' = Stored(ch, at) /\ vm' = at + 2
  BY DEF StoreStep
<1> HIDE DEF at
<1>4. Len(CursorLine) = col /\ CursorLine \in Seq(Glyphs)
  BY <1>1, LineSeq
<1>5. CASE ch = Newline \/ col + 1 = Cols
  <2>1. CursorLine' = << >>
    BY <1>2, <1>3, <1>5, EmptyLine
  <2> QED
    BY <1>4, <1>5, <2>1 DEF Line!Put
<1>6. CASE ch # Newline /\ col + 1 < Cols
  <2>1. Line!Put(CursorLine, ch) = Append(CursorLine, ch)
    BY <1>4, <1>6, Sizes DEF Line!Put
  <2>2. CursorLine' = LineIn(vram', row, col + 1)
    BY <1>2, <1>3, <1>6, NextLineAt, Sizes
  <2>3. CursorLine = LineIn(vram, row, col)
    BY <1>1, LineAt
  <2>4. ASSUME NEW i \in 1..(col + 1)
        PROVE  LineIn(vram', row, col + 1)[i] = IF i <= col THEN CursorLine[i] ELSE ch
    <3> DEFINE k == row * RowBytes + 2 * (i - 1)
    <3>1. row * RowBytes \in Nat /\ at = row * RowBytes + 2 * col /\ at < ScreenBytes
      BY <1>1, <1>2, <1>6, Sizes DEF Place
    <3>2. k = Place(row, i - 1) /\ i - 1 \in 0..(Cols - 1)
      <4>1. i - 1 \in 0..(Cols - 1)
        BY <1>6, Sizes
      <4> QED
        BY <4>1 DEF Place
    <3>3. k \in Nat /\ k % 2 = 0 /\ k <= at /\ (k = at <=> i = col + 1)
      <4>1. k \in Nat /\ k % 2 = 0
        BY <3>2, Places
      <4> QED
        BY <3>1, <4>1
    <3>4. k \in Wide
      BY <3>1, <3>3, Sizes DEF Wide
    <3>5. vram'[k] = IF k = at THEN ch ELSE vram[k]
      BY <1>2, <1>3, <1>6, <3>3, <3>4, StoredType DEF ConsoleInv, TypeOK, Wide
    <3> QED
      BY <2>3, <3>3, <3>5 DEF LineIn
  <2>5. Append(CursorLine, ch) \in [1..(col + 1) -> Glyphs]
    <3>1. ch \in Glyphs
      BY <1>6 DEF Chars
    <3>2. Append(CursorLine, ch) \in Seq(Glyphs) /\ Len(Append(CursorLine, ch)) = col + 1
      BY <1>4, <3>1, AppendProperties
    <3> QED
      BY <3>2, LenProperties
  <2>6. ASSUME NEW i \in 1..(col + 1)
        PROVE  Append(CursorLine, ch)[i] = IF i <= col THEN CursorLine[i] ELSE ch
    BY <1>4, AppendProperties
  <2>7. LineIn(vram', row, col + 1) = Append(CursorLine, ch)
    <3>1. LineIn(vram', row, col + 1) = [i \in 1..(col + 1) |-> LineIn(vram', row, col + 1)[i]]
      BY DEF LineIn
    <3>2. Append(CursorLine, ch) = [i \in 1..(col + 1) |-> Append(CursorLine, ch)[i]]
      BY <2>5
    <3> QED
      BY <2>4, <2>6, <3>1, <3>2
  <2> QED
    BY <2>1, <2>2, <2>7
<1> QED
  BY <1>5, <1>6, Sizes

LEMMA LineInit == Init => Line!Init
<1> SUFFICES ASSUME Init PROVE CursorLine = << >>
  BY DEF Line!Init
<1>1. vm = Place(0, 0)
  BY Sizes DEF Init, Place
<1>2. CursorLine = LineIn(vram, 0, 0)
  BY <1>1, LineAt, Sizes
<1> QED
  BY <1>2 DEF LineIn

LEMMA LineNext == ConsoleInv /\ [Next]_vars => [Line!Next]_CursorLine
<1> SUFFICES ASSUME ConsoleInv, [Next]_vars PROVE [Line!Next]_CursorLine
  OBVIOUS
<1>1. CASE ClearScreen
  BY <1>1, ClearWipes, WipeClears DEF Line!Next, Line!Clear
<1>2. ASSUME NEW ch \in Chars, PrintChar(ch) PROVE Line!Next
  <2>1. CursorLine' = Line!Put(CursorLine, ch)
    BY <1>2, PrintSteps, WipePuts, StorePuts
  <2>2. ch \in Line!Chars
    BY DEF Chars, Line!Chars
  <2> QED
    BY <2>1, <2>2 DEF Line!Next, Line!PutChar
<1>3. CASE UNCHANGED vars
  BY <1>3 DEF vars, CursorLine
<1> QED
  BY <1>1, <1>2, <1>3 DEF Next

\* Whatever the size of the screen, the console implements ScreenLine: no character is
\* dropped, and each shows at the end of the cursor's row or starts the next (kernel.c:445-480).
THEOREM ConsoleImplementsScreenLine == Spec => ImplementsScreenLine
BY LineInit, LineNext, Inductive, PTL DEF Spec, ImplementsScreenLine, Line!Spec
=============================================================================
