------------------------------ MODULE Keyboard ------------------------------
(* keyboard_handler of kernel.c once the kernel idles: one action is one     *)
(* interrupt, which runs to its end because the gate clears IF.  The handler *)
(* keeps what is typed on top of the malloc heap and later takes it back by  *)
(* the length the screen shows, so the heap top and the cursor must agree.   *)
(* Addresses count from heap_start; a byte of the heap is known by what put  *)
(* it there.  A release code or a key without a character changes nothing.   *)
EXTENDS Integers, Sequences

CONSTANTS Cols, Glyphs, Newline,  \* the screen line, as in ScreenLine
          Scratch,                \* 100, what 'w' and 'q' malloc
          Sector,                 \* 512, what ata_read_sector stores
          MaxVfsAlloc,            \* bound: bytes one vfs_open mallocs
          BootEnd,                \* heap_end when the main loop starts
          HeapTop                 \* bound: the heap the model follows

ASSUME LineAssumption == Cols \in Nat \ {0} /\ Newline \notin Glyphs
ASSUME BufferAssumption == /\ Scratch \in Nat /\ Sector \in Nat /\ MaxVfsAlloc \in Nat
                           /\ Scratch + 1 >= Cols
ASSUME HeapAssumption == HeapTop \in Nat /\ BootEnd \in 0..HeapTop

VARIABLES heap_end, \* next byte malloc gives out
          heap,     \* what each byte was last used for, or the character typed there
          line      \* the cursor row up to the cursor

vars == <<heap_end, heap, line>>

Line == INSTANCE ScreenLine
Typed == Glyphs \cup {Newline}
Owners == {"boot", "free", "scratch", "sector", "vfs"}
ASSUME OwnersAssumption == Typed \cap Owners = {}

TypeOK == /\ heap_end \in 0..HeapTop
          /\ heap \in [0..(HeapTop - 1) -> Typed \cup Owners]
          /\ line \in Seq(Glyphs)
          /\ Len(line) < Cols

\* The main loop starts with the cursor at the left margin (kernel.c:182).
Init == /\ heap_end = BootEnd
        /\ heap = [a \in 0..(HeapTop - 1) |-> IF a < BootEnd THEN "boot" ELSE "free"]
        /\ line = <<>>

\* The heap after the n bytes from address a on are taken by owner.
Filled(mem, a, n, owner) ==
  [b \in DOMAIN mem |-> IF b \in a..(a + n - 1) THEN owner ELSE mem[b]]

\* A character: echoed, and kept at the end of the heap.
TypeKey(ch) ==
  /\ heap_end < HeapTop
  /\ line' = Line!Put(line, ch)
  /\ heap' = [heap EXCEPT ![heap_end] = ch]
  /\ heap_end' = heap_end + 1

\* 'w': a buffer from malloc is written to the disk; nothing is printed.
WriteKey ==
  /\ heap_end + Scratch <= HeapTop
  /\ heap' = Filled(heap, heap_end, Scratch, "scratch")
  /\ heap_end' = heap_end + Scratch
  /\ UNCHANGED line

\* Slip: the sector is read to the end of the heap without a malloc.
ReadKeyNoMalloc(text, ok) ==
  /\ heap_end + Scratch + Sector <= HeapTop
  /\ heap' = IF ok THEN Filled(heap, heap_end, Sector, "sector") ELSE heap
  /\ line' = text
  /\ UNCHANGED heap_end

\* 'q': a whole sector goes to a buffer of Scratch bytes, unless the drive fails, and
\* the buffer is printed, which leaves any text on the cursor's row.
ReadKey(text, ok) ==
  /\ heap_end + Scratch + Sector <= HeapTop
  /\ heap' = LET mem == IF ok THEN Filled(heap, heap_end, Sector, "sector") ELSE heap
             IN  Filled(mem, heap_end, Scratch, "scratch")
  /\ heap_end' = heap_end + Scratch
  /\ line' = text

\* Slip: backspace rubs out one character of the row.
ClearKeyOne ==
  /\ line' = IF line = <<>> THEN line ELSE SubSeq(line, 1, Len(line) - 1)
  /\ UNCHANGED <<heap, heap_end>>

\* Backspace wipes the screen; the heap keeps what was typed.
ClearKey ==
  /\ line' = <<>>
  /\ UNCHANGED <<heap, heap_end>>

\* Slip: the copy loop forgets to walk heap_end forward again.
OpenKeyPopsTwice(n) ==
  LET base == heap_end - 2 * Len(line)
  IN  /\ base + n <= HeapTop
      /\ heap' = Filled(heap, base, n, "vfs")
      /\ heap_end' = base + n
      /\ line' = <<>>

\* 'f': as many bytes as the row shows are taken off the heap for a path; vfs_open
\* mallocs n bytes there.  The row ends empty: a newline follows all that is printed.
OpenKey(n) ==
  LET base == heap_end - Len(line)
  IN  /\ base + n <= HeapTop
      /\ heap' = Filled(heap, base, n, "vfs")
      /\ heap_end' = base + n
      /\ line' = <<>>

Next == \/ \E ch \in Typed : TypeKey(ch)
        \/ WriteKey
        \/ \E text \in Line!Lines, ok \in BOOLEAN : ReadKey(text, ok)
        \/ ClearKey
        \/ \E n \in 0..MaxVfsAlloc : OpenKey(n)

Spec == Init /\ [][Next]_vars
-----------------------------------------------------------------------------
\* What 'f' would take never reaches below the memory malloc gave out during boot
\* (the file system's nodes and data), though 'q' prints text that was never pushed
\* on the heap: its buffer is at least as long as a row (kernel.c:282,317,356).
HeapAboveBoot == heap_end - Len(line) >= BootEnd

\* No key ever overwrites what boot allocated (kernel.c:303,356,366; vfs.c:112,263).
BootMemoryIntact == \A a \in 0..(BootEnd - 1) : heap[a] = "boot"

\* The top j bytes of the heap, as 'f' would read them (kernel.c:357-363).
Top(j) == [i \in 1..j |-> heap[heap_end - j + i - 1]]

\* The path 'f' opens is the text on the row, whatever keys came between, as long as
\* it is made of typed bytes only (kernel.c:303-304,356-363).
PathIsLine == Top(Len(line)) \in Seq(Typed) => Top(Len(line)) = line

\* The same for every suffix of the row, which makes it inductive.
SuffixOnHeap ==
  \A j \in 0..Len(line) :
    (\A i \in 1..j : heap[heap_end - i] \in Typed)
      => \A i \in 1..j : heap[heap_end - i] = line[Len(line) - i + 1]
=============================================================================
