------------------------------ MODULE Preempt -------------------------------
(* The main thread of kernel_main from sti (kernel.c:99) on, one memory      *)
(* access at a time, and keyboard interrupts between any two of them.  The   *)
(* build does not optimise: every x += n is a load of x and a store, and     *)
(* malloc loads heap_end twice.  The handler runs to its end at once, since  *)
(* its gate clears IF.                                                       *)
EXTENDS Strtok

CONSTANTS Cols, Rows,           \* 80 and 25
          Glyph, Newline,       \* what is printed: any character, or '\n'
          Sizes,                \* what the main thread mallocs
          Scratch, MaxVfsAlloc, \* 100; bound: bytes vfs_open mallocs for 'f'
          BootEnd, HeapTop      \* heap_end at sti; bound: the heap the model follows

ASSUME ScreenAssumption == Cols \in Nat \ {0} /\ Rows \in Nat \ {0} /\ Glyph # Newline
ASSUME HeapAssumption == /\ Sizes \subseteq Nat /\ Scratch \in Nat /\ MaxVfsAlloc \in Nat
                         /\ HeapTop \in Nat /\ BootEnd \in 0..HeapTop
                         /\ Scratch + 1 >= Cols

VARIABLES vm,       \* VIDEO_MEMORY - 0xb8000, an int
          heap_end,
          main,     \* the access the main thread makes next, "ready" between calls
          reg_main, \* its register
          arg,      \* what its call was given: a character or a size
          ptr,      \* malloc's result
          stage,    \* how far kernel_main is
          handler,  \* what the handler still prints, "none" when it does not run: "text",
                    \* or "line", which a newline ends
          live_end, \* end of the last block malloc gave the main thread
          upset,    \* whether a key ever moved the cursor by an odd number of bytes
          spoilt    \* whether 'f' was pressed before the main loop, or a key spoilt the
                    \* newline that leads to it

thread == <<vm, heap_end, main, reg_main, arg, ptr, stage, live_end, upset, spoilt>>
pvars == <<vm, heap_end, main, reg_main, arg, ptr, stage, handler, live_end, upset, spoilt>>
console == <<vm, upset>>
heap == <<heap_end, live_end, ptr>>

Chars == {Glyph, Newline}
RowBytes == 2 * Cols
ScreenBytes == Rows * RowBytes

\* C divides towards zero.
Quotient(a, b) == IF a >= 0 THEN a \div b ELSE -((-a) \div b)
Remainder(a, b) == a - b * Quotient(a, b)
Row(off) == Quotient(off, RowBytes)
Column(off) == Remainder(Quotient(off, 2), Cols)

PrintSteps == {"guard", "nl_column", "nl_load", "nl_store",
               "inc1", "inc1_store", "inc2", "inc2_store", "wrap"}
WipeSteps == {"wipe", "dec1", "dec1_store", "dec2", "dec2_store"}
MallocSteps == {"m_ptr", "m_load", "m_store"}

NoArg == [ch |-> Glyph, n |-> 0]

PTypeOK == /\ STypeOK
           /\ {vm, reg_main, arg.n} \subseteq Int /\ arg.ch \in Chars
           /\ {heap_end, ptr} \subseteq 0..HeapTop /\ live_end \in Nat
           /\ main \in {"ready"} \cup PrintSteps \cup WipeSteps \cup MallocSteps
           /\ stage \in {"boot", "alloc", "report", "idle"}
           /\ handler \in {"none", "text", "line"}
           /\ upset \in BOOLEAN /\ spoilt \in BOOLEAN

Init == /\ SInit
        /\ vm = 0 /\ heap_end = BootEnd /\ live_end = BootEnd /\ ptr = 0
        /\ main = "ready" /\ reg_main = 0 /\ arg = NoArg
        /\ stage = "boot" /\ handler = "none" /\ upset = FALSE /\ spoilt = FALSE
-----------------------------------------------------------------------------
\* The calls of kernel_main: any prints, mallocs and paths while it boots, then
\* clearScreen, one malloc, the report on the controller and its newline.
Ready == main = "ready" /\ at = "out"

CallPrint(ch) ==
  /\ Ready /\ stage \in {"boot", "report"}
  /\ main' = "guard" /\ arg' = [arg EXCEPT !.ch = ch]
  /\ stage' \in IF stage = "report" /\ ch = Newline THEN {"report", "idle"} ELSE {stage}
  /\ UNCHANGED <<console, heap, reg_main, spoilt, svars>>

CallMalloc(n) ==
  /\ Ready /\ stage \in {"boot", "alloc"}
  /\ main' = "m_ptr" /\ arg' = [arg EXCEPT !.n = n]
  /\ stage' = IF stage = "alloc" THEN "report" ELSE stage
  /\ UNCHANGED <<console, heap, reg_main, spoilt, svars>>

CallClear ==
  /\ Ready /\ stage = "boot"
  /\ main' = "wipe" /\ stage' = "alloc"
  /\ UNCHANGED <<console, heap, reg_main, arg, spoilt, svars>>

CallParse(path) ==
  /\ Ready /\ stage = "boot"
  /\ ParsePath(path)
  /\ UNCHANGED thread

Parse == (StrtokStep \/ ParseDone) /\ UNCHANGED thread
-----------------------------------------------------------------------------
\* Accesses of the main thread to VIDEO_MEMORY.  What it stores on the screen goes to
\* where VIDEO_MEMORY points, and is left out.  Registers are 0 when their value is used up.
Step(from, to) == main = from /\ main' = to
LoadCursor(value) == reg_main' = value /\ UNCHANGED vm
StoreCursor(value) == vm' = value /\ reg_main' = 0
Elsewhere == arg' = NoArg /\ UNCHANGED <<heap, stage, upset, spoilt, svars>>

\* print_char: on the screen or not; '\n' goes to the last cell of its row, and reads
\* the cursor twice for that.
Guard == /\ Step("guard", IF Row(vm) >= Rows THEN "wipe"
                          ELSE IF arg.ch = Newline THEN "nl_column" ELSE "inc1")
         /\ UNCHANGED <<vm, reg_main>> /\ Elsewhere
\* Slip: one byte too far.
NewlineColumnOff == /\ Step("nl_column", "nl_load") /\ Elsewhere
                    /\ LoadCursor((RowBytes - 1) - Remainder(vm, RowBytes))
NewlineColumn == /\ Step("nl_column", "nl_load") /\ Elsewhere
                 /\ LoadCursor((RowBytes - 2) - Remainder(vm, RowBytes))
NewlineLoad == Step("nl_load", "nl_store") /\ LoadCursor(reg_main + vm) /\ Elsewhere
NewlineStore == Step("nl_store", "inc1") /\ StoreCursor(reg_main) /\ Elsewhere

\* The two halves of a cell: character and attribute.
Increment ==
  /\ \/ Step("inc1", "inc1_store") /\ LoadCursor(vm)
     \/ Step("inc1_store", "inc2") /\ StoreCursor(reg_main + 1)
     \/ Step("inc2", "inc2_store") /\ LoadCursor(vm)
     \/ Step("inc2_store", "wrap") /\ StoreCursor(reg_main + 1)
  /\ Elsewhere

Wrap == /\ Step("wrap", IF Row(vm) >= Rows THEN "wipe" ELSE "ready")
        /\ UNCHANGED <<vm, reg_main>> /\ Elsewhere

\* Slip: the loop stops at the head of the screen only.
WipeUntilHead == /\ Step("wipe", IF vm # 0 THEN "dec1" ELSE "ready")
                 /\ UNCHANGED <<vm, reg_main>> /\ Elsewhere

\* clearScreen: its loop goes down a cell a turn.
Wipe == /\ Step("wipe", IF vm > 0 THEN "dec1" ELSE "ready")
        /\ UNCHANGED <<vm, reg_main>> /\ Elsewhere

Decrement ==
  /\ \/ Step("dec1", "dec1_store") /\ LoadCursor(vm)
     \/ Step("dec1_store", "dec2") /\ StoreCursor(reg_main - 1)
     \/ Step("dec2", "dec2_store") /\ LoadCursor(vm)
     \/ Step("dec2_store", "wipe") /\ StoreCursor(reg_main - 1)
  /\ Elsewhere

\* Slip: the new end is computed before the block's address is read.
MallocSwapped ==
  /\ \/ Step("m_ptr", "m_load") /\ reg_main' = heap_end + arg.n /\ UNCHANGED heap
     \/ Step("m_load", "m_store") /\ ptr' = heap_end /\ UNCHANGED <<heap_end, live_end, reg_main>>
     \/ /\ Step("m_store", "ready")
        /\ reg_main <= HeapTop
        /\ heap_end' = reg_main
        /\ live_end' = ptr + arg.n
        /\ ptr' = 0 /\ reg_main' = 0
  /\ arg' = IF main' = "ready" THEN NoArg ELSE arg
  /\ UNCHANGED <<console, stage, spoilt, svars>>

\* malloc: the address of the block, then heap_end += size.
Malloc ==
  /\ \/ Step("m_ptr", "m_load") /\ ptr' = heap_end /\ UNCHANGED <<heap_end, live_end, reg_main>>
     \/ Step("m_load", "m_store") /\ reg_main' = heap_end /\ UNCHANGED heap
     \/ /\ Step("m_store", "ready")
        /\ reg_main + arg.n <= HeapTop
        /\ heap_end' = reg_main + arg.n
        /\ live_end' = ptr + arg.n
        /\ ptr' = 0 /\ reg_main' = 0
  /\ arg' = IF main' = "ready" THEN NoArg ELSE arg
  /\ UNCHANGED <<console, stage, spoilt, svars>>

MainStep == \/ Guard \/ NewlineColumn \/ NewlineLoad \/ NewlineStore
            \/ Increment \/ Wrap \/ Wipe \/ Decrement \/ Malloc \/ Parse
-----------------------------------------------------------------------------
\* The console's calls made by the handler, run to their end.
Wiped(off) == IF off > 0 THEN -(off % 2) ELSE off
Printed(off, ch) ==
  LET cell == IF ch = Newline THEN off + (RowBytes - 2) - Remainder(off, RowBytes) ELSE off
  IN  IF Row(off) >= Rows THEN Wiped(off)
      ELSE IF Row(cell + 2) >= Rows THEN Wiped(cell + 2) ELSE cell + 2

Idle == stage = "idle" /\ main = "ready" /\ handler = "none"

\* In the newline that leads to the main loop: an Enter or a wipe between its two reads of
\* the cursor, or a wipe just before it steps over the last cell of the row.
Spoils(cursor) == /\ stage = "idle" /\ handler = "none" /\ cursor \notin {vm, vm + 2}
                  /\ main = "nl_load" \/ (main = "inc1" /\ heap_end' = heap_end)

\* What a step of the handler leaves of the cursor and of the heap.
Leaves(cursor, end) ==
  /\ end \in 0..HeapTop
  /\ vm' = cursor /\ heap_end' = end
  /\ upset' = (upset \/ cursor % 2 # vm % 2)
  /\ UNCHANGED <<main, reg_main, arg, ptr, stage, live_end>>
Others == spoilt' = (spoilt \/ Spoils(vm')) /\ UNCHANGED svars

Key(next) == handler = "none" /\ handler' = next

\* Slip: a character is echoed and not kept.
TypeKeyEcho(ch) == Key("none") /\ Leaves(Printed(vm, ch), heap_end) /\ Others

TypeKey(ch) == Key("none") /\ Leaves(Printed(vm, ch), heap_end + 1) /\ Others
WriteKey == Key("none") /\ Leaves(vm, heap_end + Scratch) /\ Others
ReadKey == Key("text") /\ Leaves(vm, heap_end + Scratch) /\ Others
ClearKey == Key("none") /\ Leaves(Wiped(vm), heap_end) /\ Others

\* 'f' takes the bytes of the row off the heap twice and walks over them once in between;
\* it prints heap_end and what is in the file, a newline after each.
OpenKey(n) ==
  LET size == Column(vm)
      walked == IF size > 0 THEN size ELSE 0
  IN  /\ Key("line")
      /\ Leaves(vm, heap_end - size + walked - size + n)
      /\ HandlerParse
      /\ spoilt' = (spoilt \/ stage # "idle" \/ main # "ready")

\* The handler prints what the sector or the file holds.
HandlerPrint(ch) ==
  /\ handler # "none" /\ UNCHANGED handler
  /\ Leaves(Printed(vm, ch), heap_end) /\ Others
HandlerReturn ==
  /\ handler # "none" /\ handler' = "none"
  /\ Leaves(IF handler = "line" THEN Printed(vm, Newline) ELSE vm, heap_end) /\ Others

Interrupt == \/ \E ch \in Chars : TypeKey(ch) \/ HandlerPrint(ch)
             \/ WriteKey \/ ReadKey \/ ClearKey
             \/ \E n \in 0..MaxVfsAlloc : OpenKey(n)
             \/ HandlerReturn

MainThread == \/ \E ch \in Chars : CallPrint(ch)
              \/ \E n \in Sizes : CallMalloc(n)
              \/ CallClear
              \/ \E path \in Paths : CallParse(path)
              \/ MainStep

Next == \/ handler = "none" /\ MainThread /\ UNCHANGED handler
        \/ Interrupt

Spec == Init /\ [][Next]_<<pvars, svars>>
-----------------------------------------------------------------------------
\* Whatever keys come between the two threads' accesses to VIDEO_MEMORY, the cursor stays on
\* the screen, in the three bytes before it or in the row after it and the cell behind that:
\* a stale cursor never runs away (kernel.c:445-514).
CursorInReach == vm \in -3..(ScreenBytes + RowBytes + 2)

\* The cursor is between the halves of a cell only while the main thread is, unless an Enter
\* or printed newline came just then: a lost update never leaves it there (kernel.c:455-457).
CursorHalfway ==
  ~upset => (vm % 2 = 1 <=> main \in {"inc2", "inc2_store", "dec2", "dec2_store"})

\* heap_end is the end of the heap, as stdlib.c:5 says of it: no live block lies beyond.
HeapEndIsEnd == heap_end >= live_end

\* So it is until the main loop starts, if no 'f' comes before: keys may be lost between
\* malloc's accesses, but never is a block given away (stdlib.c:8-12, kernel.c:303).
BootKeepsHeapEnd == ~spoilt /\ stage # "idle" => HeapEndIsEnd

\* In the main loop what 'f' would take lies above every block of the main thread: updates of
\* cursor and heap that get lost on the way there never leave the row longer than what was
\* typed (kernel.c:182,317,356).  That fails, and is left out, in three cases: 'f' before the
\* main loop; within the very last newline, an Enter or a wipe between the two reads of the
\* cursor (kernel.c:451), since the newline then steps from the new place by what was left of
\* the old row; and a wipe that comes just before the step over the last cell (kernel.c:455),
\* since that step is then made on the empty screen.
RowAboveLive == Idle /\ ~spoilt => heap_end - Column(vm) >= live_end
=============================================================================
