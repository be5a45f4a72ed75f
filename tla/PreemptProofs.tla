---------------------------- MODULE PreemptProofs ----------------------------
(* What no interleaving of the main thread's accesses with the handler can   *)
(* break, for any size of the screen and the heap and any paths: Preempt's   *)
(* types, the reach and the parity of the cursor, the heap during boot, the  *)
(* room for the row that an 'f' takes, and the order in which parse_path is  *)
(* given the components of a path.                                           *)
EXTENDS Preempt, SequenceTheorems, FiniteSetTheorems, TLAPS

\* What the main thread's cursor and register may be, by the access it makes next: before
\* clearScreen the cursor may be in the row after the screen, and within it before the
\* screen, but for as many bytes as the accesses left can add or take.
Below(bound) == vm <= ScreenBytes + RowBytes + bound
RegisterBelow(bound) == reg_main <= ScreenBytes + RowBytes + bound

NewlineReach == /\ main = "nl_load" => /\ reg_main >= -1 /\ reg_main <= RowBytes + 1
                                       /\ reg_main + vm >= -2
                /\ main = "nl_store" => reg_main >= -2 /\ RegisterBelow(0)
IncrementReach == /\ main = "inc1" => Below(0)
                  /\ main = "inc1_store" => reg_main >= -3 /\ RegisterBelow(0)
                  /\ main = "inc2" => Below(1)
                  /\ main = "inc2_store" => reg_main >= -3 /\ RegisterBelow(1)
DecrementReach == /\ main = "dec1" => vm >= -1
                  /\ main = "dec1_store" => reg_main >= -1 /\ RegisterBelow(2)
                  /\ main = "dec2" => vm >= -2
                  /\ main = "dec2_store" => reg_main >= -2 /\ RegisterBelow(2)
ReachInv ==
  /\ vm \in Int /\ reg_main \in Int
  /\ vm >= -3 /\ Below(2)
  /\ main \in {"ready", "guard", "nl_column", "nl_load", "nl_store"} \cup MallocSteps
       => vm < ScreenBytes
  /\ NewlineReach /\ IncrementReach /\ DecrementReach

\* The parity of the register that holds the cursor, or what a newline adds to it.
HalfwayInv ==
  /\ upset \in BOOLEAN
  /\ ~upset => (vm % 2 = 1 <=> main \in {"inc2", "inc2_store", "dec2", "dec2_store"})
  /\ ~upset /\ main \in {"nl_load", "nl_store", "inc1_store", "dec1_store"} => reg_main % 2 = 0
  /\ ~upset /\ main \in {"inc2_store", "dec2_store"} => reg_main % 2 = 1

\* The block malloc is about to return lies below what it takes for the end of the heap.
HeapInv ==
  /\ arg.n \in Nat
  /\ {heap_end, ptr} \subseteq 0..HeapTop /\ live_end \in Nat
  /\ main = "m_store" => reg_main \in Nat
  /\ ~spoilt /\ stage # "idle" => /\ heap_end >= live_end
                                  /\ main = "m_load" => ptr <= heap_end
                                  /\ main = "m_store" => ptr <= reg_main

\* The controls are where the code can be; arg has both of its parts.
ControlInv ==
  /\ arg \in [ch : Chars, n : Nat]
  /\ main \in {"ready"} \cup PrintSteps \cup WipeSteps \cup MallocSteps
  /\ stage \in {"boot", "alloc", "report", "idle"}
  /\ handler \in {"none", "text", "line"}
  /\ upset \in BOOLEAN /\ spoilt \in BOOLEAN

\* strtok never steps on from the end of the path: where last++ is next, the character was
\* no NUL.  Its register, the token and the components are reset when they are used up.
Stepping == {"skip_delim", "skip_load", "scan_delim", "scan_load", "cut", "cut_load"}
Storing == {"skip_store", "scan_store", "cut_store"}
BetweenTokens == {"out", "skip", "skip_delim", "skip_load", "skip_store", "skipped", "start", "done"}
Inside(place) == place \in 1..Len(buffer) \cup {HandlersEnd, Stray}
Component == [from : Places \cup {Stray}, to : Places \cup {Stray}]
StrtokInv ==
  /\ STypeOK
  /\ at \in Stepping => Inside(last)
  /\ at \in Storing => Inside(reg)
  /\ at \notin Storing => reg = HandlersEnd
  /\ at \in BetweenTokens => token_start = HandlersEnd /\ cut = 0
  /\ at = "out" => components = <<>> /\ last = HandlersEnd

PreemptInv == ControlInv /\ ReachInv /\ HalfwayInv /\ HeapInv /\ StrtokInv
-----------------------------------------------------------------------------
\* The screen in bytes.
LEMMA ScreenFacts ==
  /\ Cols \in Nat /\ Cols >= 1 /\ Rows \in Nat /\ Rows >= 1
  /\ RowBytes \in Nat /\ RowBytes >= 2 /\ RowBytes = 2 * Cols
  /\ ScreenBytes \in Nat /\ ScreenBytes >= RowBytes /\ ScreenBytes = Rows * RowBytes
<1>1. Cols \in Nat /\ Cols >= 1 /\ Rows \in Nat /\ Rows >= 1
  BY ScreenAssumption
<1>2. RowBytes \in Nat /\ RowBytes >= 2 /\ RowBytes = 2 * Cols
  BY <1>1 DEF RowBytes
<1>3. \A r, w \in Nat : r >= 1 => r * w \in Nat /\ r * w >= w
  OBVIOUS
<1> QED
  BY <1>1, <1>2, <1>3 DEF ScreenBytes

\* What C's division leaves is less than the divisor, and goes with the dividend's sign.
LEMMA DivisionFacts ==
  ASSUME NEW a \in Int, NEW b \in Nat, b >= 1
  PROVE  /\ Quotient(a, b) \in Int /\ Remainder(a, b) \in Int
         /\ Remainder(a, b) = a - b * Quotient(a, b)
         /\ a >= 0 => Quotient(a, b) >= 0 /\ Remainder(a, b) \in 0..(b - 1)
         /\ a < 0 => Quotient(a, b) <= 0 /\ -Remainder(a, b) \in 0..(b - 1) /\ Remainder(a, b) >= a
<1>1. \A n \in Nat : /\ n \div b \in Nat /\ n - b * (n \div b) \in 0..(b - 1)
                     /\ n - b * (n \div b) <= n
  <2> SUFFICES ASSUME NEW n \in Nat
               PROVE  /\ n \div b \in Nat /\ n - b * (n \div b) \in 0..(b - 1)
                      /\ n - b * (n \div b) <= n
    OBVIOUS
  <2>1. n = b * (n \div b) + (n % b) /\ n % b \in 0..(b - 1) /\ n \div b \in Int
    OBVIOUS
  <2>2. n \div b >= 0
    BY <2>1
  <2>3. b * (n \div b) \in Nat
    BY <2>1, <2>2
  <2> QED
    BY <2>1, <2>2, <2>3
<1>2. CASE a >= 0
  BY <1>1, <1>2 DEF Quotient, Remainder
<1>3. CASE a < 0
  <2> DEFINE q == (-a) \div b
  <2>1. -a \in Nat /\ q \in Nat /\ (-a) - b * q \in 0..(b - 1) /\ (-a) - b * q <= -a
    BY <1>1, <1>3
  <2>2. Quotient(a, b) = -q
    BY <1>3 DEF Quotient
  <2>3. b * (-q) = -(b * q) /\ b * q \in Int
    BY <2>1
  <2> QED
    BY <1>3, <2>1, <2>2, <2>3 DEF Remainder
<1> QED
  BY <1>2, <1>3

\* The test for the last row is one for the end of the screen (kernel.c:463,507).
LEMMA OnScreen ==
  ASSUME NEW v \in Int, v >= -3
  PROVE  Row(v) \in Int /\ (Row(v) >= Rows <=> v >= ScreenBytes)
<1> USE ScreenFacts
<1>1. /\ Row(v) \in Int
      /\ v >= 0 => /\ Row(v) >= 0 /\ v - RowBytes * Row(v) \in 0..(RowBytes - 1)
      /\ v < 0 => Row(v) <= 0
  BY DivisionFacts DEF Row
<1>2. CASE v < 0
  BY <1>1, <1>2
<1>3. CASE v >= 0
  <2>1. CASE Row(v) >= Rows
    <3>1. RowBytes * Row(v) >= RowBytes * Rows
      <4> \A w, x, y \in Nat : x >= y => w * x >= w * y
        OBVIOUS
      <4> QED
        BY <1>1, <1>3, <2>1
    <3>2. RowBytes * Rows = ScreenBytes
      OBVIOUS
    <3> QED
      BY <1>1, <1>3, <2>1, <3>1, <3>2
  <2>2. CASE Row(v) < Rows
    <3>1. RowBytes * (Row(v) + 1) <= RowBytes * Rows
      <4> \A w, x, y \in Nat : x <= y => w * x <= w * y
        OBVIOUS
      <4> QED
        BY <1>1, <1>3, <2>2
    <3>2. RowBytes * Rows = ScreenBytes /\ RowBytes * (Row(v) + 1) = RowBytes * Row(v) + RowBytes
      BY <1>1
    <3> QED
      BY <1>1, <1>3, <2>2, <3>1, <3>2
  <2> QED
    BY <1>1, <2>1, <2>2
<1> QED
  BY <1>2, <1>3

\* A newline goes on to the last cell of its row, from before the screen to a cell there
\* (kernel.c:450).
LEMMA LastCell ==
  ASSUME NEW v \in Int, v >= -3
  PROVE  LET step == (RowBytes - 2) - Remainder(v, RowBytes)
         IN  /\ step \in Int /\ step >= -1 /\ step <= RowBytes + 1 /\ step + v >= -2
             /\ v % 2 = 0 => step % 2 = 0
<1> USE ScreenFacts
<1> DEFINE q == Quotient(v, RowBytes)
           r == Remainder(v, RowBytes)
<1>1. /\ q \in Int /\ r \in Int /\ r = v - RowBytes * q
      /\ v >= 0 => q >= 0 /\ r \in 0..(RowBytes - 1)
      /\ v < 0 => q <= 0 /\ -r \in 0..(RowBytes - 1) /\ r >= v
  BY DivisionFacts
<1>2. r >= -3 /\ r <= RowBytes - 1
  BY <1>1
<1>3. (RowBytes - 2) - r + v >= -2
  <2>1. CASE v >= 0
    BY <1>1, <2>1
  <2>2. CASE v < 0
    <3>1. r <= 0
      BY <1>1, <2>2
    <3>2. CASE RowBytes >= 3
      BY <1>1, <2>2, <3>1, <3>2
    <3>3. CASE RowBytes = 2
      <4>1. r = v - 2 * q /\ r \in {-1, 0} /\ v \in {-3, -2, -1}
        BY <1>1, <2>2, <3>3
      <4> QED
        BY <4>1, <3>3, <1>1
    <3> QED
      BY <3>2, <3>3
  <2> QED
    BY <2>1, <2>2
<1>4. ASSUME v % 2 = 0
      PROVE  ((RowBytes - 2) - r) % 2 = 0
  <2>1. RowBytes * q = 2 * (Cols * q) /\ Cols * q \in Int
    BY <1>1
  <2>2. PICK x \in Int : x = Cols * q
    BY <2>1
  <2>3. (RowBytes - 2) - r = 2 * (Cols - 1 + x) - v /\ Cols - 1 + x \in Int
    BY <1>1, <2>1, <2>2
  <2>4. \A y, w \in Int : w % 2 = 0 => (2 * y - w) % 2 = 0
    OBVIOUS
  <2>5. (2 * (Cols - 1 + x) - v) % 2 = 0
    BY <1>4, <2>3, <2>4
  <2> QED
    BY <2>3, <2>5
<1> QED
  BY <1>1, <1>2, <1>3, <1>4

\* Wherever the main thread left the cursor, the handler's print leaves it on the screen, and
\* no lower than where it was or a byte before the screen.
LEMMA PrintedInReach ==
  ASSUME NEW off \in Int, off >= -3, NEW ch \in Chars
  PROVE  /\ Printed(off, ch) \in Int /\ Printed(off, ch) < ScreenBytes
         /\ Printed(off, ch) >= off \/ Printed(off, ch) >= -1
<1> USE ScreenFacts
<1>1. ASSUME NEW v \in Int, v >= ScreenBytes
      PROVE  Wiped(v) \in {-1, 0}
  BY <1>1 DEF Wiped
<1> DEFINE cell == IF ch = Newline THEN off + (RowBytes - 2) - Remainder(off, RowBytes) ELSE off
<1>2. cell \in Int /\ cell >= off - 1
  <2>1. off + (RowBytes - 2) - Remainder(off, RowBytes)
          = off + ((RowBytes - 2) - Remainder(off, RowBytes))
    BY DivisionFacts
  <2> QED
    BY <2>1, LastCell
<1>3. Row(off) \in Int /\ (Row(off) >= Rows <=> off >= ScreenBytes)
  BY OnScreen
<1>4. cell + 2 >= -3 /\ Row(cell + 2) \in Int /\ (Row(cell + 2) >= Rows <=> cell + 2 >= ScreenBytes)
  BY <1>2, OnScreen
<1>5. Printed(off, ch) = IF Row(off) >= Rows THEN Wiped(off)
                         ELSE IF Row(cell + 2) >= Rows THEN Wiped(cell + 2) ELSE cell + 2
  BY DEF Printed
<1> HIDE DEF cell
<1> QED
  BY <1>1, <1>2, <1>3, <1>4, <1>5
-----------------------------------------------------------------------------
\* A step of the handler, as far as the invariants care: it leaves the main thread alone and
\* the cursor in reach, knows whether it changed its parity, and takes nothing off the heap
\* during boot but by an 'f', which spoils it.
HandlerMoves ==
  /\ UNCHANGED <<main, reg_main, arg, ptr, stage, live_end>>
  /\ handler' \in {"none", "text", "line"}
  /\ vm' \in Int /\ (vm' = vm \/ (vm' < ScreenBytes /\ (vm' >= vm \/ vm' >= -1)))
  /\ upset' = (upset \/ vm' % 2 # vm % 2)
  /\ heap_end' \in 0..HeapTop
  /\ spoilt' \in BOOLEAN /\ (spoilt => spoilt')
  /\ stage # "idle" /\ ~spoilt' => heap_end' >= heap_end

LEMMA WipedInReach ==
  ASSUME NEW off \in Int, off >= -3
  PROVE  /\ Wiped(off) \in Int
         /\ Wiped(off) = off \/ (Wiped(off) < ScreenBytes /\ Wiped(off) >= -1)
BY ScreenFacts DEF Wiped

LEMMA InterruptMoves ==
  ASSUME PreemptInv, Interrupt
  PROVE  HandlerMoves /\ (UNCHANGED svars \/ HandlerParse)
<1> USE DEF PreemptInv, ControlInv, ReachInv, HeapInv, Leaves
<1>0. vm \in Int /\ vm >= -3 /\ handler \in {"none", "text", "line"} /\ heap_end \in Nat /\ Scratch \in Nat
  BY HeapAssumption
<1>a. ASSUME Others
      PROVE  spoilt' \in BOOLEAN /\ (spoilt => spoilt')
  <2>1. spoilt' = (spoilt \/ Spoils(vm')) /\ spoilt \in BOOLEAN
    BY <1>a DEF Others
  <2>2. Spoils(vm') \in BOOLEAN
    BY DEF Spoils
  <2> QED
    BY <2>1, <2>2
<1>1. ASSUME NEW ch \in Chars, TypeKey(ch)
      PROVE  HandlerMoves /\ UNCHANGED svars
  BY <1>0, <1>1, <1>a, PrintedInReach DEF TypeKey, Key, HandlerMoves, Others
<1>2. ASSUME NEW ch \in Chars, HandlerPrint(ch)
      PROVE  HandlerMoves /\ UNCHANGED svars
  BY <1>0, <1>2, <1>a, PrintedInReach DEF HandlerPrint, HandlerMoves, Others
<1>3. CASE WriteKey
  BY <1>0, <1>3, <1>a DEF WriteKey, Key, HandlerMoves, Others
<1>4. CASE ReadKey
  BY <1>0, <1>4, <1>a DEF ReadKey, Key, HandlerMoves, Others
<1>5. CASE ClearKey
  BY <1>0, <1>5, <1>a, WipedInReach DEF ClearKey, Key, HandlerMoves, Others
<1>6. ASSUME NEW n \in 0..MaxVfsAlloc, OpenKey(n)
      PROVE  HandlerMoves /\ HandlerParse
  <2>1. /\ spoilt' = (spoilt \/ stage # "idle" \/ main # "ready")
        /\ HandlerParse /\ handler' = "line"
        /\ vm' = vm /\ heap_end' \in 0..HeapTop
        /\ upset' = (upset \/ vm' % 2 # vm % 2)
        /\ UNCHANGED <<main, reg_main, arg, ptr, stage, live_end>>
    BY <1>6 DEF OpenKey, Key
  <2>2. spoilt' \in BOOLEAN /\ (spoilt => spoilt') /\ (stage # "idle" => spoilt')
    BY <2>1
  <2> QED
    BY <1>0, <2>1, <2>2 DEF HandlerMoves
<1>7. CASE HandlerReturn
  <2>1. Newline \in Chars
    BY DEF Chars
  <2>2. vm' = vm \/ vm' = Printed(vm, Newline)
    BY <1>7 DEF HandlerReturn
  <2> QED
    BY <1>0, <1>7, <1>a, <2>1, <2>2, PrintedInReach DEF HandlerReturn, HandlerMoves, Others
<1> QED
  BY <1>1, <1>2, <1>3, <1>4, <1>5, <1>6, <1>7 DEF Interrupt
-----------------------------------------------------------------------------
\* The reach of the cursor, step by step.
LEMMA ReachKept ==
  ASSUME PreemptInv, [Next]_<<pvars, svars>>
  PROVE  ReachInv'
<1> USE ScreenFacts DEF PreemptInv, ReachInv, Below, RegisterBelow,
                        NewlineReach, IncrementReach, DecrementReach, MallocSteps
<1>0. /\ vm \in Int /\ reg_main \in Int /\ heap_end \in Int
      /\ Row(vm) \in Int /\ (Row(vm) >= Rows <=> vm >= ScreenBytes)
  BY OnScreen, HeapAssumption DEF HeapInv
<1>1. CASE Interrupt
  BY <1>1, InterruptMoves DEF HandlerMoves
<1>2. ASSUME NEW ch \in Chars, CallPrint(ch)
      PROVE  ReachInv'
  BY <1>2 DEF CallPrint, Ready, console
<1>3. ASSUME NEW n \in Sizes, CallMalloc(n)
      PROVE  ReachInv'
  BY <1>3 DEF CallMalloc, Ready, console
<1>4. CASE CallClear
  BY <1>4 DEF CallClear, Ready, console
<1>5. CASE (\E path \in Paths : CallParse(path)) \/ Parse
  BY <1>5 DEF CallParse, Parse, thread
<1>6. CASE Guard
  BY <1>0, <1>6 DEF Guard, Step
<1>7. CASE NewlineColumn
  <2>1. vm < ScreenBytes /\ main' = "nl_load" /\ vm' = vm
        /\ reg_main' = (RowBytes - 2) - Remainder(vm, RowBytes)
    BY <1>7 DEF NewlineColumn, Step, LoadCursor
  <2>2. reg_main' \in Int /\ reg_main' >= -1 /\ reg_main' <= RowBytes + 1 /\ reg_main' + vm >= -2
    BY <1>0, <2>1, LastCell
  <2> QED
    BY <1>0, <2>1, <2>2
<1>8. CASE NewlineLoad
  BY <1>0, <1>8 DEF NewlineLoad, Step, LoadCursor
<1>9. CASE NewlineStore
  BY <1>0, <1>9 DEF NewlineStore, Step, StoreCursor
<1>10. CASE Increment
  BY <1>0, <1>10 DEF Increment, Step, StoreCursor, LoadCursor
<1>11. CASE Wrap
  BY <1>0, <1>11 DEF Wrap, Step
<1>12. CASE Wipe
  BY <1>0, <1>12 DEF Wipe, Step
<1>13. CASE Decrement
  BY <1>0, <1>13 DEF Decrement, Step, StoreCursor, LoadCursor
<1>14. CASE Malloc
  <2>1. /\ vm' = vm /\ reg_main' \in {reg_main, heap_end, 0}
        /\ main \in MallocSteps /\ main' \in {"m_load", "m_store", "ready"}
    BY <1>14 DEF Malloc, Step, console
  <2>2. vm < ScreenBytes /\ vm >= -3 /\ reg_main' \in Int
    BY <1>0, <2>1
  <2>3. NewlineReach' /\ IncrementReach' /\ DecrementReach'
    BY <2>1
  <2>4. vm' \in Int /\ vm' >= -3 /\ Below(2)' /\ vm' < ScreenBytes
    BY <1>0, <2>1, <2>2
  <2> QED
    BY <2>2, <2>3, <2>4
<1>15. CASE UNCHANGED <<pvars, svars>>
  BY <1>15 DEF pvars
<1> QED
  BY <1>1, <1>2, <1>3, <1>4, <1>5, <1>6, <1>7, <1>8, <1>9, <1>10, <1>11, <1>12, <1>13,
     <1>14, <1>15 DEF Next, MainThread, MainStep
-----------------------------------------------------------------------------
\* The parity of the cursor, step by step.
LEMMA HalfwayKept ==
  ASSUME PreemptInv, [Next]_<<pvars, svars>>
  PROVE  HalfwayInv'
<1> USE DEF PreemptInv, HalfwayInv
<1>0. vm \in Int /\ vm >= -3 /\ reg_main \in Int
  BY DEF ReachInv
<1>1. CASE Interrupt
  <2>1. HandlerMoves
    BY <1>1, InterruptMoves
  <2>2. upset' \in BOOLEAN /\ (~upset' => ~upset /\ vm' % 2 = vm % 2)
    BY <2>1 DEF HandlerMoves
  <2> QED
    BY <1>0, <2>1, <2>2 DEF HandlerMoves
<1>2. ASSUME NEW ch \in Chars, CallPrint(ch)
      PROVE  HalfwayInv'
  BY <1>2 DEF CallPrint, Ready, console
<1>3. ASSUME NEW n \in Sizes, CallMalloc(n)
      PROVE  HalfwayInv'
  BY <1>3 DEF CallMalloc, Ready, console
<1>4. CASE CallClear
  BY <1>4 DEF CallClear, Ready, console
<1>5. CASE (\E path \in Paths : CallParse(path)) \/ Parse
  BY <1>5 DEF CallParse, Parse, thread
<1>6. CASE Guard
  <2>1. vm' = vm /\ upset' = upset /\ main = "guard" /\ main' \in {"wipe", "nl_column", "inc1"}
    BY <1>6 DEF Guard, Step, Elsewhere
  <2> QED
    BY <2>1
<1>7. CASE NewlineColumn
  <2>1. /\ vm' = vm /\ upset' = upset /\ main = "nl_column" /\ main' = "nl_load"
        /\ reg_main' = (RowBytes - 2) - Remainder(vm, RowBytes)
    BY <1>7 DEF NewlineColumn, Step, LoadCursor, Elsewhere
  <2>2. reg_main' \in Int /\ (vm % 2 = 0 => reg_main' % 2 = 0)
    BY <1>0, <2>1, LastCell
  <2> QED
    BY <1>0, <2>1, <2>2
<1>8. CASE NewlineLoad
  BY <1>0, <1>8 DEF NewlineLoad, Step, LoadCursor, Elsewhere
<1>9. CASE NewlineStore
  BY <1>0, <1>9 DEF NewlineStore, Step, StoreCursor, Elsewhere
<1>10. CASE Increment
  BY <1>0, <1>10 DEF Increment, Step, StoreCursor, LoadCursor, Elsewhere
<1>11. CASE Wrap
  BY <1>0, <1>11 DEF Wrap, Step, Elsewhere
<1>12. CASE Wipe
  BY <1>0, <1>12 DEF Wipe, Step, Elsewhere
<1>13. CASE Decrement
  BY <1>0, <1>13 DEF Decrement, Step, StoreCursor, LoadCursor, Elsewhere
<1>14. CASE Malloc
  <2>1. /\ vm' = vm /\ upset' = upset
        /\ main \in MallocSteps /\ main' \in {"m_load", "m_store", "ready"}
    BY <1>14 DEF Malloc, Step, console, MallocSteps
  <2> QED
    BY <2>1 DEF MallocSteps
<1>15. CASE UNCHANGED <<pvars, svars>>
  BY <1>15 DEF pvars
<1> QED
  BY <1>1, <1>2, <1>3, <1>4, <1>5, <1>6, <1>7, <1>8, <1>9, <1>10, <1>11, <1>12, <1>13,
     <1>14, <1>15 DEF Next, MainThread, MainStep
-----------------------------------------------------------------------------
\* A step of the main thread that is none of malloc's leaves the heap alone.
LEMMA HeapLeft ==
  ASSUME PreemptInv, MainThread, ~Malloc
  PROVE  /\ UNCHANGED <<heap_end, ptr, live_end, spoilt>>
         /\ arg'.n \in Nat
         /\ main' \in {"m_load", "m_store"} => main' = main /\ UNCHANGED reg_main
         /\ stage' # "idle" => stage # "idle"
<1> USE DEF PreemptInv, ControlInv
<1>0. arg \in [ch : Chars, n : Nat] /\ NoArg.n \in Nat /\ Sizes \subseteq Nat
  BY HeapAssumption DEF NoArg
<1>1. ASSUME NEW ch \in Chars, CallPrint(ch)
      PROVE  UNCHANGED <<heap_end, ptr, live_end, spoilt>> /\ arg'.n \in Nat
             /\ main' = "guard" /\ stage # "idle"
  BY <1>0, <1>1 DEF CallPrint, heap
<1>2. ASSUME NEW n \in Sizes, CallMalloc(n)
      PROVE  UNCHANGED <<heap_end, ptr, live_end, spoilt>> /\ arg'.n \in Nat
             /\ main' = "m_ptr" /\ stage # "idle"
  BY <1>0, <1>2 DEF CallMalloc, heap
<1>3. CASE CallClear
  BY <1>0, <1>3 DEF CallClear, heap
<1>4. CASE (\E path \in Paths : CallParse(path)) \/ Parse
  <2>1. UNCHANGED thread
    BY <1>4 DEF CallParse, Parse
  <2> QED
    BY <1>0, <2>1 DEF thread
<1>5. CASE \/ Guard \/ NewlineColumn \/ NewlineLoad \/ NewlineStore
           \/ Increment \/ Wrap \/ Wipe \/ Decrement
  <2>1. Elsewhere /\ main' \notin {"m_load", "m_store"}
    BY <1>5 DEF Guard, NewlineColumn, NewlineLoad, NewlineStore, Increment, Wrap, Wipe,
                Decrement, Step
  <2> QED
    BY <1>0, <2>1 DEF Elsewhere, heap
<1> QED
  BY <1>1, <1>2, <1>3, <1>4, <1>5 DEF MainThread, MainStep

\* The heap, step by step.
LEMMA HeapKept ==
  ASSUME PreemptInv, [Next]_<<pvars, svars>>
  PROVE  HeapInv'
<1> USE DEF PreemptInv, HeapInv
<1>0. HeapTop \in Nat
  BY HeapAssumption
<1>1. CASE Interrupt
  <2>1. HandlerMoves
    BY <1>1, InterruptMoves
  <2>2. /\ UNCHANGED <<main, reg_main, arg, ptr, stage, live_end>>
        /\ heap_end' \in 0..HeapTop
        /\ ~spoilt' => ~spoilt
        /\ stage # "idle" /\ ~spoilt' => heap_end' >= heap_end
    BY <2>1 DEF HandlerMoves
  <2> QED
    BY <1>0, <2>2
<1>2. CASE MainThread /\ ~Malloc
  <2>1. /\ UNCHANGED <<heap_end, ptr, live_end, spoilt>>
        /\ arg'.n \in Nat
        /\ main' \in {"m_load", "m_store"} => main' = main /\ UNCHANGED reg_main
        /\ stage' # "idle" => stage # "idle"
    BY <1>2, HeapLeft
  <2> QED
    BY <2>1
<1>3. CASE Malloc
  <2>0. UNCHANGED <<stage, spoilt>> /\ arg'.n \in Nat /\ arg.n \in Nat
    BY <1>3 DEF Malloc, NoArg
  <2>1. CASE Step("m_ptr", "m_load") /\ ptr' = heap_end /\ UNCHANGED <<heap_end, live_end, reg_main>>
    BY <1>0, <2>0, <2>1 DEF Step
  <2>2. CASE Step("m_load", "m_store") /\ reg_main' = heap_end /\ UNCHANGED heap
    BY <1>0, <2>0, <2>2 DEF Step, heap
  <2>3. CASE /\ Step("m_store", "ready")
             /\ reg_main + arg.n <= HeapTop
             /\ heap_end' = reg_main + arg.n
             /\ live_end' = ptr + arg.n
             /\ ptr' = 0 /\ reg_main' = 0
    BY <1>0, <2>0, <2>3 DEF Step
  <2> QED
    BY <1>3, <2>1, <2>2, <2>3 DEF Malloc
<1>4. CASE UNCHANGED <<pvars, svars>>
  BY <1>4 DEF pvars
<1> QED
  BY <1>1, <1>2, <1>3, <1>4 DEF Next
-----------------------------------------------------------------------------
\* The controls, step by step.
LEMMA ControlKept ==
  ASSUME PreemptInv, [Next]_<<pvars, svars>>
  PROVE  ControlInv'
<1> USE DEF PreemptInv, ControlInv
<1>0. NoArg \in [ch : Chars, n : Nat] /\ Sizes \subseteq Nat
  BY HeapAssumption DEF NoArg, Chars
<1> USE DEF PrintSteps, WipeSteps, MallocSteps
<1>1. CASE Interrupt
  <2>1. HandlerMoves
    BY <1>1, InterruptMoves
  <2>2. upset' \in BOOLEAN
    BY <2>1 DEF HandlerMoves
  <2> QED
    BY <2>1, <2>2 DEF HandlerMoves
<1>2. CASE MainThread /\ UNCHANGED handler
  <2>1. upset' = upset /\ spoilt' = spoilt
    <3>1. ASSUME NEW ch \in Chars, CallPrint(ch)
          PROVE  upset' = upset /\ spoilt' = spoilt
      BY <3>1 DEF CallPrint, console
    <3>2. ASSUME NEW n \in Sizes, CallMalloc(n)
          PROVE  upset' = upset /\ spoilt' = spoilt
      BY <3>2 DEF CallMalloc, console
    <3>3. CASE CallClear
      BY <3>3 DEF CallClear, console
    <3>4. CASE (\E path \in Paths : CallParse(path)) \/ Parse
      BY <3>4 DEF CallParse, Parse, thread
    <3>5. CASE MainStep /\ ~Parse
      BY <3>5 DEF MainStep, Guard, NewlineColumn, NewlineLoad, NewlineStore, Increment,
                  Wrap, Wipe, Decrement, Malloc, Elsewhere, console
    <3> QED
      BY <1>2, <3>1, <3>2, <3>3, <3>4, <3>5 DEF MainThread
  <2>2. /\ arg' \in [ch : Chars, n : Nat]
        /\ stage' \in {"boot", "alloc", "report", "idle"}
        /\ main' \in {"ready"} \cup PrintSteps \cup WipeSteps \cup MallocSteps
    <3>1. ASSUME NEW ch \in Chars, CallPrint(ch)
          PROVE  /\ arg' \in [ch : Chars, n : Nat]
                 /\ stage' \in {"boot", "alloc", "report", "idle"}
                 /\ main' \in {"ready"} \cup PrintSteps \cup WipeSteps \cup MallocSteps
      BY <3>1 DEF CallPrint
    <3>2. ASSUME NEW n \in Sizes, CallMalloc(n)
          PROVE  /\ arg' \in [ch : Chars, n : Nat]
                 /\ stage' \in {"boot", "alloc", "report", "idle"}
                 /\ main' \in {"ready"} \cup PrintSteps \cup WipeSteps \cup MallocSteps
      BY <1>0, <3>2 DEF CallMalloc
    <3>3. CASE CallClear
      BY <3>3 DEF CallClear
    <3>4. CASE (\E path \in Paths : CallParse(path)) \/ Parse
      BY <3>4 DEF CallParse, Parse, thread
    <3>5. CASE \/ Guard \/ NewlineColumn \/ NewlineLoad \/ NewlineStore
               \/ Increment \/ Wrap \/ Wipe \/ Decrement
      BY <1>0, <3>5 DEF Guard, NewlineColumn, NewlineLoad, NewlineStore, Increment,
                  Wrap, Wipe, Decrement, Elsewhere, Step
    <3>6. CASE Malloc
      BY <1>0, <3>6 DEF Malloc, Step
    <3> QED
      BY <1>2, <3>1, <3>2, <3>3, <3>4, <3>5, <3>6 DEF MainThread, MainStep
  <2> QED
    BY <1>2, <2>1, <2>2
<1>3. CASE UNCHANGED <<pvars, svars>>
  BY <1>3 DEF pvars
<1> QED
  BY <1>1, <1>2, <1>3 DEF Next
-----------------------------------------------------------------------------
\* What parse_path copies is a path.
LEMMA RestIsPath ==
  ASSUME NEW path \in Paths
  PROVE  Rest(path) \in Seq({Slash, Letter})
<1> DEFINE first == {i \in DOMAIN path : path[i] # Slash /\ \A j \in 1..(i - 1) : path[j] = Slash}
           start == CHOOSE i \in first : TRUE
<1>1. path \in Seq({Slash, Letter})
  BY PathAssumption
<1>2. CASE first = {}
  BY <1>2 DEF Rest
<1>3. CASE first # {}
  <2>1. start \in first
    BY <1>3
  <2>2. start \in 1..Len(path)
    BY <1>1, <2>1
  <2> HIDE DEF start
  <2>3. \A i \in start..Len(path) : path[i] \in {Slash, Letter}
    BY <1>1, <2>2
  <2>4. SubSeq(path, start, Len(path)) \in Seq({Slash, Letter})
    BY <1>1, <2>2, <2>3, SubSeqProperties
  <2> QED
    BY <1>3, <2>4 DEF Rest, start
<1> QED
  BY <1>2, <1>3

\* Only the end of the path, the handler's and what lies beyond either may read as NUL.
LEMMA ReadsInside ==
  ASSUME STypeOK, NEW c \in Reads(last), c # NUL
  PROVE  Inside(last)
BY DEF STypeOK, Reads, Places, Inside, Stray, HandlersEnd

\* strtok's accesses keep to the path.
LEMMA StrtokStepKeeps ==
  ASSUME StrtokInv, StrtokStep
  PROVE  StrtokInv'
<1> USE DEF StrtokInv
<1>0. Len(buffer) \in Nat /\ MAX_COMPONENTS \in Nat
  BY PathAssumption DEF STypeOK
<1>1. ASSUME \/ Test("skip", IsNUL, "skipped", "skip_delim")
             \/ Test("skip_delim", IsDelim, "skip_load", "skipped")
             \/ Test("skipped", NotNUL, "start", "done")
             \/ Test("scan", IsNUL, "scanned", "scan_delim")
             \/ Test("scan_delim", IsDelim, "scanned", "scan_load")
             \/ Test("scanned", NotNUL, "cut", "return")
      PROVE  StrtokInv'
  <2>1. UNCHANGED <<last, buffer, reg, token_start, cut, components, moved>>
    BY <1>1 DEF Test
  <2>2. /\ at' \in Controls
        /\ at \notin Storing /\ at' \notin Storing
        /\ at' # "out"
        /\ at' \in BetweenTokens => at \in BetweenTokens
    BY <1>1 DEF Test, Goto, Controls, Storing, BetweenTokens
  <2>3. at' \in Stepping => Inside(last)
    BY <1>1, ReadsInside DEF Test, Goto, IsNUL, NotNUL, Stepping
  <2> QED
    BY <2>1, <2>2, <2>3 DEF STypeOK, Places, Inside
<1>2. ASSUME \/ Load("skip_load", "skip_store")
             \/ Load("scan_load", "scan_store")
             \/ Load("cut_load", "cut_store")
      PROVE  StrtokInv'
  <2>1. reg' = last /\ Inside(last) /\ UNCHANGED <<last, buffer, token_start, cut, components, moved>>
    BY <1>2 DEF Load, Stepping
  <2>2. /\ at' \in Storing /\ at' \in Controls /\ at' # "out" /\ at' \notin Stepping
        /\ at' \in BetweenTokens => at \in BetweenTokens
    BY <1>2 DEF Load, Goto, Storing, Stepping, BetweenTokens, Controls
  <2> QED
    BY <2>1, <2>2 DEF STypeOK, Places, Inside
<1>3. ASSUME \/ Store("skip_store", "skip")
             \/ Store("scan_store", "scan")
             \/ Store("cut_store", "return")
      PROVE  StrtokInv'
  <2>1. last' = After(reg) /\ reg' = HandlersEnd /\ Inside(reg)
        /\ UNCHANGED <<buffer, token_start, cut, components, moved>>
    BY <1>3 DEF Store, Storing
  <2>2. After(reg) \in Places \cup {HandlersEnd, Stray}
    BY <1>0, <2>1 DEF After, Inside, Places, HandlersEnd, Stray
  <2>3. /\ at' \in {"skip", "scan", "return"}
        /\ at' \in BetweenTokens => at \in BetweenTokens
    BY <1>3 DEF Store, Goto, BetweenTokens
  <2> QED
    BY <2>1, <2>2, <2>3 DEF STypeOK, Places, Inside, Controls, Stepping, Storing, BetweenTokens
<1>4. CASE TokenStart
  BY <1>4 DEF TokenStart, Goto, STypeOK, Places, Inside, Controls, Stepping, Storing,
              BetweenTokens
<1>5. CASE Cut
  <2>1. /\ at = "cut" /\ at' = "cut_load" /\ cut' \in Places \cup {HandlersEnd} /\ Inside(last)
        /\ UNCHANGED <<last, buffer, reg, token_start, components, moved>>
    BY <1>5 DEF Cut, Goto, Stepping, HandlersEnd
  <2> QED
    BY <2>1 DEF STypeOK, Places, Inside, Controls, Stepping, Storing, BetweenTokens
<1>6. CASE Return
  <2>1. /\ at = "return" /\ at' \in {"done", "skip"}
        /\ token_start' = HandlersEnd /\ cut' = 0
        /\ UNCHANGED <<last, buffer, reg, moved>>
    BY <1>6 DEF Return, Goto
  <2>2. components' \in Seq(Component) /\ Len(components') <= MAX_COMPONENTS
    <3>1. components \in Seq(Component) /\ Len(components) <= MAX_COMPONENTS
          /\ Len(components) \in Nat
      BY DEF STypeOK, Component
    <3> DEFINE c == IF token_start \in Places
                    THEN [from |-> token_start, to |-> IF cut = 0 THEN Len(buffer) + 1 ELSE cut]
                    ELSE Foreign
    <3>2. c \in Component
      <4>1. Len(buffer) + 1 \in Places /\ (cut = 0 \/ cut \in Places)
        BY <1>0 DEF STypeOK, Places, HandlersEnd
      <4> QED
        BY <4>1 DEF Component, Foreign
    <3>3. CASE components' = components
      BY <3>1, <3>3
    <3>4. CASE Len(components) # MAX_COMPONENTS /\ components' = Append(components, c)
      <4> HIDE DEF c
      <4> QED
        BY <1>0, <3>1, <3>2, <3>4, AppendProperties
    <3> QED
      BY <1>6, <3>3, <3>4 DEF Return
  <2>3. /\ at' \in Controls /\ at' \notin Stepping /\ at' \notin Storing /\ at' # "out"
        /\ reg = HandlersEnd
    BY <2>1 DEF Controls, Stepping, Storing
  <2>4. Component' = Component /\ Places' = Places
    BY <2>1 DEF Component, Places
  <2>5. STypeOK'
    BY <2>1, <2>2, <2>3, <2>4 DEF STypeOK, Component, HandlersEnd
  <2> QED
    BY <2>1, <2>3, <2>5
<1> QED
  BY <1>1, <1>2, <1>3, <1>4, <1>5, <1>6 DEF StrtokStep, Skip, Skipped, Scan, Scanned

\* The start of a parse, its end, and a parse of the handler's in between.
LEMMA ParseKeeps ==
  ASSUME StrtokInv, NEW path \in Paths, ParsePath(path)
  PROVE  StrtokInv'
<1> USE DEF StrtokInv
<1>1. /\ at = "out" /\ buffer' = Rest(path) /\ Rest(path) \in Seq({Slash, Letter})
      /\ reg = HandlersEnd /\ token_start = HandlersEnd /\ cut = 0
      /\ components = <<>> /\ last = HandlersEnd /\ moved \in BOOLEAN
      /\ UNCHANGED <<reg, token_start, cut, components, moved>>
  BY RestIsPath DEF ParsePath, Storing, BetweenTokens, STypeOK
<1>2. /\ last' \in {HandlersEnd, 1}
      /\ at' \in {"done", "skip"}
  BY <1>1 DEF ParsePath, Goto
<1>3. 1 \in Places' /\ MAX_COMPONENTS \in Nat
  BY <1>1, PathAssumption DEF Places
<1>4. components' \in Seq(Component') /\ Len(components') = 0
  BY <1>1
<1>5. STypeOK'
  BY <1>1, <1>2, <1>3, <1>4 DEF STypeOK, Controls, HandlersEnd, Component
<1> QED
  BY <1>1, <1>2, <1>5 DEF Stepping, Storing, BetweenTokens

LEMMA ParseDoneKeeps ==
  ASSUME StrtokInv, ParseDone
  PROVE  StrtokInv'
<1> USE DEF StrtokInv
<1>1. /\ at' = "out" /\ last' = HandlersEnd /\ buffer' = <<>> /\ components' = <<>>
      /\ moved' = FALSE /\ reg' = HandlersEnd /\ token_start' = HandlersEnd /\ cut' = 0
  BY DEF ParseDone, Goto, Storing, BetweenTokens
<1>2. buffer' \in Seq({Slash, Letter}) /\ components' \in Seq(Component') /\ Len(components') = 0
  BY <1>1
<1>3. Len(components') <= MAX_COMPONENTS
  <2>1. MAX_COMPONENTS \in Nat
    BY PathAssumption
  <2> QED
    BY <1>2, <2>1
<1>6. at' \in Controls /\ moved' \in BOOLEAN
  BY <1>1 DEF Controls
<1>4. /\ last' \in Places' \cup {HandlersEnd, Stray}
      /\ {reg, token_start}' \subseteq Places' \cup {HandlersEnd, Stray}
      /\ cut' \in Places' \cup {HandlersEnd}
  BY <1>1 DEF HandlersEnd
<1>5. STypeOK'
  BY <1>2, <1>3, <1>4, <1>6 DEF STypeOK, Component
<1> QED
  BY <1>1, <1>5 DEF Stepping, Storing, BetweenTokens

LEMMA HandlerParseKeeps ==
  ASSUME StrtokInv, HandlerParse
  PROVE  StrtokInv'
<1> USE DEF StrtokInv
<1>1. /\ last' \in {last, HandlersEnd, Stray} /\ (at = "out" => last' = last)
      /\ UNCHANGED <<buffer, at, reg, token_start, cut, components>>
  BY DEF HandlerParse
<1>2. moved' \in BOOLEAN
  BY DEF HandlerParse, STypeOK
<1> QED
  BY <1>1, <1>2 DEF STypeOK, Places, Inside

\* strtok and parse_path, step by step.
LEMMA StrtokKept ==
  ASSUME PreemptInv, [Next]_<<pvars, svars>>
  PROVE  StrtokInv'
<1> USE DEF PreemptInv
<1>1. ASSUME UNCHANGED svars
      PROVE  StrtokInv'
  BY <1>1 DEF svars, StrtokInv, STypeOK, Places, Inside
<1>2. CASE Interrupt
  BY <1>1, <1>2, InterruptMoves, HandlerParseKeeps
<1>3. ASSUME NEW path \in Paths, CallParse(path)
      PROVE  StrtokInv'
  BY <1>3, ParseKeeps DEF CallParse
<1>4. CASE Parse
  BY <1>4, StrtokStepKeeps, ParseDoneKeeps DEF Parse
<1>5. CASE (\E ch \in Chars : CallPrint(ch)) \/ (\E n \in Sizes : CallMalloc(n)) \/ CallClear
  BY <1>1, <1>5 DEF CallPrint, CallMalloc, CallClear
<1>6. CASE MainStep /\ ~Parse
  BY <1>1, <1>6 DEF MainStep, Guard, NewlineColumn, NewlineLoad, NewlineStore, Increment, Wrap,
                    Wipe, Decrement, Malloc, Elsewhere
<1> QED
  BY <1>1, <1>2, <1>3, <1>4, <1>5, <1>6 DEF Next, MainThread
-----------------------------------------------------------------------------
LEMMA PreemptInvInit == Init => PreemptInv
<1> SUFFICES ASSUME Init
             PROVE  PreemptInv
  OBVIOUS
<1>1. /\ vm = 0 /\ heap_end = BootEnd /\ live_end = BootEnd /\ ptr = 0
      /\ main = "ready" /\ reg_main = 0 /\ arg = NoArg
      /\ stage = "boot" /\ handler = "none" /\ upset = FALSE /\ spoilt = FALSE
  BY DEF Init
<1>2. /\ last = HandlersEnd /\ reg = HandlersEnd /\ token_start = HandlersEnd /\ cut = 0
      /\ at = "out" /\ buffer = <<>> /\ components = <<>> /\ moved = FALSE
  BY DEF Init, SInit
<1>3. NoArg \in [ch : Chars, n : Nat] /\ NoArg.n \in Nat
  BY DEF NoArg, Chars
<1>4. ControlInv
  BY <1>1, <1>3 DEF ControlInv
<1>5. ReachInv
  BY <1>1, ScreenFacts DEF ReachInv, Below, NewlineReach, IncrementReach, DecrementReach
<1>6. HalfwayInv
  <2>1. vm % 2 = 1 <=> main \in {"inc2", "inc2_store", "dec2", "dec2_store"}
    <3>1. ~(vm % 2 = 1)
      BY <1>1
    <3> QED
      BY <1>1, <3>1
  <2>2. main \notin {"nl_load", "nl_store", "inc1_store", "dec1_store", "inc2_store", "dec2_store"}
    BY <1>1
  <2> QED
    BY <1>1, <2>1, <2>2, Zenon DEF HalfwayInv
<1>7. HeapInv
  BY <1>1, <1>3, HeapAssumption DEF HeapInv
<1>8. StrtokInv
  <2>1. components \in Seq(Component) /\ Len(components) = 0 /\ buffer \in Seq({Slash, Letter})
    BY <1>2
  <2>2. Len(components) <= MAX_COMPONENTS
    <3>1. MAX_COMPONENTS \in Nat
      BY PathAssumption
    <3> QED
      BY <2>1, <3>1
  <2>3. at \in Controls /\ moved \in BOOLEAN
    BY <1>2 DEF Controls
  <2>4. STypeOK
    BY <1>2, <2>1, <2>2, <2>3 DEF STypeOK, Component, HandlersEnd
  <2> QED
    BY <1>2, <2>4 DEF StrtokInv, Stepping, Storing
<1> QED
  BY <1>4, <1>5, <1>6, <1>7, <1>8 DEF PreemptInv

LEMMA PreemptInvKept == PreemptInv /\ [Next]_<<pvars, svars>> => PreemptInv'
BY ReachKept, HalfwayKept, HeapKept, ControlKept, StrtokKept DEF PreemptInv

LEMMA Invariant == Spec => []PreemptInv
BY PreemptInvInit, PreemptInvKept, PTL DEF Spec

\* The variables of kernel_main, of its console, heap and strtok stay in their types, with
\* a key between any two accesses.
THEOREM TypeCorrect == Spec => []PTypeOK
<1>1. PreemptInv => PTypeOK
  BY DEF PreemptInv, ControlInv, ReachInv, HalfwayInv, HeapInv, StrtokInv, PTypeOK
<1> QED
  BY <1>1, Invariant, PTL

\* A stale cursor never runs away: every store to the screen hits it, the three bytes before
\* it or the row after it (kernel.c:445-514).
THEOREM CursorStaysInReach == Spec => []CursorInReach
<1>1. PreemptInv => CursorInReach
  BY ScreenFacts DEF PreemptInv, ReachInv, Below, CursorInReach
<1> QED
  BY <1>1, Invariant, PTL

\* A lost update of the cursor never leaves it between the halves of a cell, while no key
\* moves it by an odd number of bytes (kernel.c:455-457).
THEOREM CursorNeverHalfway == Spec => []CursorHalfway
<1>1. PreemptInv => CursorHalfway
  BY DEF PreemptInv, HalfwayInv, CursorHalfway
<1> QED
  BY <1>1, Invariant, PTL

\* Until the main loop starts, no key but 'f' moves heap_end into a block of the main
\* thread's, wherever it comes within malloc (stdlib.c:8-12, kernel.c:303).
THEOREM HeapEndStaysEnd == Spec => []BootKeepsHeapEnd
<1>1. PreemptInv => BootKeepsHeapEnd
  BY DEF PreemptInv, HeapInv, BootKeepsHeapEnd, HeapEndIsEnd
<1> QED
  BY <1>1, Invariant, PTL
-----------------------------------------------------------------------------
\* What was typed into the row: the room between the last block of the main thread and
\* the end of the heap, and a cursor that is at most so many cells behind a row's head.
Room == heap_end - live_end
Trail(cursor, room) == \E q \in Int, j \in Nat : cursor = RowBytes * q + 2 * j /\ j <= room

\* Within the last newline the cursor to come is the head of a row, and past it by a cell at
\* most for each key typed between its two reads of the cursor.  Afterwards, and between calls,
\* the row with what the newline has still to step over is no longer than the room.
Following ==
  /\ main = "guard" => arg.ch = Newline
  /\ main = "nl_load" => Trail(vm + reg_main + 2, Room)
  /\ main \in {"nl_store", "inc1_store"} => Column(reg_main + 2) <= Room
  /\ main = "inc1" => Column(vm + 2) <= Room
  /\ main = "inc2" => Column(vm + 1) <= Room
  /\ main = "inc2_store" => Column(reg_main + 1) <= Room
  /\ main = "wrap" => Column(vm) <= Room
  /\ main = "ready" /\ handler # "line" => Column(vm) <= Room

\* Once the room is as long as any row, it stays so until an 'f' takes the row.
RowInv ==
  /\ stage = "idle" => main \notin MallocSteps
  /\ ~spoilt =>
       /\ handler = "text" => Room >= Scratch
       /\ handler = "line" => stage = "idle" /\ main = "ready"
       /\ stage = "idle" => Room >= 0 /\ (Room >= Cols - 1 \/ Following)

\* A number j above a multiple of b leaves a remainder of j at most.
Above(n, b, q, j) == n >= 0 /\ n = b * q + j
LEMMA RemainderUnder ==
  ASSUME NEW n \in Int, NEW b \in Nat, b >= 1, NEW q \in Int, NEW j \in Nat, Above(n, b, q, j)
  PROVE  Remainder(n, b) <= j
<1>1. b * q \in Int
  OBVIOUS
<1>2. n >= 0 /\ n = b * q + j
  BY DEF Above
<1>3. PICK d \in Int : d = Quotient(n, b)
  BY DivisionFacts
<1>4. Remainder(n, b) = n - b * d /\ Remainder(n, b) \in 0..(b - 1)
  BY <1>2, <1>3, DivisionFacts
<1>5. PICK r \in 0..(b - 1) : r = Remainder(n, b)
  BY <1>4
<1>6. r = b * q + j - b * d
  BY <1>2, <1>4, <1>5
<1>7. ~(r > j)
  <2>1. SUFFICES ASSUME r > j PROVE FALSE
    OBVIOUS
  <2>2. b * (q - d) = b * q - b * d /\ b * d \in Int
    OBVIOUS
  <2>3. b * (q - d) = r - j
    BY <1>1, <1>6, <2>2
  <2>4. CASE q - d >= 1
    <3>1. PICK x \in Nat : q - d = x + 1
      BY <2>4
    <3>2. b * (x + 1) = b * x + b /\ b * x \in Nat
      OBVIOUS
    <3> QED
      BY <2>3, <3>1, <3>2
  <2>5. CASE q - d <= 0
    <3>1. PICK x \in Nat : q - d = -x
      BY <2>5
    <3>2. b * (-x) = -(b * x) /\ b * x \in Nat
      OBVIOUS
    <3> QED
      BY <2>1, <2>3, <3>1, <3>2
  <2> QED
    BY <2>4, <2>5
<1> QED
  BY <1>5, <1>7

LEMMA RemainderFacts ==
  ASSUME NEW a \in Int, NEW b \in Nat, b >= 1
  PROVE  /\ Quotient(a, b) \in Int /\ Remainder(a, b) \in Int /\ Remainder(a, b) <= b - 1
         /\ a >= 0 => Quotient(a, b) >= 0 /\ Remainder(a, b) >= 0
         /\ a < 0 => Quotient(a, b) <= 0 /\ Remainder(a, b) <= 0
<1>1. CASE a >= 0
  BY <1>1, DivisionFacts
<1>2. CASE a < 0
  BY <1>2, DivisionFacts
<1> QED
  BY <1>1, <1>2

\* The column of a cursor: less than the width, and not positive at or before the head.
LEMMA ColumnFacts ==
  ASSUME NEW v \in Int
  PROVE  /\ Column(v) \in Int /\ Column(v) <= Cols - 1
         /\ v <= 1 => Column(v) <= 0
         /\ v >= 0 => Quotient(v, 2) \in Nat
<1>0. Cols \in Nat /\ Cols >= 1
  BY ScreenFacts
<1> DEFINE h == Quotient(v, 2)
<1>1. h \in Int /\ h = Quotient(v, 2)
  BY RemainderFacts
<1>2. (v < 0 => h <= 0) /\ (v >= 0 => h >= 0)
  BY DEF Quotient
<1> HIDE DEF h
<1>3. v \in {0, 1} => h = 0
  BY <1>1 DEF Quotient
<1>4. Column(v) = Remainder(h, Cols)
  BY <1>1 DEF Column
<1>5. /\ Remainder(h, Cols) \in Int /\ Remainder(h, Cols) <= Cols - 1
      /\ h < 0 => Remainder(h, Cols) <= 0
  BY <1>0, <1>1, RemainderFacts
<1>6. h = 0 => Remainder(h, Cols) = 0
  BY <1>0 DEF Remainder, Quotient
<1> QED
  BY <1>0, <1>1, <1>2, <1>3, <1>4, <1>5, <1>6

LEMMA TrailColumn ==
  ASSUME NEW v \in Int, NEW room \in Nat, Trail(v, room)
  PROVE  Column(v) <= room
<1> USE ScreenFacts
<1>1. PICK q \in Int, j \in Nat : v = RowBytes * q + 2 * j /\ j <= room
  BY DEF Trail
<1>2. PICK x \in Int : x = Cols * q
  OBVIOUS
<1>3. v = 2 * (x + j)
  <2>1. RowBytes * q = 2 * (Cols * q)
    OBVIOUS
  <2> QED
    BY <1>1, <1>2, <2>1
<1>4. CASE v < 0
  BY <1>4, ColumnFacts
<1>5. CASE v >= 0
  <2>1. Quotient(v, 2) = x + j /\ x + j >= 0
    BY <1>2, <1>3, <1>5 DEF Quotient
  <2>2. PICK n \in Nat : n = x + j
    BY <2>1
  <2>3. Above(n, Cols, q, j)
    BY <1>2, <2>2 DEF Above
  <2>4. Remainder(n, Cols) <= j
    <3>1. q \in Int /\ j \in Nat /\ n \in Int /\ Cols \in Nat /\ Cols >= 1
      BY <1>1, <2>2
    <3> QED
      BY <2>3, <3>1, RemainderUnder
  <2> QED
    BY <1>1, <2>1, <2>2, <2>4, ColumnFacts DEF Column
<1> QED
  BY <1>4, <1>5

\* A cell further is a column further at most.
LEMMA NextColumn ==
  ASSUME NEW v \in Int, v >= 0
  PROVE  Column(v + 2) <= Column(v) + 1 /\ Column(v) >= 0
<1> USE ScreenFacts
<1>1. PICK h \in Nat : h = Quotient(v, 2)
  BY ColumnFacts
<1>2. Quotient(v + 2, 2) = h + 1
  BY <1>1 DEF Quotient
<1>3. PICK d \in Int : d = Quotient(h, Cols)
  BY DivisionFacts
<1>4. Column(v) = h - Cols * d /\ Column(v) \in 0..(Cols - 1) /\ Cols * d \in Int
  BY <1>1, <1>3, DivisionFacts DEF Column
<1>5. PICK j \in Nat : j = Column(v) + 1
  BY <1>4
<1>6. h + 1 = Cols * d + j
  BY <1>4, <1>5
<1>7. Remainder(h + 1, Cols) <= j
  <2>1. PICK n \in Nat : n = h + 1
    BY <1>1
  <2>2. Above(n, Cols, d, j)
    BY <1>6, <2>1 DEF Above
  <2>3. Remainder(n, Cols) <= j
    <3>1. d \in Int /\ j \in Nat /\ n \in Int /\ Cols \in Nat /\ Cols >= 1
      BY <1>3, <1>5, <2>1
    <3> QED
      BY <2>2, <3>1, RemainderUnder
  <2> QED
    BY <2>1, <2>3
<1> QED
  BY <1>2, <1>4, <1>5, <1>6, <1>7 DEF Column

\* A newline ends at the head of a row.
LEMMA NewlineTrail ==
  ASSUME NEW v \in Int, NEW room \in Nat
  PROVE  Trail(v + ((RowBytes - 2) - Remainder(v, RowBytes)) + 2, room)
<1> USE ScreenFacts
<1> DEFINE q == Quotient(v, RowBytes)
<1>1. q \in Int /\ Remainder(v, RowBytes) = v - RowBytes * q
  BY DivisionFacts
<1> HIDE DEF q
<1>2. RowBytes * (q + 1) = RowBytes * q + RowBytes /\ RowBytes * q \in Int
  BY <1>1
<1>3. v + ((RowBytes - 2) - Remainder(v, RowBytes)) + 2 = RowBytes * (q + 1) + 2 * 0
  BY <1>1, <1>2
<1>4. q + 1 \in Int /\ 0 \in Nat /\ 0 <= room
  BY <1>1
<1> QED
  BY <1>3, <1>4 DEF Trail

\* Where the handler's print leaves the cursor: past the cell, or at the head of the screen.
CellOf(v, ch) == IF ch = Newline THEN v + (RowBytes - 2) - Remainder(v, RowBytes) ELSE v
LEMMA PrintedCases ==
  ASSUME NEW v \in Int, v >= -3, NEW ch \in Chars
  PROVE  /\ CellOf(v, ch) \in Int
         /\ \/ v >= 0 /\ Printed(v, ch) = Wiped(v)
            \/ CellOf(v, ch) + 2 >= 0 /\ Printed(v, ch) = Wiped(CellOf(v, ch) + 2)
            \/ Printed(v, ch) = CellOf(v, ch) + 2
<1> USE ScreenFacts
<1>1. CellOf(v, ch) \in Int /\ CellOf(v, ch) + 2 >= -3
  <2>1. v + (RowBytes - 2) - Remainder(v, RowBytes) = v + ((RowBytes - 2) - Remainder(v, RowBytes))
    BY DivisionFacts
  <2> QED
    BY <2>1, LastCell DEF CellOf
<1>2. Printed(v, ch) = IF Row(v) >= Rows THEN Wiped(v)
                       ELSE IF Row(CellOf(v, ch) + 2) >= Rows THEN Wiped(CellOf(v, ch) + 2)
                       ELSE CellOf(v, ch) + 2
  BY DEF Printed, CellOf
<1>3. Row(v) >= Rows => v >= 0
  BY OnScreen
<1>4. Row(CellOf(v, ch) + 2) >= Rows => CellOf(v, ch) + 2 >= 0
  BY <1>1, OnScreen
<1> QED
  BY <1>1, <1>2, <1>3, <1>4

\* The handler's print leaves the cursor a column further at most, and its newline at the
\* head of a row.
LEMMA PrintedColumn ==
  ASSUME NEW v \in Int, v >= -3, NEW ch \in Chars
  PROVE  /\ Printed(v, ch) \in Int
         /\ Column(Printed(v, ch)) <= 0
              \/ (ch # Newline /\ Column(Printed(v, ch)) <= Column(v) + 1)
<1> USE ScreenFacts
<1>1. ASSUME NEW w \in Int, w >= 0
      PROVE  Wiped(w) \in Int /\ Column(Wiped(w)) <= 0
  <2>1. Wiped(w) \in {-1, 0}
    BY <1>1 DEF Wiped
  <2> QED
    BY <2>1, ColumnFacts
<1>2. PICK end \in Int : end = CellOf(v, ch) + 2
  BY PrintedCases
<1>3. \/ Printed(v, ch) \in Int /\ Column(Printed(v, ch)) <= 0
      \/ Printed(v, ch) = end
  BY <1>1, <1>2, PrintedCases
<1>4. CASE ch = Newline
  <2>1. end = v + ((RowBytes - 2) - Remainder(v, RowBytes)) + 2
    BY <1>2, <1>4, DivisionFacts DEF CellOf
  <2>2. Trail(end, 0)
    BY <2>1, NewlineTrail
  <2>3. Column(end) <= 0
    BY <2>2, TrailColumn
  <2> QED
    BY <1>3, <2>3
<1>5. CASE ch # Newline
  <2>1. end = v + 2
    BY <1>2, <1>5 DEF CellOf
  <2>2. Column(end) <= 0 \/ Column(end) <= Column(v) + 1
    <3>1. CASE v >= 0
      BY <2>1, <3>1, NextColumn
    <3>2. CASE v < 0
      BY <2>1, <3>2, ColumnFacts
    <3> QED
      BY <3>1, <3>2
  <2> QED
    BY <1>3, <1>5, <2>2
<1> QED
  BY <1>4, <1>5

\* So it is when the main thread steps on by the rest of a cell afterwards.
LEMMA PrintedThenStep ==
  ASSUME NEW v \in Int, v >= -3, NEW ch \in Chars, NEW d \in 0..2,
         NEW room \in Nat, Column(v + d) <= room
  PROVE  Column(Printed(v, ch) + d) <= room + 1
<1> USE ScreenFacts
<1>1. ASSUME NEW w \in Int, w >= 0
      PROVE  Wiped(w) \in Int /\ Column(Wiped(w) + d) \in Int /\ Column(Wiped(w) + d) <= 1
  <2>1. PICK u \in {-1, 0} : u = Wiped(w)
    BY <1>1 DEF Wiped
  <2>2. CASE u + d <= 1
    BY <2>1, <2>2, ColumnFacts
  <2>3. CASE u + d = 2
    <3>1. Column(0 + 2) <= Column(0) + 1
      BY NextColumn
    <3>2. Column(0) <= 0 /\ Column(0) \in Int /\ Column(2) \in Int
      BY ColumnFacts
    <3>3. u + d = 2 => Column(u + d) = Column(2)
      OBVIOUS
    <3> QED
      BY <2>1, <2>3, <3>1, <3>2, <3>3
  <2> QED
    BY <2>1, <2>2, <2>3
<1>2. PICK end \in Int : end = CellOf(v, ch) + 2
  BY PrintedCases
<1>3. \/ Column(Printed(v, ch) + d) \in Int /\ Column(Printed(v, ch) + d) <= 1
      \/ Printed(v, ch) = end
  BY <1>1, <1>2, PrintedCases
<1>4. CASE ch = Newline
  <2>1. end = v + ((RowBytes - 2) - Remainder(v, RowBytes)) + 2
    BY <1>2, <1>4, DivisionFacts DEF CellOf
  <2>2. Trail(end, 0)
    BY <2>1, NewlineTrail
  <2>3. end % 2 = 0
    <3>1. PICK q \in Int : end = RowBytes * q
      BY <2>2 DEF Trail
    <3>2. PICK x \in Int : x = Cols * q
      OBVIOUS
    <3>3. RowBytes * q = 2 * (Cols * q)
      OBVIOUS
    <3>4. end = 2 * x
      BY <3>1, <3>2, <3>3
    <3> QED
      BY <3>4
  <2>4. Column(end + d) \in Int /\ Column(end + d) <= 1
    <3>1. Column(end + 0) <= 0 /\ Column(end + 0) \in Int
      <4>1. Column(end) <= 0
        BY <2>2, TrailColumn
      <4>2. end + 0 = end
        OBVIOUS
      <4> QED
        BY <4>1, <4>2, ColumnFacts
    <3>2. CASE end < 0
      <4>1. end + d <= 1 /\ end + d \in Int
        BY <2>3, <3>2
      <4>2. Column(end + d) <= 0 /\ Column(end + d) \in Int
        BY <4>1, ColumnFacts
      <4> QED
        BY <4>2
    <3>3. CASE end >= 0 /\ d = 2
      <4>1. Column(end + 2) <= Column(end) + 1 /\ Column(end + 2) \in Int
        BY <3>3, NextColumn, ColumnFacts
      <4> QED
        BY <3>1, <3>3, <4>1
    <3>4. CASE end >= 0 /\ d \in {0, 1}
      <4>1. PICK h \in Nat : end = 2 * h
        BY <2>3, <3>4
      <4>2. Quotient(end + d, 2) = h /\ Quotient(end + 0, 2) = h
        BY <3>4, <4>1 DEF Quotient
      <4>3. Column(end + d) = Column(end + 0)
        BY <4>2 DEF Column
      <4> QED
        BY <3>1, <4>3
    <3> QED
      BY <3>2, <3>3, <3>4
  <2> QED
    BY <1>3, <2>4
<1>5. CASE ch # Newline
  <2>1. end + d = (v + d) + 2
    BY <1>2, <1>5 DEF CellOf
  <2>2. Column((v + d) + 2) \in Int /\ Column((v + d) + 2) <= room + 1
    <3>1. v + d \in Int /\ (v + d) + 2 \in Int
      OBVIOUS
    <3>2. PICK w \in Int : w = v + d
      BY <3>1
    <3>3. Column(w) \in Int /\ Column(w) <= room /\ Column(w + 2) \in Int
      BY <3>2, ColumnFacts
    <3>4. CASE w >= 0
      BY <3>2, <3>3, <3>4, NextColumn
    <3>5. CASE w < 0
      <4>1. Column(w + 2) <= 0
        BY <3>5, ColumnFacts
      <4> QED
        BY <3>2, <3>3, <4>1
    <3> QED
      BY <3>4, <3>5
  <2> QED
    BY <1>3, <2>1, <2>2
<1> QED
  BY <1>4, <1>5
-----------------------------------------------------------------------------
\* A key within the last newline: between its two reads of the cursor it lets the cursor be or
\* moves it by a cell while it lengthens the room; later it moves the cursor anywhere, where the
\* row with the rest of the step is no longer than the room.
LEMMA KeyFollows ==
  ASSUME NEW room \in Nat, room = Room, NEW more \in Nat, more = Room', room <= more,
         vm \in Int, vm' \in Int, reg_main \in Int,
         UNCHANGED <<main, reg_main, arg>>, main # "ready", Following,
         main = "nl_load" => vm' = vm \/ (vm' = vm + 2 /\ room + 1 <= more),
         main = "inc1" => (Column(vm + 2) <= room => Column(vm' + 2) <= more),
         main = "inc2" => (Column(vm + 1) <= room => Column(vm' + 1) <= more),
         main = "wrap" => (Column(vm) <= room => Column(vm') <= more)
  PROVE  Following'
<1>1. main = "guard" => arg'.ch = Newline
  BY DEF Following
<1>2. ASSUME main = "nl_load"
      PROVE  Trail(vm' + reg_main' + 2, more)
  <2>1. PICK q \in Int, j \in Nat : vm + reg_main + 2 = RowBytes * q + 2 * j /\ j <= room
    BY <1>2 DEF Following, Trail
  <2>2. RowBytes * q \in Int
    BY <2>1, ScreenFacts
  <2>3. CASE vm' = vm
    <3>1. vm' + reg_main' + 2 = RowBytes * q + 2 * j /\ j <= more
      BY <2>1, <2>3
    <3> QED
      BY <3>1 DEF Trail
  <2>4. CASE vm' = vm + 2 /\ room + 1 <= more
    <3>1. vm' + reg_main' + 2 = RowBytes * q + 2 * (j + 1) /\ j + 1 \in Nat /\ j + 1 <= more
      BY <2>1, <2>2, <2>4
    <3> QED
      BY <3>1 DEF Trail
  <2> QED
    BY <1>2, <2>3, <2>4
<1>3. ASSUME main \in {"nl_store", "inc1_store"}
      PROVE  Column(reg_main' + 2) <= more
  <2>1. Column(reg_main + 2) <= room /\ Column(reg_main + 2) \in Int
    BY <1>3, ColumnFacts DEF Following
  <2> QED
    BY <2>1
<1>4. main = "inc1" => Column(vm' + 2) <= more
  BY DEF Following
<1>5. main = "inc2" => Column(vm' + 1) <= more
  BY DEF Following
<1>6. ASSUME main = "inc2_store"
      PROVE  Column(reg_main' + 1) <= more
  <2>1. Column(reg_main + 1) <= room /\ Column(reg_main + 1) \in Int
    BY <1>6, ColumnFacts DEF Following
  <2> QED
    BY <2>1
<1>7. main = "wrap" => Column(vm') <= more
  BY DEF Following
<1> QED
  BY <1>1, <1>2, <1>3, <1>4, <1>5, <1>6, <1>7 DEF Following

\* What each step of the handler does to the cursor and to the room.
LEMMA RowInterrupt ==
  ASSUME PreemptInv, RowInv, Interrupt
  PROVE  RowInv'
<1>1. /\ UNCHANGED <<main, reg_main, arg, stage>> /\ live_end' = live_end
      /\ spoilt => spoilt'
  BY InterruptMoves DEF HandlerMoves
<1>2. /\ vm \in Int /\ vm >= -3 /\ reg_main \in Int
      /\ heap_end \in Int /\ live_end \in Int /\ heap_end' \in Int
      /\ Scratch \in Nat /\ Scratch >= Cols - 1 /\ Cols \in Nat
  <2>1. heap_end' \in 0..HeapTop /\ heap_end \in 0..HeapTop
    BY InterruptMoves DEF HandlerMoves, PreemptInv, HeapInv
  <2> QED
    BY <2>1, HeapAssumption, ScreenFacts DEF PreemptInv, ReachInv, HeapInv
<1>a. PICK room \in Int : room = heap_end - live_end /\ room = Room
  BY <1>2 DEF Room
<1>b. PICK more \in Int : more = heap_end' - live_end /\ more = Room'
  <2>1. Room' = heap_end' - live_end'
    BY DEF Room
  <2>2. heap_end' - live_end \in Int
    BY <1>2
  <2> QED
    BY <1>1, <2>1, <2>2
<1>3. SUFFICES ASSUME ~spoilt, ~spoilt'
               PROVE  /\ handler' = "text" => more >= Scratch
                      /\ handler' = "line" => stage = "idle" /\ main = "ready"
                      /\ stage = "idle" => more >= 0 /\ (more >= Cols - 1 \/ Following')
  BY <1>1, <1>b DEF RowInv
<1>4. room >= 0 /\ (stage = "idle" => room >= Cols - 1 \/ Following)
  <2>1. stage # "idle" => heap_end >= live_end
    BY <1>3 DEF PreemptInv, HeapInv
  <2> QED
    BY <1>2, <1>3, <1>a, <2>1 DEF RowInv
<1>5. stage = "idle" /\ main = "ready" /\ handler = "none" => Column(vm) <= room
  BY <1>2, <1>3, <1>4, <1>a, ColumnFacts DEF Following
<1>6. ASSUME stage = "idle", main = "ready", vm' \in Int,
             handler' # "line" => Column(vm') <= more, more >= 0
      PROVE  Following'
  BY <1>1, <1>6, <1>b DEF Following
<1>7. ASSUME NEW ch \in Chars, TypeKey(ch)
      PROVE  /\ handler' = "none" /\ more >= 0
             /\ stage = "idle" => more >= Cols - 1 \/ Following'
  <2>1. /\ handler' = "none" /\ handler = "none" /\ vm' = Printed(vm, ch)
        /\ heap_end' = heap_end + 1 /\ spoilt' = (spoilt \/ Spoils(vm'))
    BY <1>7 DEF TypeKey, Key, Leaves, Others
  <2>2. more = room + 1
    BY <1>2, <1>a, <1>b, <2>1
  <2>3. ASSUME stage = "idle", ~(more >= Cols - 1) PROVE Following'
    <3>1. Following
      BY <1>2, <1>4, <2>2, <2>3
    <3>2. CASE main = "ready"
      <4>1. Column(vm) \in Int /\ vm' \in Int /\ Column(vm') \in Int
        BY <1>2, <2>1, PrintedColumn, ColumnFacts
      <4>2. Column(vm') <= 0 \/ Column(vm') <= Column(vm) + 1
        BY <1>2, <2>1, PrintedColumn
      <4>3. Column(vm') <= more
        BY <1>2, <1>4, <1>5, <2>1, <2>2, <2>3, <3>2, <4>1, <4>2
      <4> QED
        BY <1>2, <1>4, <1>6, <2>2, <2>3, <3>2, <4>1, <4>3
    <3>3. CASE main # "ready"
      <4>1. main = "nl_load" => vm' = vm \/ vm' = vm + 2
        BY <1>3, <2>1, <2>3 DEF Spoils
      <4>2. room \in Nat /\ more \in Nat /\ room + 1 <= more /\ room <= more /\ vm' \in Int
        BY <1>2, <1>4, <2>1, <2>2, PrintedColumn
      <4>3. ASSUME NEW d \in 0..2, Column(vm + d) <= room
            PROVE  Column(vm' + d) <= more
        BY <1>2, <2>1, <2>2, <4>2, <4>3, PrintedThenStep
      <4>4. 0 \in 0..2 /\ 1 \in 0..2 /\ 2 \in 0..2
        OBVIOUS
      <4>5. vm + 0 = vm /\ vm' + 0 = vm'
        <5>1. \A x \in Int : x + 0 = x
          OBVIOUS
        <5> QED
          BY <1>2, <4>2, <5>1
      <4>6. Column(vm) <= room => Column(vm') <= more
        BY <4>3, <4>4, <4>5
      <4>7. Column(vm + 1) <= room => Column(vm' + 1) <= more
        BY <4>3, <4>4
      <4>8. Column(vm + 2) <= room => Column(vm' + 2) <= more
        BY <4>3, <4>4
      <4>9. main = "nl_load" => vm' = vm \/ (vm' = vm + 2 /\ room + 1 <= more)
        BY <4>1, <4>2
      <4>10. room = Room /\ more = Room' /\ vm \in Int /\ reg_main \in Int
             /\ UNCHANGED <<main, reg_main, arg>>
        BY <1>1, <1>2, <1>a, <1>b
      <4> QED
        BY <3>1, <3>3, <4>2, <4>6, <4>7, <4>8, <4>9, <4>10, KeyFollows
    <3> QED
      BY <3>2, <3>3
  <2> QED
    BY <1>2, <1>4, <2>1, <2>2, <2>3
<1>8. CASE WriteKey \/ ReadKey
  <2>1. handler' \in {"none", "text"} /\ heap_end' = heap_end + Scratch
    BY <1>8 DEF WriteKey, ReadKey, Key, Leaves
  <2> QED
    BY <1>2, <1>4, <1>a, <1>b, <2>1
<1>9. CASE ClearKey
  <2>1. /\ handler' = "none" /\ handler = "none" /\ vm' = Wiped(vm)
        /\ heap_end' = heap_end /\ spoilt' = (spoilt \/ Spoils(vm'))
    BY <1>9 DEF ClearKey, Key, Leaves, Others
  <2>2. more = room /\ vm' \in Int
    BY <1>2, <1>a, <1>b, <2>1, WipedInReach
  <2>3. ASSUME stage = "idle", ~(more >= Cols - 1) PROVE Following'
    <3>1. Following
      BY <1>4, <2>2, <2>3
    <3>2. vm' = vm \/ (vm > 0 /\ vm' \in {-1, 0})
      BY <1>2, <2>1 DEF Wiped
    <3>3. CASE main = "ready"
      <4>1. Column(vm') <= more
        <5>1. CASE vm' = vm
          BY <1>5, <2>1, <2>2, <2>3, <3>3, <5>1
        <5>2. CASE vm' \in {-1, 0}
          <6>1. Column(vm') \in Int /\ Column(vm') <= 0
            BY <5>2, ColumnFacts
          <6> QED
            BY <1>2, <1>4, <2>2, <6>1
        <5> QED
          BY <3>2, <5>1, <5>2
      <4> QED
        BY <1>4, <1>6, <2>2, <2>3, <3>3, <4>1
    <3>4. CASE main # "ready"
      <4>1. main \in {"nl_load", "inc1"} => vm' = vm
        <5>1. main \in {"nl_load", "inc1"} => vm' = vm \/ vm' = vm + 2
          BY <1>3, <2>1, <2>3 DEF Spoils
        <5> QED
          BY <1>2, <3>2, <5>1
      <4>2. room \in Nat /\ more \in Nat /\ more = room
        BY <1>2, <1>4, <2>2
      <4>3. vm' # vm => Column(vm' + 1) <= 0 /\ Column(vm' + 1) \in Int
                        /\ Column(vm') <= 0 /\ Column(vm') \in Int
        BY <1>2, <3>2, ColumnFacts
      <4>4. main = "inc1" => (Column(vm + 2) <= room => Column(vm' + 2) <= more)
        BY <4>1, <4>2
      <4>5. Column(vm) <= room => Column(vm') <= more
        BY <4>2, <4>3
      <4>6. Column(vm + 1) <= room => Column(vm' + 1) <= more
        BY <4>2, <4>3
      <4>7. room = Room /\ more = Room' /\ vm \in Int /\ reg_main \in Int
             /\ UNCHANGED <<main, reg_main, arg>>
        BY <1>1, <1>2, <1>a, <1>b
      <4>8. room <= more
        BY <4>2
      <4> QED
        BY <2>2, <3>1, <3>4, <4>2, <4>1, <4>4, <4>5, <4>6, <4>7, <4>8, KeyFollows
    <3> QED
      BY <3>3, <3>4
  <2> QED
    BY <1>4, <2>1, <2>2, <2>3
<1>10. ASSUME NEW n \in 0..MaxVfsAlloc, OpenKey(n)
       PROVE  /\ handler' = "line" /\ stage = "idle" /\ main = "ready"
              /\ more >= 0 /\ Following'
  <2> DEFINE size == Column(vm)
             walked == IF size > 0 THEN size ELSE 0
  <2>1. /\ handler' = "line" /\ handler = "none" /\ vm' = vm
        /\ heap_end' = heap_end - size + walked - size + n
        /\ spoilt' = (spoilt \/ stage # "idle" \/ main # "ready")
    BY <1>10 DEF OpenKey, Key, Leaves
  <2>2. stage = "idle" /\ main = "ready"
    BY <1>3, <2>1
  <2>3. size \in Int /\ size <= room /\ n \in Nat
    <3>1. MaxVfsAlloc \in Nat
      BY HeapAssumption
    <3> QED
      BY <1>2, <1>5, <2>1, <2>2, <3>1, ColumnFacts
  <2> HIDE DEF size
  <2>4. more >= 0
    <3>1. CASE size > 0
      BY <1>2, <1>a, <1>b, <2>1, <2>3, <3>1
    <3>2. CASE size <= 0
      BY <1>2, <1>a, <1>b, <1>4, <2>1, <2>3, <3>2
    <3> QED
      BY <2>3, <3>1, <3>2
  <2> QED
    BY <1>2, <1>6, <2>1, <2>2, <2>4
<1>11. ASSUME NEW ch \in Chars, HandlerPrint(ch)
       PROVE  /\ handler' = "text" => more >= Scratch
              /\ handler' = "line" => stage = "idle" /\ main = "ready"
              /\ stage = "idle" => more >= 0 /\ (more >= Cols - 1 \/ Following')
  <2>1. handler # "none" /\ handler' = handler /\ heap_end' = heap_end /\ vm' = Printed(vm, ch)
    BY <1>11 DEF HandlerPrint, Leaves
  <2>2. handler \in {"text", "line"} /\ more = room /\ vm' \in Int
    BY <1>2, <1>a, <1>b, <2>1, PrintedColumn DEF PreemptInv, ControlInv
  <2>3. CASE handler = "text"
    BY <1>2, <1>a, <1>b, <1>3, <2>1, <2>2, <2>3 DEF RowInv
  <2>4. CASE handler = "line"
    <3>1. stage = "idle" /\ main = "ready"
      BY <1>3, <2>4 DEF RowInv
    <3> QED
      BY <1>4, <1>6, <2>1, <2>2, <2>4, <3>1
  <2> QED
    BY <2>2, <2>3, <2>4
<1>12. ASSUME HandlerReturn
       PROVE  /\ handler' = "none"
              /\ stage = "idle" => more >= 0 /\ (more >= Cols - 1 \/ Following')
  <2>1. /\ handler # "none" /\ handler' = "none" /\ heap_end' = heap_end
        /\ vm' = IF handler = "line" THEN Printed(vm, Newline) ELSE vm
    BY <1>12 DEF HandlerReturn, Leaves
  <2>2. handler \in {"text", "line"} /\ more = room
    BY <1>2, <1>a, <1>b, <2>1 DEF PreemptInv, ControlInv
  <2>3. CASE handler = "text"
    BY <1>2, <1>a, <1>b, <1>3, <2>1, <2>2, <2>3 DEF RowInv
  <2>4. CASE handler = "line"
    <3>1. stage = "idle" /\ main = "ready"
      BY <1>3, <2>4 DEF RowInv
    <3>2. vm' \in Int /\ Column(vm') \in Int /\ Column(vm') <= 0
      <4>1. Newline \in Chars
        BY DEF Chars
      <4> QED
        BY <1>2, <2>1, <2>4, <4>1, PrintedColumn, ColumnFacts
    <3> QED
      BY <1>2, <1>4, <1>6, <2>1, <2>2, <3>1, <3>2
  <2> QED
    BY <2>2, <2>3, <2>4
<1> QED
  BY <1>7, <1>8, <1>9, <1>10, <1>11, <1>12 DEF Interrupt

\* The steps of the main thread in the last newline, when the room is shorter than a row.
LEMMA FollowingKept ==
  ASSUME PreemptInv, Following, stage = "idle", handler = "none", handler' = "none",
         NEW room \in Nat, room = Room, room = Room',
         \/ Guard \/ NewlineColumn \/ NewlineLoad \/ NewlineStore
         \/ Increment \/ Wrap \/ Wipe \/ Decrement
  PROVE  Following'
<1>1. /\ vm \in Int /\ vm >= -3 /\ reg_main \in Int
      /\ Row(vm) \in Int /\ (Row(vm) >= Rows <=> vm >= ScreenBytes)
  BY OnScreen DEF PreemptInv, ReachInv
<1>2. CASE Guard
  <2>1. main = "guard" /\ arg.ch = Newline /\ main' \in {"wipe", "nl_column"}
    BY <1>2 DEF Guard, Step, Following
  <2> QED
    BY <2>1 DEF Following
<1>3. CASE NewlineColumn
  <2>1. /\ main' = "nl_load" /\ vm' = vm
        /\ reg_main' = (RowBytes - 2) - Remainder(vm, RowBytes)
    BY <1>3 DEF NewlineColumn, Step, LoadCursor
  <2>2. vm' + reg_main' + 2 = vm + ((RowBytes - 2) - Remainder(vm, RowBytes)) + 2
    BY <2>1
  <2>3. Trail(vm' + reg_main' + 2, room)
    BY <1>1, <2>2, NewlineTrail
  <2> QED
    BY <2>1, <2>3 DEF Following
<1>4. CASE NewlineLoad
  <2>1. main = "nl_load" /\ main' = "nl_store" /\ reg_main' = reg_main + vm
    BY <1>4 DEF NewlineLoad, Step, LoadCursor
  <2>2. Trail(vm + reg_main + 2, room) /\ reg_main' + 2 = vm + reg_main + 2
    BY <1>1, <2>1 DEF Following
  <2>3. Column(reg_main' + 2) <= room
    <3>1. vm + reg_main + 2 \in Int
      BY <1>1
    <3> QED
      BY <2>2, <3>1, TrailColumn
  <2> QED
    BY <2>1, <2>3 DEF Following
<1>5. CASE NewlineStore
  <2>1. main = "nl_store" /\ main' = "inc1" /\ vm' = reg_main
    BY <1>5 DEF NewlineStore, Step, StoreCursor
  <2> QED
    BY <2>1 DEF Following
<1>6. CASE Increment
  <2>1. CASE Step("inc1", "inc1_store") /\ LoadCursor(vm)
    BY <2>1 DEF Step, LoadCursor, Following
  <2>2. CASE Step("inc1_store", "inc2") /\ StoreCursor(reg_main + 1)
    <3>1. main = "inc1_store" /\ main' = "inc2" /\ vm' + 1 = reg_main + 2
      BY <1>1, <2>2 DEF Step, StoreCursor
    <3> QED
      BY <3>1 DEF Following
  <2>3. CASE Step("inc2", "inc2_store") /\ LoadCursor(vm)
    BY <2>3 DEF Step, LoadCursor, Following
  <2>4. CASE Step("inc2_store", "wrap") /\ StoreCursor(reg_main + 1)
    BY <2>4 DEF Step, StoreCursor, Following
  <2> QED
    BY <1>6, <2>1, <2>2, <2>3, <2>4 DEF Increment
<1>7. CASE Wrap
  <2>1. main = "wrap" /\ main' \in {"wipe", "ready"} /\ vm' = vm
    BY <1>7 DEF Wrap, Step
  <2>2. Column(vm) <= room
    BY <2>1 DEF Following
  <2> QED
    BY <2>1, <2>2 DEF Following
<1>8. CASE Wipe
  <2>1. main' \in {"dec1", "ready"} /\ vm' = vm /\ (main' = "ready" => vm <= 0)
    BY <1>1, <1>8 DEF Wipe, Step
  <2>2. vm <= 0 => Column(vm) <= room
    BY <1>1, ColumnFacts
  <2> QED
    BY <2>1, <2>2 DEF Following
<1>9. CASE Decrement
  BY <1>9 DEF Decrement, Step, Following
<1> QED
  BY <1>2, <1>3, <1>4, <1>5, <1>6, <1>7, <1>8, <1>9

LEMMA RowMain ==
  ASSUME PreemptInv, RowInv, MainThread, handler = "none", handler' = "none"
  PROVE  RowInv'
<1>1. /\ heap_end \in Int /\ live_end \in Int
      /\ main = "ready" => main \notin MallocSteps
  BY HeapAssumption DEF PreemptInv, HeapInv, MallocSteps
<1>2. ASSUME NEW ch \in Chars, CallPrint(ch)
      PROVE  RowInv'
  <2>1. /\ main' = "guard" /\ stage # "idle" /\ spoilt' = spoilt
        /\ heap_end' = heap_end /\ live_end' = live_end
        /\ arg' = [arg EXCEPT !.ch = ch]
        /\ stage' = "idle" => ch = Newline
    BY <1>2 DEF CallPrint, heap
  <2>2. arg'.ch = ch
    BY <2>1 DEF PreemptInv, ControlInv
  <2>3. ~spoilt => Room' >= 0
    <3>1. Room' = heap_end' - live_end'
      BY DEF Room
    <3>2. ~spoilt => heap_end >= live_end
      BY <2>1 DEF PreemptInv, HeapInv
    <3> QED
      BY <1>1, <2>1, <3>1, <3>2
  <2>4. stage' = "idle" => Following'
    BY <2>1, <2>2 DEF Following
  <2> QED
    BY <2>1, <2>3, <2>4 DEF RowInv, MallocSteps
<1>3. ASSUME NEW n \in Sizes, CallMalloc(n)
      PROVE  RowInv'
  BY <1>3 DEF CallMalloc, RowInv
<1>4. CASE CallClear
  BY <1>4 DEF CallClear, RowInv
<1>5. CASE (\E path \in Paths : CallParse(path)) \/ Parse
  <2>1. UNCHANGED thread
    BY <1>5 DEF CallParse, Parse
  <2> QED
    BY <2>1 DEF thread, RowInv, Following, Room
<1>6. CASE \/ Guard \/ NewlineColumn \/ NewlineLoad \/ NewlineStore
           \/ Increment \/ Wrap \/ Wipe \/ Decrement
  <2>1. /\ spoilt' = spoilt /\ stage' = stage
        /\ heap_end' = heap_end /\ live_end' = live_end
    BY <1>6 DEF Guard, NewlineColumn, NewlineLoad, NewlineStore, Increment, Wrap, Wipe,
                Decrement, Elsewhere, heap
  <2>2. main' \notin MallocSteps
    BY <1>6 DEF Guard, NewlineColumn, NewlineLoad, NewlineStore, Increment, Wrap, Wipe,
                Decrement, Step, MallocSteps
  <2>3. Room' = Room
    BY <2>1 DEF Room
  <2>4. ASSUME ~spoilt, stage = "idle", ~(Room >= Cols - 1)
        PROVE  Following'
    <3>1. PICK room \in Int : room = heap_end - live_end /\ room = Room
      BY <1>1 DEF Room
    <3>2. room >= 0 /\ Following
      BY <2>4, <3>1 DEF RowInv
    <3>3. room \in Nat /\ room = Room'
      BY <2>3, <3>1, <3>2
    <3> QED
      BY <1>6, <2>4, <3>1, <3>2, <3>3, FollowingKept
  <2> QED
    BY <2>1, <2>2, <2>3, <2>4 DEF RowInv
<1>7. CASE Malloc
  <2>1. main \in MallocSteps /\ stage' = stage
    BY <1>7 DEF Malloc, Step, MallocSteps
  <2>2. stage' # "idle"
    BY <2>1 DEF RowInv
  <2> QED
    BY <2>2 DEF RowInv
<1> QED
  BY <1>2, <1>3, <1>4, <1>5, <1>6, <1>7 DEF MainThread, MainStep

LEMMA RowInvKept == PreemptInv /\ RowInv /\ [Next]_<<pvars, svars>> => RowInv'
<1> SUFFICES ASSUME PreemptInv, RowInv, [Next]_<<pvars, svars>> PROVE RowInv'
  OBVIOUS
<1>1. CASE handler = "none" /\ MainThread /\ UNCHANGED handler
  BY <1>1, RowMain
<1>2. CASE Interrupt
  BY <1>2, RowInterrupt
<1>3. CASE UNCHANGED <<pvars, svars>>
  BY <1>3 DEF pvars, RowInv, Following, Room
<1> QED
  BY <1>1, <1>2, <1>3 DEF Next

\* In the main loop, with no call under way, the row an 'f' would take off the heap lies above
\* every block of the main thread (kernel.c:182,317,356), with three exceptions: 'f' before the
\* loop; and, within the newline that leads to it, an Enter or a wipe between the two reads of
\* the cursor (kernel.c:451), or a wipe just before the step over the last cell (kernel.c:455).
THEOREM RowStaysAboveLive == Spec => []RowAboveLive
<1>1. Init => RowInv
  BY DEF Init, RowInv, MallocSteps
<1>2. PreemptInv /\ RowInv => RowAboveLive
  <2> SUFFICES ASSUME PreemptInv, RowInv, Idle, ~spoilt
               PROVE  heap_end - Column(vm) >= live_end
    BY DEF RowAboveLive
  <2>1. heap_end \in Int /\ live_end \in Int /\ vm \in Int /\ Cols \in Nat
    BY HeapAssumption, ScreenFacts DEF PreemptInv, HeapInv, ReachInv
  <2>2. Room >= Cols - 1 \/ Column(vm) <= Room
    BY DEF RowInv, Idle, Following
  <2> QED
    BY <2>1, <2>2, ColumnFacts DEF Room
<1> QED
  BY <1>1, <1>2, RowInvKept, Invariant, PTL DEF Spec
-----------------------------------------------------------------------------
(* The components of a path.                                                 *)

\* How many of the places in S come before p; p is the n-th of them.
Before(S, p) == Cardinality({j \in S : j < p})
Nth(S, p, n) == p \in S /\ Before(S, p) = n - 1

\* Where strtok stands, which is in the register between load and store; on the path, or away.
Cursor == IF at \in Storing THEN reg ELSE last
Here == Cursor \in Places
Given == Len(components)

Skips == {"skip", "skip_delim", "skip_load", "skip_store", "skipped", "start"}
Scans == {"scan", "scan_delim", "scan_load", "scan_store", "scanned", "cut", "cut_load",
          "cut_store"}
CutSteps == {"cut_load", "cut_store"}
InToken == Scans \cup {"return"}
\* The path goes on at p with a slash, if it does.
AtSlash(p) == p <= Len(buffer) => buffer[p] = Slash

\* Between two components: as many start before strtok's place as parse_path was given, and
\* as many end there, so that the next character that is no slash starts the next one.
SkipInv == at \in Skips /\ Here =>
  /\ Before(Starts, Cursor) = Given
  /\ Cursor <= Len(buffer) =>
       Before(Ends, Cursor) = Given /\ (Cursor > 1 => buffer[Cursor - 1] = Slash)
  /\ at \in {"skip_delim", "skip_load", "skip_store", "start"} => Cursor <= Len(buffer)
  /\ at \in {"skip_load", "skip_store"} => buffer[Cursor] = Slash
  /\ at \in {"skipped", "start"} /\ Cursor <= Len(buffer) => buffer[Cursor] # Slash

\* In a component: it is the next one, strtok's place is in it or at its end, and the end
\* strtok makes is its own.
TokenInv == at \in InToken /\ token_start \in Places => Nth(Starts, token_start, Given + 1)

ScanInv == at \in Scans /\ Here =>
  /\ token_start \in Places /\ token_start <= Cursor
  /\ Cursor > token_start => buffer[Cursor - 1] # Slash
  /\ Before(Starts, Cursor + 1) = Given + 1 /\ Before(Ends, Cursor) = Given
  /\ at \in {"scan_delim", "scan_load", "scan_store", "cut"} \cup CutSteps =>
       Cursor <= Len(buffer)
  /\ at \in {"scan_load", "scan_store"} => buffer[Cursor] # Slash
  /\ at \in {"scanned", "cut"} \cup CutSteps => AtSlash(Cursor)
  /\ at \in CutSteps => cut = Cursor

CutInv == /\ at \in Scans \ CutSteps => cut = 0
          /\ at \in InToken /\ cut # 0 => Nth(Ends, cut, Given + 1)

ReturnInv == at = "return" /\ Here =>
  /\ token_start \in Places
  /\ Before(Starts, Cursor) = Given + 1
  /\ cut # 0 => /\ Cursor = cut + 1 /\ cut <= Len(buffer) /\ buffer[cut] = Slash
                /\ Before(Ends, Cursor) = Given + 1
  /\ cut = 0 => Cursor = Len(buffer) + 1 /\ Nth(Ends, Cursor, Given + 1)

\* What parse_path was given.  After a component that runs on, strtok is off the path for good.
Whole(n) == components[n] # Foreign /\ Nth(Ends, components[n].to, n)
GivenInv == \A n \in DOMAIN components : components[n] # Foreign =>
  /\ Nth(Starts, components[n].from, n)
  /\ Whole(n) \/ /\ components[n].to = Len(buffer) + 1
                 /\ \A m \in DOMAIN components : m > n => components[m] = Foreign
                 /\ ~Here /\ token_start \notin Places

\* No 'f' came in between.
UnmovedInv == ~moved /\ buffer # <<>> =>
  /\ at # "done" => Here
  /\ at \in InToken => token_start \in Places
  /\ \A n \in DOMAIN components : Whole(n)
  /\ at = "done" => \/ Given = Cardinality(Starts)
                    \/ Given = MAX_COMPONENTS /\ Cardinality(Starts) > MAX_COMPONENTS

EmptyInv == /\ at = "out" => buffer = <<>>
            /\ buffer = <<>> => at \in {"out", "done"} /\ components = <<>>

PathInv == /\ SkipInv /\ TokenInv /\ ScanInv /\ CutInv /\ ReturnInv
           /\ GivenInv /\ UnmovedInv /\ EmptyInv

\* Counting the members of a finite set of places.
LEMMA CountType ==
  ASSUME NEW m \in Nat, NEW S \in SUBSET (1..m), NEW p
  PROVE  /\ IsFiniteSet(S) /\ Cardinality(S) \in Nat
         /\ IsFiniteSet({j \in S : j < p}) /\ Before(S, p) \in Nat
         /\ Before(S, p) <= Cardinality(S)
<1>1. IsFiniteSet(1..m)
  BY FS_Interval
<1>2. IsFiniteSet(S)
  BY <1>1, FS_Subset
<1>3. {j \in S : j < p} \in SUBSET S
  OBVIOUS
<1> QED
  BY <1>2, <1>3, FS_Subset, FS_CardinalityType DEF Before

LEMMA CountNext ==
  ASSUME NEW m \in Nat, NEW S \in SUBSET (1..m), NEW p \in Int, NEW q, q = p + 1
  PROVE  /\ p \in S => Before(S, q) = Before(S, p) + 1
         /\ p \notin S => Before(S, q) = Before(S, p)
<1> DEFINE B == {j \in S : j < p}
           C == {j \in S : j < q}
<1>0. \A j \in S : j < q <=> j < p \/ j = p
  <2>1. \A j \in S : j \in Int
    OBVIOUS
  <2> QED
    BY <2>1
<1>1. IsFiniteSet(B)
  BY CountType
<1>2. ASSUME p \in S
      PROVE  Before(S, q) = Before(S, p) + 1
  <2>1. C = B \cup {p} /\ p \notin B
    <3>1. ~(p < p)
      OBVIOUS
    <3> QED
      BY <1>0, <1>2, <3>1, Zenon
  <2>2. Cardinality(B \cup {p}) = Cardinality(B) + 1
    <3> HIDE DEF B
    <3> QED
      BY <1>1, <2>1, FS_AddElement
  <2> QED
    BY <2>1, <2>2 DEF Before
<1>3. ASSUME p \notin S
      PROVE  Before(S, q) = Before(S, p)
  <2>1. C = B
    BY <1>0, <1>3, Zenon
  <2> QED
    BY <2>1 DEF Before
<1> QED
  BY <1>2, <1>3

LEMMA CountLess ==
  ASSUME NEW m \in Nat, NEW S \in SUBSET (1..m), NEW p \in S, NEW q \in Int, p < q
  PROVE  Before(S, p) < Before(S, q)
<1>0. p \in Int /\ \A j \in S : j \in Int
  OBVIOUS
<1> DEFINE r == p + 1
           D == {j \in S : j < r}
           E == {j \in S : j < q}
<1>1. Before(S, r) = Before(S, p) + 1 /\ Before(S, p) \in Nat
  <2>1. r = p + 1 /\ p \in S
    OBVIOUS
  <2> HIDE DEF r
  <2>2. Before(S, r) = Before(S, p) + 1
    BY <1>0, <2>1, CountNext
  <2> QED
    BY <2>2, CountType
<1>2. D \in SUBSET E /\ IsFiniteSet(E) /\ IsFiniteSet(D)
  <2>1. D \in SUBSET E
    <3>1. \A j \in S : j < r => j < q
      BY <1>0
    <3> QED
      BY <3>1, Zenon
  <2>2. IsFiniteSet(E) /\ IsFiniteSet(D)
    BY CountType
  <2> QED
    BY <2>1, <2>2
<1>3. Cardinality(D) <= Cardinality(E) /\ Cardinality(D) = Before(S, r)
      /\ Cardinality(E) = Before(S, q) /\ Cardinality(E) \in Nat
  <2>1. Cardinality(D) = Before(S, r) /\ Cardinality(E) = Before(S, q)
    BY DEF Before
  <2> HIDE DEF D, E
  <2> QED
    BY <1>2, <2>1, FS_Subset, FS_CardinalityType
<1> QED
  BY <1>1, <1>3

LEMMA NthUnique ==
  ASSUME NEW m \in Nat, NEW S \in SUBSET (1..m), NEW p, NEW q, NEW n,
         Nth(S, p, n), Nth(S, q, n)
  PROVE  p = q
<1>1. p \in S /\ q \in S /\ p \in Int /\ q \in Int /\ Before(S, p) = Before(S, q)
  BY DEF Nth
<1>2. Before(S, p) \in Nat /\ Before(S, q) \in Nat
  BY CountType
<1>3. ~(p < q)
  BY <1>1, <1>2, CountLess
<1>4. ~(q < p)
  <2>1. q < p => Before(S, q) < Before(S, p)
    BY <1>1, CountLess
  <2> QED
    BY <1>1, <1>2, <2>1
<1> QED
  BY <1>1, <1>3, <1>4

\* The n-th of a set makes it have n members.
LEMMA NthFits ==
  ASSUME NEW m \in Nat, NEW S \in SUBSET (1..m), NEW p, NEW n \in Nat, Nth(S, p, n)
  PROVE  n <= Cardinality(S)
<1>1. p \in S /\ p \in Int /\ Before(S, p) = n - 1
  BY DEF Nth
<1> DEFINE r == p + 1
<1>2. r = p + 1
  OBVIOUS
<1> HIDE DEF r
<1>3. Before(S, r) = Before(S, p) + 1
  BY <1>1, <1>2, CountNext
<1>4. Before(S, r) = n
  BY <1>1, <1>3
<1> QED
  BY <1>4, CountType

LEMMA CountAll ==
  ASSUME NEW m \in Nat, NEW S \in SUBSET (1..m), NEW p \in Int, p > m
  PROVE  Before(S, p) = Cardinality(S)
<1>1. \A j \in S : j \in Int /\ j <= m
  OBVIOUS
<1>2. \A j \in S : j < p
  BY <1>1
<1>3. {j \in S : j < p} = S
  BY <1>2, Zenon
<1> QED
  BY <1>3 DEF Before

\* Where components start and end, in a path.
LEMMA PathSets ==
  ASSUME StrtokInv
  PROVE  /\ Len(buffer) \in Nat /\ Given \in Nat /\ MAX_COMPONENTS \in Nat
         /\ \A i \in 1..Len(buffer) : buffer[i] \in {Slash, Letter}
         /\ Starts \in SUBSET (1..Len(buffer)) /\ Ends \in SUBSET (1..(Len(buffer) + 1))
         /\ \A k : k \in Starts <=> /\ k \in 1..Len(buffer) /\ buffer[k] # Slash
                                    /\ k > 1 => buffer[k - 1] = Slash
         /\ \A k : k \in Ends <=> /\ k \in 2..(Len(buffer) + 1) /\ buffer[k - 1] # Slash
                                  /\ AtSlash(k)
<1>1. /\ Len(buffer) \in Nat /\ Given \in Nat /\ DOMAIN buffer = 1..Len(buffer)
      /\ MAX_COMPONENTS \in Nat /\ \A i \in 1..Len(buffer) : buffer[i] \in {Slash, Letter}
  BY PathAssumption DEF StrtokInv, STypeOK, Given
<1> QED
  BY <1>1 DEF Starts, Ends, AtSlash

LEMMA StartsNext ==
  ASSUME StrtokInv, NEW p \in Int
  PROVE  Before(Starts, p + 1) = IF p \in Starts THEN Before(Starts, p) + 1 ELSE Before(Starts, p)
<1>1. Len(buffer) \in Nat /\ Starts \in SUBSET (1..Len(buffer))
  BY PathSets
<1>2. PICK q \in Int : q = p + 1
  OBVIOUS
<1>3. /\ p \in Starts => Before(Starts, q) = Before(Starts, p) + 1
      /\ p \notin Starts => Before(Starts, q) = Before(Starts, p)
  BY <1>1, <1>2, CountNext
<1> QED
  BY <1>2, <1>3

LEMMA EndsNext ==
  ASSUME StrtokInv, NEW p \in Int
  PROVE  Before(Ends, p + 1) = IF p \in Ends THEN Before(Ends, p) + 1 ELSE Before(Ends, p)
<1>1. Len(buffer) + 1 \in Nat /\ Ends \in SUBSET (1..(Len(buffer) + 1))
  BY PathSets
<1>2. PICK q \in Int : q = p + 1
  OBVIOUS
<1>3. /\ p \in Ends => Before(Ends, q) = Before(Ends, p) + 1
      /\ p \notin Ends => Before(Ends, q) = Before(Ends, p)
  BY <1>1, <1>2, CountNext
<1> QED
  BY <1>2, <1>3

LEMMA NthStart ==
  ASSUME StrtokInv, NEW p, NEW n, Nth(Starts, p, n)
  PROVE  StartOf(n) = p
<1>1. \A k \in Starts : Cardinality({j \in Starts : j < k}) = n - 1 <=> k = p
  <2>1. Len(buffer) \in Nat /\ Starts \in SUBSET (1..Len(buffer))
    BY PathSets
  <2>2. \A k \in Starts : Before(Starts, k) = n - 1 <=> k = p
    BY <2>1, NthUnique DEF Nth
  <2> QED
    BY <2>2 DEF Before
<1>2. p \in Starts
  BY DEF Nth
<1> QED
  BY <1>1, <1>2, Zenon DEF StartOf

LEMMA NthEnd ==
  ASSUME StrtokInv, NEW p, NEW n, Nth(Ends, p, n)
  PROVE  EndOf(n) = p
<1>1. \A k \in Ends : Cardinality({j \in Ends : j < k}) = n - 1 <=> k = p
  <2>1. Len(buffer) + 1 \in Nat /\ Ends \in SUBSET (1..(Len(buffer) + 1))
    BY PathSets
  <2>2. \A k \in Ends : Before(Ends, k) = n - 1 <=> k = p
    BY <2>1, NthUnique DEF Nth
  <2> QED
    BY <2>2 DEF Before
<1>2. p \in Ends
  BY DEF Nth
<1> QED
  BY <1>1, <1>2, Zenon DEF EndOf

\* What depends on the path alone.
LEMMA PathFrame ==
  ASSUME buffer' = buffer
  PROVE  Starts' = Starts /\ Ends' = Ends /\ Places' = Places
  BY DEF Starts, Ends, Places

\* A step that leaves strtok where it stands, or takes its place off the path.
LEMMA PathSame ==
  ASSUME PathInv, UNCHANGED <<buffer, at, token_start, cut, components>>,
         Cursor' = Cursor \/ (~Here' /\ moved'), moved => moved'
  PROVE  PathInv'
<1> USE DEF PathInv
<1>1. Starts' = Starts /\ Ends' = Ends /\ Places' = Places /\ Given' = Given
  BY PathFrame DEF Given
<1>2. Here' => Here /\ Cursor' = Cursor
  BY <1>1 DEF Here
<1>3. SkipInv'
  BY <1>1, <1>2 DEF SkipInv
<1>4. TokenInv' /\ CutInv' /\ EmptyInv'
  BY <1>1 DEF TokenInv, CutInv, EmptyInv, Nth
<1>5. ScanInv'
  BY <1>1, <1>2 DEF ScanInv, AtSlash
<1>6. ReturnInv'
  BY <1>1, <1>2 DEF ReturnInv, Nth
<1>7. GivenInv'
  BY <1>1, <1>2 DEF GivenInv, Whole, Nth
<1>8. UnmovedInv'
  <2>1. ~moved' => ~moved /\ Cursor' = Cursor
    OBVIOUS
  <2>2. Cursor' = Cursor => (Here' <=> Here)
    BY <1>1 DEF Here
  <2> QED
    BY <1>1, <2>1, <2>2 DEF UnmovedInv, Whole, Nth
<1> QED
  BY <1>3, <1>4, <1>5, <1>6, <1>7, <1>8

\* The handler's own path takes strtok off parse_path's, but between a load and its store.
LEMMA PathHandler ==
  ASSUME StrtokInv, PathInv, HandlerParse
  PROVE  PathInv'
<1>1. /\ last' \in {last, HandlersEnd, Stray}
      /\ UNCHANGED <<buffer, at, reg, token_start, cut, components>>
  BY DEF HandlerParse
<1>2. moved' \in BOOLEAN /\ (moved => moved') /\ (last' # last => moved')
  BY DEF HandlerParse, StrtokInv, STypeOK
<1>3. Cursor' = Cursor \/ (~Here' /\ moved')
  <2>1. CASE at \in Storing \/ last' = last
    BY <1>1, <2>1 DEF Cursor
  <2>2. CASE at \notin Storing /\ last' # last
    <3>1. Cursor' \in {HandlersEnd, Stray}
      BY <1>1, <2>2 DEF Cursor
    <3>2. Len(buffer') \in Nat
      BY <1>1, PathSets
    <3> QED
      BY <1>2, <2>2, <3>1, <3>2 DEF Here, Places, HandlersEnd, Stray
  <2> QED
    BY <2>1, <2>2
<1> QED
  BY <1>1, <1>2, <1>3, PathSame

\* The characters strtok may read, on the path.
LEMMA ReadsHere ==
  ASSUME StrtokInv, last \in Places, NEW c \in Reads(last)
  PROVE  /\ last \in 1..(Len(buffer) + 1)
         /\ last <= Len(buffer) => c = buffer[last] /\ c \in {Slash, Letter}
         /\ last > Len(buffer) => c = NUL /\ last = Len(buffer) + 1
<1>1. Len(buffer) \in Nat /\ \A i \in 1..Len(buffer) : buffer[i] \in {Slash, Letter}
  BY PathSets
<1> QED
  BY <1>1 DEF Reads, Places, Stray

\* A condition of its loops.
LEMMA PathTest ==
  ASSUME StrtokInv, PathInv,
         \/ Test("skip", IsNUL, "skipped", "skip_delim")
         \/ Test("skip_delim", IsDelim, "skip_load", "skipped")
         \/ Test("skipped", NotNUL, "start", "done")
         \/ Test("scan", IsNUL, "scanned", "scan_delim")
         \/ Test("scan_delim", IsDelim, "scanned", "scan_load")
         \/ Test("scanned", NotNUL, "cut", "return")
  PROVE  PathInv'
<1> USE DEF PathInv
<1>1. UNCHANGED <<last, buffer, reg, token_start, cut, components, moved>>
  BY DEF Test
<1>2. /\ Starts' = Starts /\ Ends' = Ends /\ Places' = Places /\ Given' = Given
      /\ Len(buffer) \in Nat /\ Given \in Nat
  BY <1>1, PathFrame, PathSets DEF Given
<1>3. PICK c \in Reads(last) :
        \/ at = "skip" /\ at' = IF c = NUL THEN "skipped" ELSE "skip_delim"
        \/ at = "skip_delim" /\ at' = IF c # Letter THEN "skip_load" ELSE "skipped"
        \/ at = "skipped" /\ at' = IF c # NUL THEN "start" ELSE "done"
        \/ at = "scan" /\ at' = IF c = NUL THEN "scanned" ELSE "scan_delim"
        \/ at = "scan_delim" /\ at' = IF c # Letter THEN "scanned" ELSE "scan_load"
        \/ at = "scanned" /\ at' = IF c # NUL THEN "cut" ELSE "return"
  BY DEF Test, Goto, IsNUL, NotNUL, IsDelim
<1>4. Cursor = last /\ Cursor' = last /\ (Here' <=> Here) /\ (Here <=> last \in Places)
  BY <1>1, <1>2, <1>3 DEF Cursor, Here, Storing
<1>5. Here => /\ last \in 1..(Len(buffer) + 1)
              /\ last <= Len(buffer) => c = buffer[last] /\ c \in {Slash, Letter}
              /\ last > Len(buffer) => c = NUL /\ last = Len(buffer) + 1
  BY <1>4, ReadsHere
<1>6. Slash # Letter /\ Slash # NUL /\ Letter # NUL
  BY PathAssumption
<1>7. Starts \in SUBSET (1..Len(buffer))
  BY PathSets
<1>8. SkipInv'
  BY <1>1, <1>2, <1>3, <1>4, <1>5, <1>6 DEF SkipInv, Skips
<1>9. TokenInv'
  BY <1>1, <1>2, <1>3 DEF TokenInv, Nth, InToken, Scans
<1>10. ScanInv'
  BY <1>1, <1>2, <1>3, <1>4, <1>5, <1>6 DEF ScanInv, Scans, CutSteps, AtSlash
<1>11. CutInv'
  BY <1>1, <1>2, <1>3 DEF CutInv, Nth, InToken, Scans, CutSteps
<1>12. ReturnInv'
  <2> SUFFICES ASSUME at' = "return", Here'
               PROVE  ReturnInv'
    BY DEF ReturnInv
  <2>1. at = "scanned" /\ c = NUL /\ last = Len(buffer) + 1 /\ cut = 0
    BY <1>3, <1>4, <1>5, <1>6 DEF CutInv, Scans, CutSteps
  <2>2. /\ token_start \in Places /\ token_start <= last
        /\ last > token_start => buffer[last - 1] # Slash
        /\ Before(Starts, last + 1) = Given + 1 /\ Before(Ends, last) = Given
    BY <1>4, <2>1 DEF ScanInv, Scans
  <2>3. token_start \in Starts /\ last \notin Starts
    BY <2>1, <2>2, PathSets DEF TokenInv, InToken, Scans, Nth
  <2>4. last > token_start /\ last \in Ends
    BY <1>2, <2>1, <2>2, <2>3, PathSets DEF AtSlash
  <2>5. Before(Starts, last) = Given + 1
    <3>1. last \in Int /\ last + 1 \in Int
      BY <1>2, <2>1
    <3>2. Before(Starts, last + 1) = Before(Starts, last)
      BY <2>3, <3>1, StartsNext
    <3> QED
      BY <2>2, <3>2
  <2> QED
    BY <1>1, <1>2, <1>4, <2>1, <2>2, <2>4, <2>5 DEF ReturnInv, Nth
<1>13. GivenInv'
  BY <1>1, <1>2, <1>4 DEF GivenInv, Whole, Nth
<1>14. EmptyInv'
  BY <1>1, <1>3 DEF EmptyInv
<1>15. UnmovedInv'
  <2> SUFFICES ASSUME ~moved, buffer # <<>>
               PROVE  UnmovedInv'
    BY <1>1 DEF UnmovedInv
  <2>1. Here /\ \A n \in DOMAIN components : Whole(n)
    BY <1>3 DEF UnmovedInv
  <2>2. at' \in InToken => token_start \in Places
    BY <1>3 DEF UnmovedInv, InToken, Scans
  <2>3. at' = "done" => Given = Cardinality(Starts)
    <3> SUFFICES ASSUME at' = "done"
                 PROVE  Given = Cardinality(Starts)
      OBVIOUS
    <3>1. at = "skipped" /\ last = Len(buffer) + 1
      BY <1>3, <1>4, <1>5, <1>6, <2>1
    <3>2. Before(Starts, last) = Given
      BY <1>4, <2>1, <3>1 DEF SkipInv, Skips
    <3> QED
      BY <1>2, <1>7, <3>1, <3>2, CountAll
  <2> QED
    BY <1>1, <1>2, <1>4, <2>1, <2>2, <2>3 DEF UnmovedInv, Whole, Nth
<1> QED
  BY <1>8, <1>9, <1>10, <1>11, <1>12, <1>13, <1>14, <1>15

\* last++: its load and its store.
LEMMA PathLoad ==
  ASSUME StrtokInv, PathInv,
         \/ Load("skip_load", "skip_store")
         \/ Load("scan_load", "scan_store")
         \/ Load("cut_load", "cut_store")
  PROVE  PathInv'
<1> USE DEF PathInv
<1>1. reg' = last /\ UNCHANGED <<last, buffer, token_start, cut, components, moved>>
  BY DEF Load
<1>2. Starts' = Starts /\ Ends' = Ends /\ Places' = Places /\ Given' = Given
  BY <1>1, PathFrame DEF Given
<1>3. \/ at = "skip_load" /\ at' = "skip_store"
      \/ at = "scan_load" /\ at' = "scan_store"
      \/ at = "cut_load" /\ at' = "cut_store"
  BY DEF Load, Goto
<1>4. Cursor' = Cursor /\ (Here' <=> Here)
  BY <1>1, <1>2, <1>3 DEF Cursor, Here, Storing
<1>5. SkipInv'
  BY <1>1, <1>2, <1>3, <1>4 DEF SkipInv, Skips
<1>6. TokenInv' /\ CutInv' /\ EmptyInv' /\ ReturnInv'
  BY <1>1, <1>2, <1>3 DEF TokenInv, CutInv, EmptyInv, ReturnInv, Nth, InToken, Scans, CutSteps
<1>7. ScanInv'
  BY <1>1, <1>2, <1>3, <1>4 DEF ScanInv, Scans, CutSteps, AtSlash
<1>8. GivenInv'
  BY <1>1, <1>2, <1>4 DEF GivenInv, Whole, Nth
<1>9. UnmovedInv'
  BY <1>1, <1>2, <1>3, <1>4 DEF UnmovedInv, Whole, Nth, InToken, Scans
<1> QED
  BY <1>5, <1>6, <1>7, <1>8, <1>9

LEMMA PathStore ==
  ASSUME StrtokInv, PathInv,
         \/ Store("skip_store", "skip")
         \/ Store("scan_store", "scan")
         \/ Store("cut_store", "return")
  PROVE  PathInv'
<1> USE DEF PathInv
<1>1. last' = After(reg) /\ UNCHANGED <<buffer, token_start, cut, components, moved>>
  BY DEF Store
<1>2. /\ Starts' = Starts /\ Ends' = Ends /\ Places' = Places /\ Given' = Given
      /\ Len(buffer) \in Nat /\ Given \in Nat
  BY <1>1, PathFrame, PathSets DEF Given
<1>3. \/ at = "skip_store" /\ at' = "skip"
      \/ at = "scan_store" /\ at' = "scan"
      \/ at = "cut_store" /\ at' = "return"
  BY DEF Store, Goto
<1>4. Cursor = reg /\ Cursor' = After(reg) /\ Inside(reg)
  BY <1>1, <1>3 DEF Cursor, Storing, StrtokInv
<1>5. /\ Here' => Here
      /\ Here => Here' /\ reg \in 1..Len(buffer) /\ After(reg) = reg + 1
  BY <1>2, <1>4 DEF Here, Places, After, Inside, HandlersEnd, Stray
<1>6. Here => reg \in Int /\ reg + 1 \in Int /\ reg + 1 - 1 = reg /\ (reg + 1) + 1 \in Int
  BY <1>5
<1>7. SkipInv'
  <2> SUFFICES ASSUME at' \in Skips, Here'
               PROVE  SkipInv'
    BY DEF SkipInv
  <2>1. at = "skip_store" /\ at' = "skip" /\ Here
    BY <1>3, <1>5 DEF Skips
  <2>2. /\ Before(Starts, reg) = Given /\ Before(Ends, reg) = Given
        /\ reg > 1 => buffer[reg - 1] = Slash
        /\ buffer[reg] = Slash
    BY <1>4, <1>5, <2>1 DEF SkipInv, Skips
  <2>3. reg \notin Starts /\ reg \notin Ends
    BY <1>2, <1>5, <2>1, <2>2, PathSets
  <2>4. Before(Starts, reg + 1) = Given
    BY <1>6, <2>1, <2>2, <2>3, StartsNext
  <2>5. Before(Ends, reg + 1) = Given
    BY <1>6, <2>1, <2>2, <2>3, EndsNext
  <2> QED
    BY <1>1, <1>2, <1>4, <1>5, <1>6, <2>1, <2>2, <2>4, <2>5 DEF SkipInv
<1>8. TokenInv' /\ CutInv' /\ EmptyInv'
  BY <1>1, <1>2, <1>3 DEF TokenInv, CutInv, EmptyInv, Nth, InToken, Scans, CutSteps
<1>9. ScanInv'
  <2> SUFFICES ASSUME at' \in Scans, Here'
               PROVE  ScanInv'
    BY DEF ScanInv
  <2>1. at = "scan_store" /\ at' = "scan" /\ Here
    BY <1>3, <1>5 DEF Scans
  <2>2. /\ token_start \in Places /\ token_start <= reg /\ buffer[reg] # Slash
        /\ Before(Starts, reg + 1) = Given + 1 /\ Before(Ends, reg) = Given
    BY <1>4, <2>1 DEF ScanInv, Scans
  <2>3. reg + 1 \notin Starts /\ reg \notin Ends
    <3>1. reg + 1 > 1 /\ buffer[(reg + 1) - 1] # Slash /\ reg \in 1..Len(buffer)
      BY <1>2, <1>5, <1>6, <2>1, <2>2
    <3>2. reg \notin Ends
      BY <1>2, <2>2, <3>1, PathSets DEF AtSlash
    <3>3. reg + 1 \notin Starts
      BY <3>1, PathSets
    <3> QED
      BY <3>2, <3>3
  <2>4. Before(Starts, (reg + 1) + 1) = Given + 1
    <3>1. PICK next \in Int : next = reg + 1
      BY <1>6, <2>1
    <3>2. Before(Starts, next + 1) = Before(Starts, next)
      BY <2>3, <3>1, StartsNext
    <3> QED
      BY <2>2, <3>1, <3>2
  <2>5. Before(Ends, reg + 1) = Given
    BY <1>6, <2>1, <2>2, <2>3, EndsNext
  <2>6. token_start <= reg + 1 /\ token_start \in Int
    BY <1>6, <2>1, <2>2 DEF Places
  <2> QED
    BY <1>1, <1>2, <1>4, <1>5, <1>6, <2>1, <2>2, <2>4, <2>5, <2>6 DEF ScanInv, CutSteps
<1>10. ReturnInv'
  <2> SUFFICES ASSUME at' = "return", Here'
               PROVE  ReturnInv'
    BY DEF ReturnInv
  <2>1. at = "cut_store" /\ Here
    BY <1>3, <1>5
  <2>2. /\ token_start \in Places /\ cut = reg /\ buffer[reg] = Slash
        /\ Before(Starts, reg + 1) = Given + 1
    BY <1>4, <1>5, <2>1 DEF ScanInv, Scans, CutSteps, AtSlash
  <2>3. Nth(Ends, reg, Given + 1) /\ cut # 0
    BY <1>5, <2>1, <2>2 DEF CutInv, InToken, Scans
  <2>4. Before(Ends, reg + 1) = Given + 1
    <3>1. reg \in Ends /\ Before(Ends, reg) = Given
      BY <1>2, <2>3 DEF Nth
    <3> QED
      BY <1>6, <2>1, <3>1, EndsNext
  <2> QED
    BY <1>1, <1>2, <1>4, <1>5, <2>1, <2>2, <2>3, <2>4 DEF ReturnInv
<1>11. GivenInv'
  BY <1>1, <1>2, <1>5 DEF GivenInv, Whole, Nth
<1>12. UnmovedInv'
  BY <1>1, <1>2, <1>3, <1>5 DEF UnmovedInv, Whole, Nth, InToken, Scans
<1> QED
  BY <1>7, <1>8, <1>9, <1>10, <1>11, <1>12

LEMMA PathTokenStart ==
  ASSUME StrtokInv, PathInv, TokenStart
  PROVE  PathInv'
<1> USE DEF PathInv
<1>1. /\ at = "start" /\ at' = "scan" /\ token_start' = last /\ cut' = 0
      /\ UNCHANGED <<last, buffer, reg, components, moved>>
  BY DEF TokenStart, Goto
<1>2. /\ Starts' = Starts /\ Ends' = Ends /\ Places' = Places /\ Given' = Given
      /\ Len(buffer) \in Nat /\ Given \in Nat
  BY <1>1, PathFrame, PathSets DEF Given
<1>3. Cursor = last /\ Cursor' = last /\ (Here' <=> Here) /\ (Here <=> last \in Places)
  BY <1>1, <1>2 DEF Cursor, Here, Storing
<1>4. Here => /\ last \in 1..Len(buffer) /\ last \in Int /\ last + 1 \in Int
              /\ last \in Starts /\ last \notin Ends
              /\ Before(Starts, last) = Given /\ Before(Ends, last) = Given
  <2> SUFFICES ASSUME Here
               PROVE  /\ last \in 1..Len(buffer) /\ last \in Int /\ last + 1 \in Int
                      /\ last \in Starts /\ last \notin Ends
                      /\ Before(Starts, last) = Given /\ Before(Ends, last) = Given
    OBVIOUS
  <2>1. /\ Before(Starts, last) = Given /\ Before(Ends, last) = Given
        /\ last <= Len(buffer) /\ buffer[last] # Slash
        /\ last > 1 => buffer[last - 1] = Slash
    BY <1>1, <1>3 DEF SkipInv, Skips
  <2>2. last \in 1..Len(buffer) /\ last \in Int /\ last + 1 \in Int
    BY <1>2, <1>3, <2>1 DEF Places
  <2>3. last \in Starts /\ last \notin Ends
    BY <2>1, <2>2, PathSets DEF AtSlash
  <2> QED
    BY <2>1, <2>2, <2>3
<1>5. Here => Before(Starts, last + 1) = Given + 1
  BY <1>4, StartsNext
<1>6. SkipInv' /\ EmptyInv' /\ ReturnInv' /\ CutInv'
  BY <1>1 DEF SkipInv, EmptyInv, ReturnInv, CutInv, Skips, InToken, Scans, CutSteps
<1>7. TokenInv'
  BY <1>1, <1>2, <1>3, <1>4 DEF TokenInv, Nth
<1>8. ScanInv'
  BY <1>1, <1>2, <1>3, <1>4, <1>5 DEF ScanInv, CutSteps
<1>9. GivenInv'
  BY <1>1, <1>2, <1>3 DEF GivenInv, Whole, Nth
<1>10. UnmovedInv'
  BY <1>1, <1>2, <1>3 DEF UnmovedInv, Whole, Nth
<1> QED
  BY <1>6, <1>7, <1>8, <1>9, <1>10

LEMMA PathCut ==
  ASSUME StrtokInv, PathInv, Cut
  PROVE  PathInv'
<1> USE DEF PathInv
<1>1. /\ at = "cut" /\ at' = "cut_load" /\ cut' = IF last \in Places THEN last ELSE 0
      /\ UNCHANGED <<last, buffer, reg, token_start, components, moved>>
  BY DEF Cut, Goto
<1>2. /\ Starts' = Starts /\ Ends' = Ends /\ Places' = Places /\ Given' = Given
      /\ Len(buffer) \in Nat /\ Given \in Nat
  BY <1>1, PathFrame, PathSets DEF Given
<1>3. Cursor = last /\ Cursor' = last /\ (Here' <=> Here) /\ (Here <=> last \in Places)
  BY <1>1, <1>2 DEF Cursor, Here, Storing
<1>4. SkipInv' /\ EmptyInv' /\ ReturnInv'
  BY <1>1 DEF SkipInv, EmptyInv, ReturnInv, Skips
<1>5. TokenInv'
  BY <1>1, <1>2 DEF TokenInv, Nth, InToken, Scans
<1>6. ScanInv'
  BY <1>1, <1>2, <1>3 DEF ScanInv, Scans, CutSteps, AtSlash
<1>7. CutInv'
  <2> SUFFICES ASSUME Here
               PROVE  Nth(Ends, last, Given + 1)
    BY <1>1, <1>2, <1>3 DEF CutInv, Nth, Scans, CutSteps
  <2>1. /\ token_start \in Places /\ token_start <= last
        /\ last > token_start => buffer[last - 1] # Slash
        /\ Before(Ends, last) = Given /\ last <= Len(buffer) /\ AtSlash(last)
    BY <1>1, <1>3 DEF ScanInv, Scans
  <2>2. token_start \in Starts
    BY <1>1, <2>1 DEF TokenInv, InToken, Scans, Nth
  <2>3. token_start \in 1..Len(buffer) /\ buffer[token_start] # Slash
    BY <2>2, PathSets
  <2>4. last # token_start /\ last \in Int
    BY <1>2, <1>3, <2>1, <2>3 DEF AtSlash, Places
  <2>5. last \in Ends
    BY <1>2, <2>1, <2>3, <2>4, PathSets
  <2> QED
    BY <1>2, <2>1, <2>5 DEF Nth
<1>8. GivenInv'
  BY <1>1, <1>2, <1>3 DEF GivenInv, Whole, Nth
<1>9. UnmovedInv'
  BY <1>1, <1>2, <1>3 DEF UnmovedInv, Whole, Nth, InToken, Scans
<1> QED
  BY <1>4, <1>5, <1>6, <1>7, <1>8, <1>9

\* parse_path takes the token: one more component.
LEMMA PathReturn ==
  ASSUME StrtokInv, PathInv, Return
  PROVE  PathInv'
<1> USE DEF PathInv
<1>1. /\ at = "return" /\ token_start' = HandlersEnd /\ cut' = 0
      /\ UNCHANGED <<last, buffer, reg, moved>>
  BY DEF Return
<1>2. /\ Starts' = Starts /\ Ends' = Ends /\ Places' = Places
      /\ Len(buffer) \in Nat /\ Given \in Nat /\ MAX_COMPONENTS \in Nat
      /\ components \in Seq(Component) /\ Given <= MAX_COMPONENTS
      /\ Starts \in SUBSET (1..Len(buffer))
  BY <1>1, PathFrame, PathSets DEF Given, StrtokInv, STypeOK, Component
<1>3. Cursor = last
  BY <1>1 DEF Cursor, Storing
<1>4. token_start' \notin Places /\ Stray \notin Places /\ HandlersEnd \notin Places
  BY <1>1, <1>2 DEF Places, HandlersEnd, Stray
<1>5. ASSUME Given = MAX_COMPONENTS
      PROVE  PathInv'
  <2>1. at' = "done" /\ components' = components
    BY <1>5 DEF Return, Goto, Given
  <2>2. (Here' <=> Here) /\ Given' = Given
    BY <1>1, <1>2, <1>3, <2>1 DEF Here, Cursor, Storing, Given
  <2>3. GivenInv'
    BY <1>1, <1>2, <1>4, <2>1, <2>2 DEF GivenInv, Whole, Nth
  <2>4. UnmovedInv'
    <3> SUFFICES ASSUME ~moved, buffer # <<>>
                 PROVE  UnmovedInv'
      BY <1>1 DEF UnmovedInv
    <3>1. token_start \in Places /\ \A n \in DOMAIN components : Whole(n)
      BY <1>1 DEF UnmovedInv, InToken
    <3>2. Given + 1 <= Cardinality(Starts)
      <4>1. Nth(Starts, token_start, Given + 1) /\ Given + 1 \in Nat
        BY <1>1, <1>2, <3>1 DEF TokenInv, InToken
      <4> QED
        BY <1>2, <4>1, NthFits
    <3>3. Cardinality(Starts) \in Nat
      BY <1>2, CountType
    <3>4. Cardinality(Starts) > MAX_COMPONENTS
      BY <1>2, <1>5, <3>2, <3>3
    <3> QED
      BY <1>1, <1>2, <1>5, <2>1, <2>2, <3>1, <3>4 DEF UnmovedInv, Whole, Nth, InToken, Scans
  <2>5. SkipInv' /\ TokenInv' /\ ScanInv' /\ CutInv' /\ ReturnInv' /\ EmptyInv'
    BY <1>1, <2>1 DEF SkipInv, TokenInv, ScanInv, CutInv, ReturnInv, EmptyInv, Skips, InToken,
                      Scans, CutSteps
  <2> QED
    BY <2>3, <2>4, <2>5
<1>6. ASSUME Given # MAX_COMPONENTS
      PROVE  PathInv'
  <2> DEFINE c == IF token_start \in Places
                  THEN [from |-> token_start, to |-> IF cut = 0 THEN Len(buffer) + 1 ELSE cut]
                  ELSE Foreign
  <2>1. at' = "skip" /\ components' = Append(components, c)
    BY <1>6 DEF Return, Goto, Given
  <2>2. (Here' <=> Here) /\ Cursor' = last /\ buffer # <<>>
    BY <1>1, <1>2, <1>3, <2>1 DEF Here, Cursor, Storing, EmptyInv
  <2>3. /\ c.from \in Places <=> token_start \in Places
        /\ c # Foreign => /\ token_start \in Places /\ c.from = token_start
                          /\ c.to = IF cut = 0 THEN Len(buffer) + 1 ELSE cut
        /\ token_start \in Places => c # Foreign
    BY <1>4 DEF Foreign
  <2> HIDE DEF c
  <2>4. PICK k \in Nat : k = Given /\ k = Len(components) /\ k + 1 \in Nat
    BY <1>2 DEF Given
  <2>5. /\ Given' = k + 1 /\ DOMAIN components = 1..k /\ DOMAIN components' = 1..(k + 1)
        /\ components'[k + 1] = c /\ \A n \in 1..k : components'[n] = components[n]
    BY <1>2, <2>1, <2>4 DEF Given
  <2>6. \A n \in 1..(k + 1) : n \in 1..k \/ n = k + 1
    BY <2>4
  <2>7. token_start \in Places => Nth(Starts, token_start, k + 1)
    BY <1>1, <2>4 DEF TokenInv, InToken
  <2>8. Here => /\ token_start \in Places /\ c # Foreign /\ Nth(Ends, c.to, k + 1)
                /\ Before(Starts, last) = k + 1
                /\ last <= Len(buffer) =>
                     Before(Ends, last) = k + 1 /\ (last > 1 => buffer[last - 1] = Slash)
    <3> SUFFICES ASSUME Here
                 PROVE  /\ token_start \in Places /\ c # Foreign /\ Nth(Ends, c.to, k + 1)
                        /\ Before(Starts, last) = k + 1
                        /\ last <= Len(buffer) =>
                             Before(Ends, last) = k + 1 /\ (last > 1 => buffer[last - 1] = Slash)
      OBVIOUS
    <3>1. token_start \in Places /\ Before(Starts, last) = k + 1 /\ c # Foreign
      BY <1>1, <1>3, <2>3, <2>4 DEF ReturnInv
    <3>2. CASE cut # 0
      <4>1. c.to = cut /\ Nth(Ends, cut, k + 1)
        BY <1>1, <2>3, <2>4, <3>1, <3>2 DEF CutInv, InToken
      <4>2. /\ last = cut + 1 /\ cut <= Len(buffer) /\ buffer[cut] = Slash
            /\ Before(Ends, last) = k + 1
        BY <1>1, <1>3, <2>4, <3>2 DEF ReturnInv
      <4>3. cut \in Int
        BY <1>2, <3>2 DEF StrtokInv, STypeOK, Places, HandlersEnd
      <4>4. buffer[last - 1] = Slash
        BY <4>2, <4>3
      <4> QED
        BY <3>1, <4>1, <4>2, <4>4
    <3>3. CASE cut = 0
      <4>1. c.to = Len(buffer) + 1
        BY <2>3, <3>1, <3>3
      <4>2. last = Len(buffer) + 1 /\ Nth(Ends, last, k + 1)
        BY <1>1, <1>3, <2>4, <3>3 DEF ReturnInv
      <4>3. ~(last <= Len(buffer))
        BY <1>2, <4>2
      <4> QED
        BY <3>1, <4>1, <4>2, <4>3
    <3> QED
      BY <3>2, <3>3
  <2>9. cut # 0 => Nth(Ends, cut, k + 1)
    BY <1>1, <2>4 DEF CutInv, InToken
  <2>10. \A n \in 1..k : Whole(n)' <=> Whole(n)
    BY <1>2, <2>5 DEF Whole, Nth
  <2>11. Whole(k + 1)' <=> c # Foreign /\ Nth(Ends, c.to, k + 1)
    BY <1>2, <2>5 DEF Whole, Nth
  <2>12. ASSUME NEW n \in 1..(k + 1), components'[n] # Foreign
         PROVE  /\ Nth(Starts, components'[n].from, n)
                /\ Whole(n)' \/ /\ components'[n].to = Len(buffer) + 1
                                /\ \A m \in 1..(k + 1) : m > n => components'[m] = Foreign
                                /\ ~Here /\ token_start' \notin Places
    <3>1. CASE n \in 1..k
      <4>1. /\ Nth(Starts, components[n].from, n)
            /\ Whole(n) \/ /\ components[n].to = Len(buffer) + 1
                           /\ \A m \in 1..k : m > n => components[m] = Foreign
                           /\ ~Here /\ token_start \notin Places
        BY <2>5, <2>12, <3>1 DEF GivenInv
      <4>2. token_start \notin Places => c = Foreign
        BY <2>3
      <4> QED
        BY <1>4, <2>5, <2>6, <2>10, <3>1, <4>1, <4>2
    <3>2. CASE n = k + 1
      <4>1. c # Foreign /\ token_start \in Places /\ c.from = token_start
            /\ c.to = IF cut = 0 THEN Len(buffer) + 1 ELSE cut
        BY <2>3, <2>5, <2>12, <3>2
      <4>2. Nth(Starts, components'[n].from, n)
        BY <2>5, <2>7, <3>2, <4>1
      <4>3. Whole(n)' \/ (c.to = Len(buffer) + 1 /\ ~Here)
        BY <2>8, <2>9, <2>11, <3>2, <4>1
      <4>4. \A m \in 1..(k + 1) : ~(m > n)
        BY <2>4, <3>2
      <4> QED
        BY <1>4, <2>5, <3>2, <4>2, <4>3, <4>4
    <3> QED
      BY <2>6, <3>1, <3>2
  <2>13. GivenInv'
    BY <1>1, <1>2, <2>2, <2>5, <2>12 DEF GivenInv, Nth
  <2>14. SkipInv'
    BY <1>1, <1>2, <2>1, <2>2, <2>5, <2>8 DEF SkipInv
  <2>15. UnmovedInv'
    <3> SUFFICES ASSUME ~moved
                 PROVE  UnmovedInv'
      BY <1>1 DEF UnmovedInv
    <3>1. Here /\ \A n \in 1..k : Whole(n)
      BY <1>1, <2>2, <2>5 DEF UnmovedInv
    <3>2. \A n \in 1..(k + 1) : Whole(n)'
      BY <2>6, <2>8, <2>10, <2>11, <3>1
    <3> QED
      BY <2>1, <2>2, <2>5, <3>1, <3>2 DEF UnmovedInv, InToken, Scans
  <2>16. TokenInv' /\ ScanInv' /\ CutInv' /\ ReturnInv' /\ EmptyInv'
    BY <1>1, <2>1, <2>2 DEF TokenInv, ScanInv, CutInv, ReturnInv, EmptyInv, InToken, Scans, CutSteps
  <2> QED
    BY <2>13, <2>14, <2>15, <2>16
<1> QED
  BY <1>5, <1>6

LEMMA PathParse ==
  ASSUME StrtokInv, PathInv, NEW path \in Paths, ParsePath(path)
  PROVE  PathInv'
<1> USE DEF PathInv
<1>1. /\ at = "out" /\ cut = 0 /\ token_start = HandlersEnd /\ components = <<>>
      /\ UNCHANGED <<reg, token_start, cut, components, moved>>
  BY DEF ParsePath, StrtokInv, BetweenTokens
<1>2. /\ buffer' \in Seq({Slash, Letter})
      /\ \/ buffer' = <<>> /\ at' = "done"
         \/ buffer' # <<>> /\ at' = "skip" /\ last' = 1
  BY RestIsPath DEF ParsePath, Goto
<1>3. /\ Len(buffer') \in Nat /\ DOMAIN buffer' = 1..Len(buffer')
      /\ DOMAIN components' = {} /\ Given' = 0
  BY <1>1, <1>2 DEF Given
<1>4. GivenInv' /\ EmptyInv' /\ TokenInv' /\ ScanInv' /\ CutInv' /\ ReturnInv'
  BY <1>1, <1>2, <1>3
     DEF GivenInv, EmptyInv, TokenInv, ScanInv, CutInv, ReturnInv, InToken, Scans, CutSteps
<1>5. CASE at' = "done"
  BY <1>2, <1>4, <1>5 DEF SkipInv, UnmovedInv, Skips
<1>6. CASE at' = "skip"
  <2>1. last' = 1 /\ Cursor' = 1 /\ Here'
    BY <1>2, <1>3, <1>6 DEF Cursor, Here, Storing, Places
  <2>2. {j \in Starts' : j < 1} = {} /\ {j \in Ends' : j < 1} = {}
    <3>1. \A j \in Starts' : j \in Int /\ ~(j < 1)
      BY <1>3 DEF Starts
    <3>2. \A j \in Ends' : j \in Int /\ ~(j < 1)
      BY <1>3 DEF Ends
    <3> QED
      BY <3>1, <3>2
  <2>3. Before(Starts', 1) = 0 /\ Before(Ends', 1) = 0
    BY <2>2, FS_EmptySet DEF Before
  <2>4. SkipInv'
    BY <1>3, <1>6, <2>1, <2>3 DEF SkipInv
  <2>5. UnmovedInv'
    BY <1>3, <1>6, <2>1 DEF UnmovedInv, InToken, Scans
  <2> QED
    BY <1>4, <2>4, <2>5
<1> QED
  BY <1>2, <1>5, <1>6

LEMMA PathDone ==
  ASSUME ParseDone
  PROVE  PathInv'
<1>1. at' = "out" /\ buffer' = <<>> /\ components' = <<>> /\ DOMAIN components' = {}
  BY DEF ParseDone, Goto
<1> QED
  BY <1>1 DEF PathInv, SkipInv, TokenInv, ScanInv, CutInv, ReturnInv, GivenInv, UnmovedInv,
              EmptyInv, Skips, InToken, Scans, CutSteps

LEMMA PathInit == Init => PathInv
<1> SUFFICES ASSUME Init
             PROVE  PathInv
  OBVIOUS
<1>1. at = "out" /\ buffer = <<>> /\ components = <<>> /\ DOMAIN components = {}
  BY DEF Init, SInit
<1> QED
  BY <1>1 DEF PathInv, SkipInv, TokenInv, ScanInv, CutInv, ReturnInv, GivenInv, UnmovedInv,
              EmptyInv, Skips, InToken, Scans, CutSteps

LEMMA PathKept == PreemptInv /\ PathInv /\ [Next]_<<pvars, svars>> => PathInv'
<1> SUFFICES ASSUME PreemptInv, PathInv, [Next]_<<pvars, svars>>
             PROVE  PathInv'
  OBVIOUS
<1>0. StrtokInv
  BY DEF PreemptInv
<1>1. ASSUME UNCHANGED svars
      PROVE  PathInv'
  <2>1. UNCHANGED <<buffer, at, token_start, cut, components>> /\ moved' = moved
    BY <1>1 DEF svars
  <2>2. Cursor' = Cursor
    BY <1>1 DEF svars, Cursor
  <2> QED
    BY <2>1, <2>2, PathSame
<1>2. CASE Interrupt
  BY <1>0, <1>1, <1>2, InterruptMoves, PathHandler
<1>3. ASSUME NEW path \in Paths, CallParse(path)
      PROVE  PathInv'
  BY <1>0, <1>3, PathParse DEF CallParse
<1>4. CASE Parse
  BY <1>0, <1>4, PathTest, PathLoad, PathStore, PathTokenStart, PathCut, PathReturn, PathDone
     DEF Parse, StrtokStep, Skip, Skipped, Scan, Scanned
<1>5. CASE (\E ch \in Chars : CallPrint(ch)) \/ (\E n \in Sizes : CallMalloc(n)) \/ CallClear
  BY <1>1, <1>5 DEF CallPrint, CallMalloc, CallClear
<1>6. CASE MainStep /\ ~Parse
  BY <1>1, <1>6 DEF MainStep, Guard, NewlineColumn, NewlineLoad, NewlineStore, Increment, Wrap,
                    Wipe, Decrement, Malloc, Elsewhere
<1> QED
  BY <1>1, <1>2, <1>3, <1>4, <1>5, <1>6 DEF Next, MainThread

\* What the invariant says of the components is what the property says.
LEMMA PathComponents ==
  ASSUME StrtokInv, PathInv
  PROVE  ComponentsInOrder
<1> USE DEF PathInv
<1>1. /\ Len(buffer) \in Nat /\ Given \in Nat /\ MAX_COMPONENTS \in Nat
      /\ Starts \in SUBSET (1..Len(buffer)) /\ Cardinality(Starts) \in Nat
      /\ components \in Seq(Component) /\ DOMAIN components = 1..Given
      /\ Given <= MAX_COMPONENTS
  <2>1. Len(buffer) \in Nat /\ Starts \in SUBSET (1..Len(buffer))
    BY PathSets
  <2>2. Cardinality(Starts) \in Nat
    BY <2>1, CountType
  <2>3. components \in Seq(Component) /\ DOMAIN components = 1..Given /\ Given <= MAX_COMPONENTS
    BY DEF StrtokInv, STypeOK, Component, Given
  <2> QED
    BY <2>1, <2>2, <2>3, PathSets
<1>2. ASSUME NEW n \in DOMAIN components, components[n] # Foreign
      PROVE  /\ n <= Cardinality(Starts) /\ components[n].from = StartOf(n)
             /\ Whole(n) => components[n].to = EndOf(n)
  <2>1. Nth(Starts, components[n].from, n) /\ n \in Nat
    BY <1>1, <1>2 DEF GivenInv
  <2> QED
    BY <1>1, <2>1, NthFits, NthStart, NthEnd DEF Whole
<1>3. \A n \in DOMAIN components :
        components[n] # Foreign =>
          /\ n <= Cardinality(Starts) /\ components[n].from = StartOf(n)
          /\ \/ components[n].to = EndOf(n)
             \/ /\ components[n].to = Len(buffer) + 1
                /\ \A m \in DOMAIN components : m > n => components[m] = Foreign
  BY <1>2 DEF GivenInv
<1>4. ASSUME at = "done", ~moved
      PROVE  /\ Len(components) = IF Cardinality(Starts) <= MAX_COMPONENTS
                                  THEN Cardinality(Starts) ELSE MAX_COMPONENTS
             /\ \A n \in DOMAIN components :
                  components[n] = [from |-> StartOf(n), to |-> EndOf(n)]
  <2>1. CASE buffer = <<>>
    <3>1. components = <<>> /\ Starts = {} /\ Given = 0
      BY <2>1 DEF EmptyInv, Starts, Given
    <3>2. Cardinality(Starts) = 0
      BY <3>1, FS_EmptySet
    <3> QED
      BY <1>1, <3>1, <3>2 DEF Given
  <2>2. CASE buffer # <<>>
    <3>1. /\ \A n \in DOMAIN components : Whole(n)
          /\ \/ Given = Cardinality(Starts)
             \/ Given = MAX_COMPONENTS /\ Cardinality(Starts) > MAX_COMPONENTS
      BY <1>4, <2>2 DEF UnmovedInv
    <3>2. Given = IF Cardinality(Starts) <= MAX_COMPONENTS
                  THEN Cardinality(Starts) ELSE MAX_COMPONENTS
      BY <1>1, <3>1
    <3>3. ASSUME NEW n \in DOMAIN components
          PROVE  components[n] = [from |-> StartOf(n), to |-> EndOf(n)]
      <4>1. components[n] # Foreign /\ components[n] \in Component
        BY <1>1, <3>1 DEF Whole
      <4>2. components[n].from = StartOf(n) /\ components[n].to = EndOf(n)
        BY <1>2, <3>1, <4>1
      <4> QED
        BY <4>1, <4>2 DEF Component
    <3> QED
      BY <3>2, <3>3 DEF Given
  <2> QED
    BY <2>1, <2>2
<1> QED
  BY <1>3, <1>4 DEF ComponentsInOrder

\* Whatever the path and wherever an 'f' comes in between, parse_path hands out the path's
\* components in their order, none skipped and none twice, and undisturbed all of them, up to
\* MAX_COMPONENTS (string.c:30-54, vfs.c:390-397).
THEOREM ComponentsStayInOrder == Spec => []ComponentsInOrder
<1>1. PreemptInv /\ PathInv => ComponentsInOrder
  BY PathComponents DEF PreemptInv
<1> QED
  BY <1>1, PathInit, PathKept, Invariant, PTL DEF Spec
=============================================================================
