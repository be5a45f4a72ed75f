--------------------------- MODULE KeyboardProofs ---------------------------
(* The safety of keyboard_handler for every row width, buffer size and boot  *)
(* heap.  The invariant is proved in one piece: that 'f' stays above the     *)
(* boot memory needs only the lengths, that its path is the shown line needs *)
(* both and the claim for every suffix of the row.                           *)
EXTENDS Keyboard, SequenceTheorems, TLAPS

\* The inductive invariant: each conjunct is a property of Keyboard.
Inv == TypeOK /\ HeapAboveBoot /\ BootMemoryIntact /\ SuffixOnHeap

\* What the row may hold after a sector is printed on it is a short sequence of glyphs.
LEMMA LinesAreShort ==
  ASSUME NEW text \in Line!Lines
  PROVE  text \in Seq(Glyphs) /\ Len(text) < Cols /\ Len(text) \in Nat
<1>1. PICK n \in 0..(Cols - 1) : text \in [1..n -> Glyphs]
  BY DEF Line!Lines
<1>2. n \in Nat /\ n < Cols
  BY LineAssumption
<1>3. text \in Seq(Glyphs) /\ Len(text) = n
  BY <1>1, <1>2
<1> QED
  BY <1>2, <1>3

\* A character lengthens the row by itself or empties it.
LEMMA PutResult ==
  ASSUME NEW s \in Seq(Glyphs), Len(s) < Cols, NEW ch \in Typed
  PROVE  \/ Line!Put(s, ch) = <<>>
         \/ /\ ch \in Glyphs /\ Len(s) + 1 < Cols
            /\ Line!Put(s, ch) = Append(s, ch)
BY LineAssumption DEF Line!Put, Typed

\* Taking bytes for a buffer changes those bytes and no other.
LEMMA FilledResult ==
  ASSUME NEW mem \in [0..(HeapTop - 1) -> Typed \cup Owners],
         NEW a \in Int, NEW n \in Nat, NEW owner \in Owners
  PROVE  /\ Filled(mem, a, n, owner) \in [0..(HeapTop - 1) -> Typed \cup Owners]
         /\ \A b \in 0..(HeapTop - 1) :
              Filled(mem, a, n, owner)[b] = IF b \in a..(a + n - 1) THEN owner ELSE mem[b]
BY DEF Filled

LEMMA InitInv == Init => Inv
<1> SUFFICES ASSUME Init PROVE Inv
  OBVIOUS
<1>1. Len(line) = 0 /\ line \in Seq(Glyphs)
  BY DEF Init
<1>2. TypeOK
  BY <1>1, HeapAssumption, LineAssumption DEF Init, TypeOK, Owners
<1>3. HeapAboveBoot /\ BootMemoryIntact
  BY <1>1, HeapAssumption DEF Init, HeapAboveBoot, BootMemoryIntact
<1>4. SuffixOnHeap
  BY <1>1 DEF SuffixOnHeap
<1> QED
  BY <1>2, <1>3, <1>4 DEF Inv

LEMMA TypeKeyInv ==
  ASSUME Inv, NEW ch \in Typed, TypeKey(ch)
  PROVE  Inv'
<1> USE HeapAssumption, LineAssumption DEF Inv
<1>1. line \in Seq(Glyphs) /\ Len(line) \in Nat /\ Len(line) < Cols
  BY DEF TypeOK
<1>2. heap_end \in 0..HeapTop /\ heap_end < HeapTop /\ heap_end' = heap_end + 1
  BY DEF TypeOK, TypeKey
<1>3. \A a \in 0..(HeapTop - 1) : heap'[a] = IF a = heap_end THEN ch ELSE heap[a]
  BY DEF TypeOK, TypeKey
<1>4. \/ line' = <<>> /\ Len(line') = 0
      \/ /\ ch \in Glyphs /\ Len(line) + 1 < Cols
         /\ line' = Append(line, ch) /\ Len(line') = Len(line) + 1
         /\ \A i \in 1..Len(line) : line'[i] = line[i]
         /\ line'[Len(line) + 1] = ch
  <2>1. \/ line' = <<>>
        \/ ch \in Glyphs /\ Len(line) + 1 < Cols /\ line' = Append(line, ch)
    BY <1>1, PutResult DEF TypeKey
  <2>2. CASE line' = <<>>
    BY <2>2
  <2>3. CASE ch \in Glyphs /\ Len(line) + 1 < Cols /\ line' = Append(line, ch)
    BY <2>3, <1>1
  <2> QED
    BY <2>1, <2>2, <2>3
<1>5. TypeOK'
  <2>1. line' \in Seq(Glyphs) /\ Len(line') < Cols
    <3>1. CASE line' = <<>> /\ Len(line') = 0
      BY <3>1
    <3>2. CASE /\ ch \in Glyphs /\ Len(line) + 1 < Cols
               /\ line' = Append(line, ch) /\ Len(line') = Len(line) + 1
      BY <3>2, <1>1
    <3> QED
      BY <3>1, <3>2, <1>4
  <2>2. heap' \in [0..(HeapTop - 1) -> Typed \cup Owners]
    BY <1>2 DEF TypeOK, TypeKey
  <2> QED
    BY <2>1, <2>2, <1>2 DEF TypeOK
<1>6. HeapAboveBoot'
  BY <1>1, <1>2, <1>4 DEF HeapAboveBoot
<1>7. BootMemoryIntact'
  BY <1>1, <1>2, <1>3 DEF HeapAboveBoot, BootMemoryIntact
<1>8. SuffixOnHeap'
  <2> SUFFICES ASSUME NEW j \in 0..Len(line'),
                      \A i \in 1..j : heap'[heap_end' - i] \in Typed,
                      NEW i \in 1..j
               PROVE  heap'[heap_end' - i] = line'[Len(line') - i + 1]
    BY DEF SuffixOnHeap
  <2>1. Len(line') = Len(line) + 1 /\ j - 1 \in 0..Len(line)
    BY <1>1, <1>4
  <2>2. \A k \in 1..j : heap_end' - k \in 0..(HeapTop - 1)
    BY <1>1, <1>2, <2>1 DEF HeapAboveBoot
  <2>3. CASE i = 1
    BY <2>3, <1>1, <1>2, <1>3, <1>4, <2>1
  <2>4. CASE i # 1
    <3>1. \A k \in 1..(j - 1) : heap'[heap_end' - (k + 1)] = heap[heap_end - k]
      BY <1>2, <1>3, <2>2
    <3>2. \A k \in 1..(j - 1) : heap[heap_end - k] \in Typed
      BY <3>1
    <3>3. heap[heap_end - (i - 1)] = line[Len(line) - (i - 1) + 1]
      BY <3>2, <2>1, <2>4 DEF SuffixOnHeap
    <3> QED
      BY <3>1, <3>3, <1>1, <1>4, <2>1, <2>4
  <2> QED
    BY <2>3, <2>4
<1> QED
  BY <1>5, <1>6, <1>7, <1>8

\* A step that leaves an empty row on a heap no lower than boot's keeps the invariant.
LEMMA EmptyRowInv ==
  ASSUME Inv, Len(line') <= 0, line' \in Seq(Glyphs), heap_end' \in BootEnd..HeapTop,
         heap' \in [0..(HeapTop - 1) -> Typed \cup Owners],
         \A a \in 0..(BootEnd - 1) : heap'[a] = heap[a]
  PROVE  Inv'
<1>1. TypeOK'
  BY HeapAssumption, LineAssumption DEF TypeOK
<1>2. HeapAboveBoot'
  BY HeapAssumption DEF HeapAboveBoot
<1>3. BootMemoryIntact'
  BY DEF Inv, BootMemoryIntact
<1>4. SuffixOnHeap'
  BY DEF SuffixOnHeap
<1> QED
  BY <1>1, <1>2, <1>3, <1>4 DEF Inv

LEMMA OpenKeyInv ==
  ASSUME Inv, NEW n \in 0..MaxVfsAlloc, OpenKey(n)
  PROVE  Inv'
<1> DEFINE base == heap_end - Len(line)
<1>1. base \in BootEnd..HeapTop
  BY HeapAssumption DEF Inv, TypeOK, HeapAboveBoot
<1>2. n \in Nat
  BY BufferAssumption
<1>3. heap_end' = base + n /\ base + n <= HeapTop /\ line' = <<>>
      /\ heap' = Filled(heap, base, n, "vfs")
  BY DEF OpenKey
<1>4. /\ heap' \in [0..(HeapTop - 1) -> Typed \cup Owners]
      /\ \A b \in 0..(HeapTop - 1) :
           heap'[b] = IF b \in base..(base + n - 1) THEN "vfs" ELSE heap[b]
  <2>1. "vfs" \in Owners /\ base \in Int
    BY <1>1, HeapAssumption DEF Owners
  <2>2. heap \in [0..(HeapTop - 1) -> Typed \cup Owners]
    BY DEF Inv, TypeOK
  <2> HIDE DEF base
  <2>3. heap' = [b \in 0..(HeapTop - 1) |->
                   IF b \in base..(base + n - 1) THEN "vfs" ELSE heap[b]]
    BY <2>2, <1>3 DEF Filled
  <2> QED
    BY <2>1, <2>2, <2>3
<1>5. Len(line') <= 0 /\ line' \in Seq(Glyphs)
  BY <1>3
<1> QED
  BY <1>1, <1>2, <1>3, <1>4, <1>5, EmptyRowInv, HeapAssumption

\* A buffer that malloc gives out on top of the heap, whatever then shows on the row,
\* keeps the invariant: the row is no longer than the buffer.
LEMMA BufferInv ==
  ASSUME Inv, heap_end' = heap_end + Scratch, heap_end' <= HeapTop,
         line' \in Seq(Glyphs), Len(line') < Cols,
         heap' \in [0..(HeapTop - 1) -> Typed \cup Owners],
         \A a \in 0..(heap_end - 1) : heap'[a] = heap[a],
         \A a \in heap_end..(heap_end + Scratch - 1) : heap'[a] = "scratch"
  PROVE  Inv'
<1> USE HeapAssumption, LineAssumption, BufferAssumption
<1>1. heap_end \in BootEnd..HeapTop /\ Len(line') \in Nat /\ Len(line') <= Scratch
  BY DEF Inv, TypeOK, HeapAboveBoot
<1>2. TypeOK'
  BY <1>1 DEF TypeOK
<1>3. HeapAboveBoot' /\ BootMemoryIntact'
  BY <1>1 DEF Inv, HeapAboveBoot, BootMemoryIntact
<1>4. SuffixOnHeap'
  <2> SUFFICES ASSUME NEW j \in 1..Len(line') PROVE heap'[heap_end' - 1] \notin Typed
    BY <1>1 DEF SuffixOnHeap
  <2> QED
    BY <1>1, OwnersAssumption DEF Owners
<1> QED
  BY <1>2, <1>3, <1>4 DEF Inv

LEMMA ReadKeyInv ==
  ASSUME Inv, NEW text \in Line!Lines, NEW ok \in BOOLEAN, ReadKey(text, ok)
  PROVE  Inv'
<1> USE HeapAssumption, BufferAssumption
<1> DEFINE mem == IF ok THEN Filled(heap, heap_end, Sector, "sector") ELSE heap
<1>1. heap_end \in 0..HeapTop /\ heap \in [0..(HeapTop - 1) -> Typed \cup Owners]
  BY DEF Inv, TypeOK
<1>2. heap_end + Scratch + Sector <= HeapTop /\ heap_end' = heap_end + Scratch
      /\ line' = text /\ heap' = Filled(mem, heap_end, Scratch, "scratch")
  BY DEF ReadKey
<1>3. /\ mem \in [0..(HeapTop - 1) -> Typed \cup Owners]
      /\ \A a \in 0..(heap_end - 1) : mem[a] = heap[a]
  BY <1>1, FilledResult DEF Owners
<1>4. /\ heap' \in [0..(HeapTop - 1) -> Typed \cup Owners]
      /\ \A b \in 0..(HeapTop - 1) :
           heap'[b] = IF b \in heap_end..(heap_end + Scratch - 1) THEN "scratch" ELSE mem[b]
  <2> HIDE DEF mem
  <2>1. "scratch" \in Owners /\ heap_end \in Int /\ Scratch \in Nat
    BY <1>1 DEF Owners
  <2> QED
    BY <2>1, <1>2, <1>3, FilledResult
<1>5. line' \in Seq(Glyphs) /\ Len(line') < Cols
  BY <1>2, LinesAreShort
<1>6. /\ \A a \in 0..(heap_end - 1) : heap'[a] = heap[a]
      /\ \A a \in heap_end..(heap_end + Scratch - 1) : heap'[a] = "scratch"
      /\ heap_end' <= HeapTop
  <2> HIDE DEF mem
  <2> QED
    BY <1>1, <1>2, <1>3, <1>4
<1> QED
  BY <1>2, <1>4, <1>5, <1>6, BufferInv

LEMMA WriteKeyInv ==
  ASSUME Inv, WriteKey
  PROVE  Inv'
<1> USE HeapAssumption, BufferAssumption
<1>1. heap_end \in 0..HeapTop /\ heap \in [0..(HeapTop - 1) -> Typed \cup Owners]
  BY DEF Inv, TypeOK
<1>2. heap_end + Scratch <= HeapTop /\ heap_end' = heap_end + Scratch
      /\ line' = line /\ heap' = Filled(heap, heap_end, Scratch, "scratch")
  BY DEF WriteKey
<1>3. /\ heap' \in [0..(HeapTop - 1) -> Typed \cup Owners]
      /\ \A b \in 0..(HeapTop - 1) :
           heap'[b] = IF b \in heap_end..(heap_end + Scratch - 1) THEN "scratch" ELSE heap[b]
  BY <1>1, <1>2, FilledResult DEF Owners
<1>4. line' \in Seq(Glyphs) /\ Len(line') < Cols
  BY <1>2 DEF Inv, TypeOK
<1>5. /\ \A a \in 0..(heap_end - 1) : heap'[a] = heap[a]
      /\ \A a \in heap_end..(heap_end + Scratch - 1) : heap'[a] = "scratch"
      /\ heap_end' <= HeapTop
  BY <1>1, <1>2, <1>3
<1> QED
  BY <1>2, <1>3, <1>4, <1>5, BufferInv

LEMMA ClearKeyInv ==
  ASSUME Inv, ClearKey
  PROVE  Inv'
<1>1. heap_end' = heap_end /\ heap' = heap /\ line' = <<>>
  BY DEF ClearKey
<1>2. heap_end \in BootEnd..HeapTop
  BY HeapAssumption DEF Inv, TypeOK, HeapAboveBoot
<1>3. heap \in [0..(HeapTop - 1) -> Typed \cup Owners]
  BY DEF Inv, TypeOK
<1>4. Len(line') <= 0 /\ line' \in Seq(Glyphs)
  BY <1>1
<1> QED
  BY <1>1, <1>2, <1>3, <1>4, EmptyRowInv, HeapAssumption

LEMMA NextInv == Inv /\ [Next]_vars => Inv'
<1> SUFFICES ASSUME Inv, [Next]_vars PROVE Inv'
  OBVIOUS
<1>1. CASE \E ch \in Typed : TypeKey(ch)
  BY <1>1, TypeKeyInv
<1>2. CASE WriteKey
  BY <1>2, WriteKeyInv
<1>3. CASE \E text \in Line!Lines, ok \in BOOLEAN : ReadKey(text, ok)
  BY <1>3, ReadKeyInv
<1>4. CASE ClearKey
  BY <1>4, ClearKeyInv
<1>5. CASE \E n \in 0..MaxVfsAlloc : OpenKey(n)
  BY <1>5, OpenKeyInv
<1>6. CASE UNCHANGED vars
  BY <1>6 DEF vars, Inv, TypeOK, HeapAboveBoot, BootMemoryIntact, SuffixOnHeap
<1> QED
  BY <1>1, <1>2, <1>3, <1>4, <1>5, <1>6 DEF Next

LEMMA Invariance == Spec => []Inv
<1>1. Init => Inv
  BY InitInv
<1>2. Inv /\ [Next]_vars => Inv'
  BY NextInv
<1> QED
  BY <1>1, <1>2, PTL DEF Spec

\* The handler's state keeps its types: heap_end stays inside the heap and the row
\* stays shorter than the screen (kernel.c:263-387).
THEOREM TypeCorrect == Spec => []TypeOK
BY Invariance, PTL DEF Inv

\* For every row width and buffer size with Scratch + 1 >= Cols, the bytes 'f' takes
\* back lie above everything boot allocated (kernel.c:282,317,356).
THEOREM HeapStaysAboveBoot == Spec => []HeapAboveBoot
BY Invariance, PTL DEF Inv

\* No sequence of keys overwrites what boot allocated (kernel.c:303,356,366).
THEOREM BootMemoryStaysIntact == Spec => []BootMemoryIntact
BY Invariance, PTL DEF Inv

LEMMA SuffixGivesPath == Inv => PathIsLine
<1> SUFFICES ASSUME Inv, Top(Len(line)) \in Seq(Typed) PROVE Top(Len(line)) = line
  BY DEF PathIsLine
<1> DEFINE n == Len(line)
<1>1. line \in Seq(Glyphs) /\ n \in Nat /\ heap_end \in Nat
  BY DEF Inv, TypeOK
<1>2. DOMAIN Top(n) = 1..n /\ \A i \in 1..n : Top(n)[i] = heap[heap_end - n + i - 1]
  BY DEF Top
<1>3. \A i \in 1..n : Top(n)[i] \in Typed
  <2>1. Len(Top(n)) = n
    BY <1>1, <1>2
  <2> QED
    BY <2>1
<1>4. \A i \in 1..n : heap[heap_end - i] \in Typed
  <2> TAKE i \in 1..n
  <2>1. n - i + 1 \in 1..n /\ heap_end - n + (n - i + 1) - 1 = heap_end - i
    BY <1>1
  <2> QED
    BY <2>1, <1>2, <1>3
<1>5. \A i \in 1..n : heap[heap_end - i] = line[n - i + 1]
  <2>1. (\A i \in 1..n : heap[heap_end - i] \in Typed)
          => \A i \in 1..n : heap[heap_end - i] = line[n - i + 1]
    <3>1. n \in 0..Len(line)
      BY <1>1
    <3> QED
      BY <3>1 DEF Inv, SuffixOnHeap
  <2> QED
    BY <2>1, <1>4
<1>6. \A i \in 1..n : Top(n)[i] = line[i]
  <2> TAKE i \in 1..n
  <2>1. n - i + 1 \in 1..n /\ heap_end - (n - i + 1) = heap_end - n + i - 1
        /\ n - (n - i + 1) + 1 = i
    BY <1>1
  <2> QED
    BY <2>1, <1>2, <1>5
<1> QED
  BY <1>1, <1>2, <1>6

\* The path 'f' opens is the line on the screen whenever it is made of typed bytes
\* (kernel.c:303-304,356-363).
THEOREM PathStaysLine == Spec => []PathIsLine
BY Invariance, SuffixGivesPath, PTL
=============================================================================
