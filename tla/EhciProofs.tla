----------------------------- MODULE EhciProofs -----------------------------
(* What holds of the EHCI driver for any machine, page size, pool and        *)
(* request: addresses lead to themselves, the blocks of the pool lie apart,  *)
(* and every controller the driver lets run has a list of its own, whatever  *)
(* the controllers answer and when, and however many tries go before.        *)
EXTENDS Ehci, PciProofs

allvars == <<evars, dvars, mvars, vars>>

-----------------------------------------------------------------------------
(* Arithmetic: a number and its remainder.                                   *)

LEMMA ModOfMultiple ==
  ASSUME NEW i \in Nat, NEW n \in Nat \ {0}
  PROVE  (i * n) % n = 0
  OBVIOUS

LEMMA DivBelow ==
  ASSUME NEW v \in Nat, NEW n \in Nat \ {0}, NEW m \in Nat, v < m * n
  PROVE  v \div n < m
  BY DivMod

LEMMA ModBelow ==
  ASSUME NEW v \in Nat, NEW n \in Nat, v < n
  PROVE  v % n = v
  OBVIOUS

LEMMA Monotone ==
  ASSUME NEW i \in Nat, NEW m \in Nat, NEW n \in Nat \ {0}, i < m
  PROVE  i * n < m * n /\ i * n \in Nat
  OBVIOUS
-----------------------------------------------------------------------------
(* Paging.                                                                   *)

\* The directory setup_paging_4mb_pages leaves behind.
Filled == [i \in Indices |->
             [present |-> TRUE, large |-> TRUE, base |-> IntProduct(i, Large) % U32]]

\* What each step of the set-up needs of those before it.
PagingInv == /\ page_directory \in {[i \in Indices |-> NotPresent], Filled}
             /\ page_directory = Filled => pse
             /\ cr3 => page_directory = Filled
             /\ paging => cr3

\* Entry 0 tells the two directories apart.
LEMMA FirstEntry ==
  ASSUME PagingInv
  PROVE  page_directory[0].present <=> page_directory = Filled
<1>1. 0 \in Indices
  BY PagingAssumption DEF Indices
<1> QED
  BY <1>1 DEF PagingInv, Filled, NotPresent

LEMMA PagingInit == MInit => PagingInv
<1>1. 0 \in Indices
  BY PagingAssumption DEF Indices
<1>2. [i \in Indices |-> NotPresent] # Filled
  <2>1. [i \in Indices |-> NotPresent][0].present = FALSE /\ Filled[0].present = TRUE
    BY <1>1 DEF NotPresent, Filled
  <2> QED
    BY <2>1
<1> QED
  BY <1>2 DEF MInit, PagingInv

LEMMA PagingStepKeeps == PagingInv /\ [PagingStep]_mvars => PagingInv'
<1> SUFFICES ASSUME PagingInv, [PagingStep]_mvars
             PROVE  PagingInv'
  OBVIOUS
<1>1. CASE EnablePse
  BY <1>1 DEF EnablePse, PagingInv
<1>2. CASE SetupPaging
  BY <1>2, FirstEntry DEF SetupPaging, PagingInv, Filled
<1>3. CASE LoadPageDirectory
  BY <1>3, FirstEntry DEF LoadPageDirectory, PagingInv
<1>4. CASE EnablePaging
  BY <1>4 DEF EnablePaging, PagingInv
<1>5. CASE UNCHANGED mvars
  BY <1>5 DEF mvars, PagingInv
<1> QED
  BY <1>1, <1>2, <1>3, <1>4, <1>5 DEF PagingStep

LEMMA LargeSize == Large \in Nat \ {0} /\ U32 = Entries * Large
  BY PagingAssumption DEF Large

\* A product that fits an unsigned number comes out right, also where the int overflows.
LEMMA ProductUnsigned ==
  ASSUME NEW a \in Nat, NEW b \in Nat, a * b \in Nat, a * b < U32, U32 \in Nat \ {0}
  PROVE  IntProduct(a, b) % U32 = a * b
<1>1. PICK x \in Nat, h \in Nat : x = a * b /\ h = U32 \div 2 /\ 2 * h <= U32
  OBVIOUS
<1>2. CASE x + h < U32
  <2>1. (x + h) % U32 = x + h /\ x % U32 = x
    BY <1>1, <1>2, ModBelow
  <2> QED
    BY <1>1, <2>1 DEF IntProduct
<1>3. CASE x + h >= U32
  <2>1. x + h - U32 \in Nat /\ x + h - U32 < U32
    BY <1>1, <1>3
  <2>2. (x + h) % U32 = x + h - U32
    BY <1>1, <1>3, <2>1
  <2>3. (x - U32) % U32 = x
    BY <1>1
  <2> QED
    BY <1>1, <2>2, <2>3 DEF IntProduct
<1> QED
  BY <1>1, <1>2, <1>3

\* The entry an address selects holds the address without its offset.
LEMMA EntryOf ==
  ASSUME NEW v \in Addresses
  PROVE  /\ DirectoryIndex(v) \in Indices
         /\ Filled[DirectoryIndex(v)] = [present |-> TRUE, large |-> TRUE,
                                         base |-> DirectoryIndex(v) * Large]
         /\ Aligned(DirectoryIndex(v) * Large, Large) + (v % Large) = v
<1> DEFINE i == DirectoryIndex(v)
<1>1. v \in Nat /\ v < Entries * Large /\ Entries \in Nat
  BY LargeSize, PagingAssumption DEF Addresses
<1>2. i \in Nat /\ i < Entries
  BY <1>1, LargeSize, DivMod, DivBelow DEF DirectoryIndex
<1>3. i * Large \in Nat /\ i * Large < U32
  BY <1>1, <1>2, LargeSize, Monotone
<1>4. IntProduct(i, Large) % U32 = i * Large
  BY <1>2, <1>3, LargeSize, ProductUnsigned, PagingAssumption
<1>5. (i * Large) % Large = 0
  BY <1>2, LargeSize, ModOfMultiple
<1>6. v = Large * i + (v % Large) /\ v % Large \in Nat
  BY <1>1, LargeSize, DivMod DEF DirectoryIndex
<1> HIDE DEF i
<1>7. Aligned(i * Large, Large) + (v % Large) = v
  BY <1>2, <1>3, <1>5, <1>6, LargeSize DEF Aligned
<1>8. i \in Indices
  BY <1>1, <1>2 DEF Indices
<1> QED
  BY <1>4, <1>7, <1>8 DEF Filled, i

LEMMA PagingIdentity == PagingInv => Identity
<1> SUFFICES ASSUME PagingInv, NEW v \in Addresses
             PROVE  Mmu(v) = v /\ virt_to_phys(v) = v
  BY DEF Identity
<1>1. CASE ~paging
  BY <1>1 DEF Mmu, virt_to_phys
<1>2. CASE paging
  <2>1. pse /\ page_directory = Filled
    BY <1>2 DEF PagingInv
  <2>2. page_directory[DirectoryIndex(v)] =
          [present |-> TRUE, large |-> TRUE, base |-> DirectoryIndex(v) * Large]
    BY <2>1, EntryOf
  <2>3. Aligned(DirectoryIndex(v) * Large, Large) + (v % Large) = v
    BY EntryOf
  <2> QED
    BY <1>2, <2>1, <2>2, <2>3 DEF Mmu, virt_to_phys
<1> QED
  BY <1>1, <1>2
-----------------------------------------------------------------------------
(* The pool.                                                                 *)

Block == [virt_addr : Nat, phys_addr : Nat, size : Nat, alignment : Nat, used : BOOLEAN]

\* A block ends where the next one may start; the last one at the offset.
Follows(i, j) == dma_allocations[i].virt_addr + dma_allocations[i].size
                   <= dma_allocations[j].virt_addr

PoolInv ==
  /\ dma_pool_offset \in 0..DMA_POOL_SIZE
  /\ dma_allocations \in Seq(Block)
  /\ Len(dma_allocations) <= MAX_DMA_ALLOCATIONS
  /\ DOMAIN memory = Pool
  /\ \A i \in DOMAIN dma_allocations :
       LET block == dma_allocations[i]
       IN  /\ dma_pool <= block.virt_addr /\ block.phys_addr = block.virt_addr
           /\ block.virt_addr + block.size <= dma_pool + dma_pool_offset
           /\ block.alignment > 0 => block.virt_addr % block.alignment = 0
  /\ \A i, j \in DOMAIN dma_allocations : i < j => Follows(i, j)

\* What dma_alloc skips brings the address to a multiple of the alignment.
LEMMA AlignedUp ==
  ASSUME NEW addr \in Nat, NEW n \in Nat \ {0}
  PROVE  LET skip == (n - (addr % n)) % n
         IN  skip \in 0..(n - 1) /\ (addr + skip) % n = 0
<1>1. addr % n \in 0..(n - 1)
  BY DivMod
<1>2. CASE addr % n = 0
  <2>1. (n - (addr % n)) % n = 0
    BY <1>2
  <2> QED
    BY <1>2, <2>1
<1>3. CASE addr % n # 0
  <2>1. n - (addr % n) \in 1..(n - 1)
    BY <1>1, <1>3
  <2>2. (n - (addr % n)) % n = n - (addr % n)
    BY <2>1, ModBelow
  <2>3. addr + (n - (addr % n)) = (addr \div n + 1) * n /\ addr \div n + 1 \in Nat
    <3> DEFINE q == addr \div n
               rest == addr % n
    <3>1. q \in Nat /\ rest \in Nat /\ addr = n * q + rest
      BY DivMod
    <3> HIDE DEF q, rest
    <3>2. (q + 1) * n = n * q + n
      BY <3>1
    <3> QED
      BY <3>1, <3>2 DEF q, rest
  <2>4. ((addr \div n + 1) * n) % n = 0
    BY <2>3, ModOfMultiple
  <2> QED
    BY <2>1, <2>2, <2>3, <2>4
<1> QED
  BY <1>2, <1>3

\* No sum of a request wraps, and its block lies aligned behind all others.
LEMMA Request ==
  ASSUME PoolInv, NEW r \in Requests
  PROVE  /\ AlignOffset(r.alignment) \in Nat
         /\ AlignOffset(r.alignment) <= r.alignment
         /\ BlockAddr(r) \in Nat
         /\ r.alignment > 0 => BlockAddr(r) % r.alignment = 0
         /\ TotalSize(r) = AlignOffset(r.alignment) + r.size
         /\ (dma_pool_offset + TotalSize(r)) % U32 = dma_pool_offset + TotalSize(r)
<1>1. /\ r.size \in Nat /\ r.alignment \in Nat /\ dma_pool \in Nat
      /\ DMA_POOL_SIZE \in Nat /\ DMA_POOL_SIZE + r.alignment + r.size < U32
      /\ dma_pool_offset \in 0..DMA_POOL_SIZE
  BY PoolAssumption DEF PoolInv
<1>2. U32 \in Nat
  BY LargeSize, PagingAssumption
<1>3. /\ AlignOffset(r.alignment) \in Nat /\ AlignOffset(r.alignment) <= r.alignment
      /\ r.alignment > 0 =>
           (dma_pool + dma_pool_offset + AlignOffset(r.alignment)) % r.alignment = 0
  <2>1. CASE r.alignment = 0
    BY <2>1 DEF AlignOffset
  <2>2. CASE r.alignment > 0
    BY <2>2, <1>1, AlignedUp DEF AlignOffset
  <2> QED
    BY <1>1, <2>1, <2>2
<1>4. BlockAddr(r) \in Nat /\ (r.alignment > 0 => BlockAddr(r) % r.alignment = 0)
  BY <1>1, <1>3 DEF BlockAddr
<1>5. AlignOffset(r.alignment) + r.size < U32
  BY <1>1, <1>2, <1>3
<1>6. TotalSize(r) = AlignOffset(r.alignment) + r.size
  <2> DEFINE sum == AlignOffset(r.alignment) + r.size
  <2>1. sum \in Nat /\ sum < U32
    BY <1>1, <1>3, <1>5
  <2> HIDE DEF sum
  <2>2. sum % U32 = sum
    BY <1>2, <2>1, ModBelow
  <2> QED
    BY <2>2 DEF TotalSize, sum
<1>7. dma_pool_offset + TotalSize(r) < U32
  BY <1>1, <1>2, <1>3, <1>6
<1>8. (dma_pool_offset + TotalSize(r)) % U32 = dma_pool_offset + TotalSize(r)
  <2> DEFINE sum == dma_pool_offset + TotalSize(r)
  <2>1. sum \in Nat /\ sum < U32
    BY <1>1, <1>3, <1>6, <1>7
  <2> HIDE DEF sum
  <2>2. sum % U32 = sum
    BY <1>2, <2>1, ModBelow
  <2> QED
    BY <2>2 DEF sum
<1> QED
  BY <1>3, <1>4, <1>6, <1>8

\* Every way a step has to change the pool.
LEMMA AllocKeeps ==
  ASSUME PoolInv, NEW r \in Requests, DmaAlloc(r)
  PROVE  PoolInv'
<1> DEFINE block == [virt_addr |-> BlockAddr(r), phys_addr |-> BlockAddr(r), size |-> r.size,
                     alignment |-> r.alignment, used |-> TRUE]
           n == Len(dma_allocations)
<1>1. /\ r.size \in Nat /\ r.alignment \in Nat /\ dma_pool \in Nat
      /\ DMA_POOL_SIZE \in Nat /\ dma_pool_offset \in 0..DMA_POOL_SIZE
      /\ MAX_DMA_ALLOCATIONS \in Nat
  BY PoolAssumption DEF PoolInv
<1>2. block \in Block
  BY <1>1, Request DEF Block
<1>3. /\ dma_allocations \in Seq(Block) /\ n \in Nat /\ n < MAX_DMA_ALLOCATIONS
      /\ dma_allocations' = Append(dma_allocations, block)
  BY DEF PoolInv, DmaAlloc, Fits
<1>4. /\ dma_pool_offset' = dma_pool_offset + AlignOffset(r.alignment) + r.size
      /\ dma_pool_offset' \in dma_pool_offset..DMA_POOL_SIZE
      /\ BlockAddr(r) = dma_pool + dma_pool_offset + AlignOffset(r.alignment)
      /\ AlignOffset(r.alignment) \in Nat
  <2>1. /\ AlignOffset(r.alignment) \in Nat
        /\ TotalSize(r) = AlignOffset(r.alignment) + r.size
        /\ (dma_pool_offset + TotalSize(r)) % U32 = dma_pool_offset + TotalSize(r)
    BY Request
  <2>2. /\ dma_pool_offset' = dma_pool_offset + TotalSize(r)
        /\ (dma_pool_offset + TotalSize(r)) % U32 <= DMA_POOL_SIZE
    BY DEF DmaAlloc, Fits
  <2>3. BlockAddr(r) = dma_pool + dma_pool_offset + AlignOffset(r.alignment)
    BY DEF BlockAddr
  <2> QED
    BY <1>1, <2>1, <2>2, <2>3
<1> HIDE DEF block
<1>5. /\ DOMAIN dma_allocations' = 1..(n + 1) /\ DOMAIN dma_allocations = 1..n
      /\ \A i \in 1..n : dma_allocations'[i] = dma_allocations[i]
      /\ dma_allocations'[n + 1] = block
      /\ dma_allocations' \in Seq(Block) /\ Len(dma_allocations') = n + 1
  BY <1>2, <1>3
<1>6. DOMAIN memory' = Pool
  BY DEF DmaAlloc, Cleared, Stored
<1>7. ASSUME NEW i \in DOMAIN dma_allocations'
      PROVE  LET b == dma_allocations'[i]
             IN  /\ dma_pool <= b.virt_addr /\ b.phys_addr = b.virt_addr
                 /\ b.virt_addr + b.size <= dma_pool + dma_pool_offset'
                 /\ b.alignment > 0 => b.virt_addr % b.alignment = 0
  <2>1. CASE i \in 1..n
    <3>1. /\ dma_allocations'[i] = dma_allocations[i] /\ i \in DOMAIN dma_allocations
          /\ dma_allocations[i] \in Block
      BY <2>1, <1>3, <1>5
    <3>2. LET b == dma_allocations[i]
          IN  /\ dma_pool <= b.virt_addr /\ b.phys_addr = b.virt_addr
              /\ b.virt_addr + b.size <= dma_pool + dma_pool_offset
              /\ b.alignment > 0 => b.virt_addr % b.alignment = 0
      BY <3>1 DEF PoolInv
    <3>3. /\ dma_allocations[i].virt_addr \in Nat /\ dma_allocations[i].size \in Nat
      BY <3>1 DEF Block
    <3> QED
      BY <3>1, <3>2, <3>3, <1>1, <1>4
  <2>2. CASE i = n + 1
    <3>1. /\ dma_allocations'[i].virt_addr = BlockAddr(r)
          /\ dma_allocations'[i].phys_addr = BlockAddr(r)
          /\ dma_allocations'[i].size = r.size /\ dma_allocations'[i].alignment = r.alignment
      BY <2>2, <1>5 DEF block
    <3>2. r.alignment > 0 => BlockAddr(r) % r.alignment = 0
      BY Request
    <3> QED
      BY <3>1, <3>2, <1>1, <1>4
  <2> QED
    BY <1>3, <1>5, <2>1, <2>2
<1>8. ASSUME NEW i \in DOMAIN dma_allocations', NEW j \in DOMAIN dma_allocations', i < j
      PROVE  Follows(i, j)'
  <2>1. i \in 1..n /\ dma_allocations[i] \in Block
    BY <1>3, <1>5, <1>8
  <2>2. CASE j \in 1..n
    <3>1. /\ dma_allocations'[i] = dma_allocations[i] /\ dma_allocations'[j] = dma_allocations[j]
          /\ i \in DOMAIN dma_allocations /\ j \in DOMAIN dma_allocations
      BY <1>5, <2>1, <2>2
    <3>2. Follows(i, j)
      BY <3>1, <1>8 DEF PoolInv
    <3> QED
      BY <3>1, <3>2 DEF Follows
  <2>3. CASE j = n + 1
    <3>1. dma_allocations[i].virt_addr + dma_allocations[i].size <= dma_pool + dma_pool_offset
      BY <2>1, <1>5 DEF PoolInv
    <3>2. dma_allocations'[j].virt_addr = BlockAddr(r)
      BY <2>3, <1>5 DEF block
    <3>3. /\ dma_allocations'[i] = dma_allocations[i]
          /\ dma_allocations[i].virt_addr \in Nat /\ dma_allocations[i].size \in Nat
      BY <2>1, <1>5 DEF Block
    <3> QED
      BY <3>1, <3>2, <3>3, <1>1, <1>4 DEF Follows
  <2> QED
    BY <1>3, <1>5, <2>2, <2>3
<1> QED
  <2>1. dma_pool_offset' \in 0..DMA_POOL_SIZE /\ Len(dma_allocations') <= MAX_DMA_ALLOCATIONS
    BY <1>1, <1>3, <1>4, <1>5
  <2> QED
    BY <2>1, <1>5, <1>6, <1>7, <1>8 DEF PoolInv

LEMMA FreeKeeps ==
  ASSUME PoolInv, NEW virt, DmaFree(virt)
  PROVE  PoolInv'
<1>1. PICK i \in DOMAIN dma_allocations :
        dma_allocations' = [dma_allocations EXCEPT ![i].used = FALSE]
  BY DEF DmaFree
<1>2. /\ dma_allocations \in Seq(Block) /\ DOMAIN dma_allocations' = DOMAIN dma_allocations
      /\ dma_pool_offset' = dma_pool_offset /\ memory' = memory
  BY <1>1 DEF PoolInv, DmaFree
<1>3. dma_allocations[i] \in Block /\ i \in 1..Len(dma_allocations)
  BY <1>2
<1> DEFINE block == [dma_allocations[i] EXCEPT !.used = FALSE]
<1>4. /\ block \in Block
      /\ block.virt_addr = dma_allocations[i].virt_addr
      /\ block.phys_addr = dma_allocations[i].phys_addr
      /\ block.size = dma_allocations[i].size
      /\ block.alignment = dma_allocations[i].alignment
  BY <1>3 DEF Block
<1>5. dma_allocations' = [dma_allocations EXCEPT ![i] = block]
  BY <1>1
<1> HIDE DEF block
<1>6. dma_allocations' \in Seq(Block) /\ Len(dma_allocations') = Len(dma_allocations)
  BY <1>2, <1>3, <1>4, <1>5, ExceptSeq
<1>7. \A k \in DOMAIN dma_allocations :
        /\ dma_allocations'[k].virt_addr = dma_allocations[k].virt_addr
        /\ dma_allocations'[k].phys_addr = dma_allocations[k].phys_addr
        /\ dma_allocations'[k].size = dma_allocations[k].size
        /\ dma_allocations'[k].alignment = dma_allocations[k].alignment
  BY <1>2, <1>4, <1>5
<1>8. \A k, l \in DOMAIN dma_allocations : Follows(k, l)' <=> Follows(k, l)
  BY <1>7 DEF Follows
<1> QED
  BY <1>2, <1>6, <1>7, <1>8 DEF PoolInv

LEMMA PoolApart == PoolInv => BlocksApart
<1> SUFFICES ASSUME PoolInv
             PROVE  BlocksApart
  OBVIOUS
<1>1. /\ dma_pool \in Nat /\ DMA_POOL_SIZE \in Nat /\ dma_pool_offset \in 0..DMA_POOL_SIZE
  BY PoolAssumption DEF PoolInv
<1>2. \A i \in DOMAIN dma_allocations :
        dma_allocations[i].virt_addr \in Nat /\ dma_allocations[i].size \in Nat
  <2> TAKE i \in DOMAIN dma_allocations
  <2>1. dma_allocations[i] \in Block
    BY DEF PoolInv
  <2> QED
    BY <2>1 DEF Block
<1>3. ASSUME NEW i \in DOMAIN dma_allocations
      PROVE  Bytes(dma_allocations[i]) \subseteq Pool
  <2>1. /\ dma_pool <= dma_allocations[i].virt_addr
        /\ dma_allocations[i].virt_addr + dma_allocations[i].size <= dma_pool + dma_pool_offset
    BY DEF PoolInv
  <2> QED
    BY <1>1, <1>2, <2>1 DEF Bytes, Pool
<1>4. ASSUME NEW i \in DOMAIN dma_allocations, NEW j \in DOMAIN dma_allocations, Follows(i, j)
      PROVE  Bytes(dma_allocations[i]) \cap Bytes(dma_allocations[j]) = {}
  BY <1>2, <1>4 DEF Bytes, Follows
<1>5. ASSUME NEW i \in DOMAIN dma_allocations, NEW j \in DOMAIN dma_allocations, i # j
      PROVE  Bytes(dma_allocations[i]) \cap Bytes(dma_allocations[j]) = {}
  <2>1. i \in Int /\ j \in Int
    BY DEF PoolInv
  <2>2. CASE i < j
    BY <1>4, <2>2 DEF PoolInv
  <2>3. CASE j < i
    BY <1>4, <2>3 DEF PoolInv
  <2> QED
    BY <1>5, <2>1, <2>2, <2>3
<1> QED
  BY <1>3, <1>5 DEF PoolInv, BlocksApart

LEMMA PoolInit == DInit => PoolInv
  BY PoolAssumption DEF DInit, PoolInv
-----------------------------------------------------------------------------
\* The steps of Ehci, by what they do to paging and to the pool.
LEMMA StepKinds ==
  ASSUME ENext
  PROVE  /\ PagingStep \/ UNCHANGED mvars
         /\ \/ \E r \in Requests : DmaAlloc(r)
            \/ \E virt : DmaFree(virt)
            \/ UNCHANGED <<dma_pool_offset, dma_allocations>> /\ DOMAIN memory' \in {Pool, DOMAIN memory}
<1>1. CASE Driver /\ UNCHANGED <<mvars, vars>>
  BY <1>1, EhciAssumption
     DEF Driver, InitAutoFound, MapAndReset, MapFails, ResetDone, ResetTimeout, Halted, AllocQh,
         AllocTd, AllocFails, SetupAsyncList, Run, Started, StartTimeout, NoDma, dvars, Stored
<1>2. CASE Client
  BY <1>2, EhciAssumption DEF Client
<1>3. CASE Boot \/ Spin \/ InitAuto \/ Find \/ ControllerStep
  BY <1>3 DEF Boot, Spin, InitAuto, Find, ControllerStep, NoDma, dvars
<1> QED
  BY <1>1, <1>2, <1>3 DEF ENext, Drive

GroundInv == PagingInv /\ PoolInv

LEMMA GroundNext == GroundInv /\ [ENext]_allvars => GroundInv'
<1> SUFFICES ASSUME GroundInv, [ENext]_allvars
             PROVE  GroundInv'
  OBVIOUS
<1>1. CASE ENext
  <2>1. PagingInv'
    BY <1>1, StepKinds, PagingStepKeeps DEF GroundInv
  <2>2. CASE \E r \in Requests : DmaAlloc(r)
    BY <2>1, <2>2, AllocKeeps DEF GroundInv
  <2>3. CASE \E virt : DmaFree(virt)
    BY <2>1, <2>3, FreeKeeps DEF GroundInv
  <2>4. CASE /\ UNCHANGED <<dma_pool_offset, dma_allocations>>
             /\ DOMAIN memory' \in {Pool, DOMAIN memory}
    BY <2>1, <2>4 DEF GroundInv, PoolInv, Follows
  <2> QED
    BY <1>1, <2>2, <2>3, <2>4, StepKinds
<1>2. CASE UNCHANGED allvars
  BY <1>2 DEF allvars, mvars, dvars, GroundInv, PagingInv, PoolInv, Follows
<1> QED
  BY <1>1, <1>2

LEMMA Ground == ESpec => []GroundInv
<1>1. EInit => GroundInv
  BY PagingInit, PoolInit DEF EInit, GroundInv
<1> QED
  BY <1>1, GroundNext, PTL DEF ESpec, allvars

\* From the first step of the boot to the end, with paging off or on, every address leads to
\* itself, for the processor and for virt_to_phys (kernel.c:555-570, mm.h:156-206).
THEOREM AddressesStayIdentical == ESpec => []Identity
<1>1. GroundInv => Identity
  BY PagingIdentity DEF GroundInv
<1> QED
  BY <1>1, Ground, PTL

\* For any pool and any sequence of requests whose sums do not wrap, the blocks lie in the
\* pool, aligned, and no two of them share a byte (mm.h:55-98).
THEOREM BlocksStayApart == ESpec => []BlocksApart
<1>1. GroundInv => BlocksApart
  BY PoolApart DEF GroundInv
<1> QED
  BY <1>1, Ground, PTL
-----------------------------------------------------------------------------
(* What the invariant is made of.                                            *)

Mapped == {"reset", "halt", "qh", "td", "list", "run"}  \* a controller is mapped and not started
Started_ == {"started", "yes"}

TypesInv == /\ controllers \in Seq(Controller)
            /\ async_qh \in Addresses /\ dummy_td \in Addresses

\* What the driver knows of the last controller, and of itself.
StatusInv ==
  /\ init \in Mapped \cup Started_ => This > 0
  /\ init \in Mapped => ~Reg.run
  /\ init \in Started_ => Reg.run
  /\ init \in (Mapped \cup Started_) \ {"reset"} => ~Reg.reset
  /\ init \in (Mapped \cup Started_) \ {"reset", "halt"} => Reg.configured
  /\ init = "yes" => ~Reg.halted
  /\ initialized <=> init = "yes"
  /\ init \notin {"no", "search"} /\ ret.found = 1 => enabled

\* HasList of some memory, and with it that the descriptor lies behind the queue head and
\* both before limit.
HasListIn(mem, qh, td) ==
  /\ \A k \in 0..(Qh.size - 1) : qh + k \in Pool /\ mem[qh + k] = QhBytes(qh, td)[k]
  /\ \A k \in 0..(Td.size - 1) : td + k \in Pool /\ mem[td + k] = TdBytes[k]
  /\ qh % Qh.alignment = 0 /\ td % Td.alignment = 0

Own(mem, qh, td, limit) ==
  /\ dma_pool <= qh /\ qh + Qh.size <= td /\ td + Td.size <= limit
  /\ HasListIn(mem, qh, td)

Complete(mem, qh, limit) == \E td \in Addresses : Own(mem, qh, td, limit)

\* All controllers that were told to run have a list before limit, the earlier ones one
\* before those of the later ones.
AllBefore(mem, cs, limit) ==
  \A i \in DOMAIN cs : cs[i].run => Complete(mem, cs[i].async, limit)
InOrder(mem, cs) ==
  \A i, j \in DOMAIN cs :
    i < j /\ cs[i].run /\ cs[j].run => Complete(mem, cs[i].async, cs[j].async)

Top == dma_pool + dma_pool_offset

ListsInv == AllBefore(memory, controllers, Top) /\ InOrder(memory, controllers)

\* How far the list of this try is.
StageInv ==
  /\ init \in {"td", "list", "run"} =>
       /\ dma_pool <= async_qh /\ async_qh % Qh.alignment = 0
       /\ AllBefore(memory, controllers, async_qh)
  /\ init = "td" => async_qh + Qh.size <= Top
  /\ init = "list" =>
       /\ async_qh + Qh.size <= dummy_td /\ dummy_td + Td.size <= Top
       /\ dummy_td % Td.alignment = 0
  /\ init \in {"run"} \cup Started_ =>
       /\ Own(memory, async_qh, dummy_td, Top)
       /\ Reg.async = async_qh

ListInv == GroundInv /\ TypesInv /\ StatusInv /\ ListsInv /\ StageInv
-----------------------------------------------------------------------------
(* Arithmetic of the pool, and of writes to it.                              *)

LEMMA Sizes ==
  /\ Qh.size \in Nat \ {0} /\ Td.size \in Nat \ {0}
  /\ Qh.alignment \in Nat \ {0} /\ Td.alignment \in Nat \ {0}
  /\ dma_pool \in Nat /\ DMA_POOL_SIZE \in Nat /\ U32 \in Nat
  /\ dma_pool + DMA_POOL_SIZE < U32
  /\ Qh \in Requests /\ Td \in Requests
  BY EhciAssumption, PoolAssumption, PagingAssumption, LargeSize

LEMMA PoolSizes ==
  dma_pool \in Nat /\ DMA_POOL_SIZE \in Nat /\ U32 \in Nat /\ dma_pool + DMA_POOL_SIZE < U32
  BY Sizes

LEMMA PoolPlaces == \A a \in Pool : a \in Nat
  BY PoolSizes DEF Pool

LEMMA TopInPool == PoolInv => /\ Top \in Nat /\ dma_pool <= Top
                              /\ Top <= dma_pool + DMA_POOL_SIZE /\ Top < U32
  BY Sizes DEF PoolInv, Top

Written(mem, addr, n, content) ==
  [a \in Pool |-> IF addr <= a /\ a < addr + n THEN content[a - addr] ELSE mem[a]]

\* A write lands where it is meant to, and nowhere else.
LEMMA Writes ==
  ASSUME PagingInv, NEW mem, NEW addr \in Nat, NEW n \in Nat, NEW content,
         DOMAIN content = 0..(n - 1), dma_pool <= addr, addr + n <= dma_pool + DMA_POOL_SIZE
  PROVE  Stored(mem, addr, content) = Written(mem, addr, n, content)
<1>1. \A k \in 0..(n - 1) : addr + k \in Addresses /\ addr + k \in Pool
  BY Sizes DEF Addresses, Pool
<1>2. \A k \in 0..(n - 1) : Mmu(addr + k) = addr + k
  BY <1>1, PagingIdentity DEF Identity
<1>3. ASSUME NEW a \in Pool
      PROVE  {k \in DOMAIN content : Mmu(addr + k) = a} = {k \in 0..(n - 1) : addr + k = a}
  BY <1>2
<1>4. \A a \in Pool : a \in Int
  BY Sizes DEF Pool
<1>5. ASSUME NEW a \in Pool, a < addr \/ a >= addr + n
      PROVE  Stored(mem, addr, content)[a] = mem[a]
  <2>1. {k \in 0..(n - 1) : addr + k = a} = {}
    BY <1>4, <1>5
  <2> QED
    BY <1>3, <2>1 DEF Stored
<1>6. ASSUME NEW a \in Pool, addr <= a, a < addr + n
      PROVE  Stored(mem, addr, content)[a] = content[a - addr]
  <2>1. {k \in 0..(n - 1) : addr + k = a} = {a - addr}
    BY <1>4, <1>6
  <2>2. {k \in DOMAIN content : Mmu(addr + k) = a} = {a - addr}
    BY <1>3, <2>1
  <2> QED
    BY <2>2 DEF Stored
<1> QED
  <2>1. Stored(mem, addr, content) = [a \in Pool |-> Stored(mem, addr, content)[a]]
    BY DEF Stored
  <2> QED
    BY <1>4, <1>5, <1>6, <2>1 DEF Written

\* A list stays where nothing is written before its limit.
LEMMA ListKept ==
  ASSUME NEW mem, NEW mem2, NEW qh \in Addresses, NEW td \in Addresses, NEW limit \in Nat,
         NEW limit2 \in Nat, limit <= limit2,
         \A a \in Pool : a < limit => mem2[a] = mem[a], Own(mem, qh, td, limit)
  PROVE  Own(mem2, qh, td, limit2)
<1>1. qh \in Nat /\ td \in Nat
  BY DEF Addresses
<1>2. \A k \in 0..(Qh.size - 1) : qh + k \in Pool /\ qh + k < limit
  BY <1>1, Sizes DEF Own, HasListIn
<1>3. \A k \in 0..(Td.size - 1) : td + k \in Pool /\ td + k < limit
  BY <1>1, Sizes DEF Own, HasListIn
<1>4. HasListIn(mem2, qh, td)
  BY <1>2, <1>3 DEF Own, HasListIn
<1> QED
  BY <1>1, <1>4, Sizes DEF Own

\* So do the lists of all controllers that run, if these keep their addresses.
LEMMA ListsKept ==
  ASSUME NEW mem, NEW mem2, NEW cs \in Seq(Controller), NEW cs2, NEW top \in Nat,
         NEW top2 \in Nat, top <= top2, \A a \in Pool : a < top => mem2[a] = mem[a],
         DOMAIN cs2 = DOMAIN cs,
         \A i \in DOMAIN cs : cs2[i].run = cs[i].run /\ (cs[i].run => cs2[i].async = cs[i].async),
         AllBefore(mem, cs, top)
  PROVE  AllBefore(mem2, cs2, top2) /\ (InOrder(mem, cs) => InOrder(mem2, cs2))
<1>1. \A i \in DOMAIN cs : cs[i].async \in Addresses /\ cs[i].async \in Nat
  <2> TAKE i \in DOMAIN cs
  <2>1. cs[i] \in Controller
    OBVIOUS
  <2> QED
    BY <2>1 DEF Controller, Addresses
<1>2. AllBefore(mem2, cs2, top2)
  <2> SUFFICES ASSUME NEW i \in DOMAIN cs, cs[i].run
               PROVE  Complete(mem2, cs[i].async, top2)
    BY DEF AllBefore
  <2>1. PICK td \in Addresses : Own(mem, cs[i].async, td, top)
    BY DEF AllBefore, Complete
  <2> QED
    BY <1>1, <2>1, ListKept DEF Complete
<1>3. ASSUME NEW i \in DOMAIN cs, NEW j \in DOMAIN cs, i < j, cs[i].run, cs[j].run,
             InOrder(mem, cs)
      PROVE  Complete(mem2, cs[i].async, cs[j].async)
  <2>1. PICK td \in Addresses : Own(mem, cs[i].async, td, cs[j].async)
    BY <1>3 DEF InOrder, Complete
  <2>2. PICK u \in Addresses : Own(mem, cs[j].async, u, top)
    BY <1>3 DEF AllBefore, Complete
  <2>3. cs[j].async <= top
    <3>1. /\ cs[j].async + Qh.size <= u /\ u + Td.size <= top
          /\ cs[j].async \in Nat /\ u \in Nat
      BY <1>1, <2>2, PoolSizes DEF Own, Addresses
    <3>2. Qh.size \in Nat /\ Td.size \in Nat
      BY Sizes
    <3> QED
      BY <3>1, <3>2
  <2>4. \A a \in Pool : a < cs[j].async => mem2[a] = mem[a]
    <3>1. \A a \in Pool : a < cs[j].async => a < top
      BY <1>1, <2>3, PoolPlaces DEF Addresses
    <3> QED
      BY <3>1
  <2>5. Own(mem2, cs[i].async, td, cs[j].async)
    <3>1. cs[i].async \in Addresses /\ cs[j].async \in Nat /\ cs[j].async <= cs[j].async
      BY <1>1
    <3> QED
      BY <2>1, <2>4, <3>1, ListKept
  <2> QED
    BY <2>5 DEF Complete
<1> QED
  BY <1>2, <1>3 DEF InOrder
-----------------------------------------------------------------------------
(* Types and status.                                                         *)

\* An allocation's block starts behind the last one and ends where the next may.
LEMMA NewBlock ==
  ASSUME GroundInv, NEW r \in Requests, DmaAlloc(r)
  PROVE  /\ BlockAddr(r) \in Addresses /\ Top <= BlockAddr(r)
         /\ Top \in Nat /\ Top' \in Nat /\ BlockAddr(r) + r.size <= Top' /\ Top <= Top'
         /\ r.alignment > 0 => BlockAddr(r) % r.alignment = 0
         /\ \A a \in Pool : a < Top => memory'[a] = memory[a]
<1>1. PoolInv /\ PoolInv' /\ PagingInv
  BY AllocKeeps DEF GroundInv
<1>2. /\ r.size \in Nat /\ dma_pool \in Nat /\ dma_pool_offset \in Nat
      /\ AlignOffset(r.alignment) \in Nat
      /\ dma_pool_offset' = dma_pool_offset + (AlignOffset(r.alignment) + r.size)
      /\ r.alignment > 0 => BlockAddr(r) % r.alignment = 0
  BY <1>1, PoolAssumption, Request DEF DmaAlloc, PoolInv
<1>3. Top \in Nat /\ Top' \in Nat /\ Top' < U32 /\ Top' <= dma_pool + DMA_POOL_SIZE
  <2>1. /\ dma_pool_offset \in Nat /\ dma_pool_offset <= DMA_POOL_SIZE
        /\ dma_pool_offset' \in Nat /\ dma_pool_offset' <= DMA_POOL_SIZE
    BY <1>1, PoolSizes DEF PoolInv
  <2>2. Top = dma_pool + dma_pool_offset /\ Top' = dma_pool + dma_pool_offset'
    BY DEF Top
  <2>3. ASSUME NEW offset \in Nat, offset <= DMA_POOL_SIZE
        PROVE  /\ dma_pool + offset \in Nat /\ dma_pool + offset < U32
               /\ dma_pool + offset <= dma_pool + DMA_POOL_SIZE
    BY <2>3, PoolSizes
  <2> QED
    BY <2>1, <2>2, <2>3
<1>4. BlockAddr(r) \in Nat /\ Top <= BlockAddr(r) /\ BlockAddr(r) + r.size = Top'
  BY <1>2 DEF Top, BlockAddr
<1>5. BlockAddr(r) \in Addresses
  BY <1>2, <1>3, <1>4, Sizes DEF Addresses
<1>6. \A a \in Pool : a < Top => memory'[a] = memory[a]
  <2> DEFINE zeros == [k \in 0..(r.size - 1) |-> Zero]
             addr == BlockAddr(r)
  <2>1. memory' = Stored(memory, addr, zeros) /\ DOMAIN zeros = 0..(r.size - 1)
    BY DEF DmaAlloc, Cleared
  <2>2. addr \in Nat /\ dma_pool <= addr /\ addr + r.size <= dma_pool + DMA_POOL_SIZE
    BY <1>2, <1>3, <1>4 DEF Top
  <2> HIDE DEF zeros, addr
  <2>3. Stored(memory, addr, zeros) = Written(memory, addr, r.size, zeros)
    BY <1>1, <1>2, <2>1, <2>2, Writes
  <2>4. \A a \in Pool : a < addr => memory'[a] = memory[a]
    <3>1. \A a \in Pool : a \in Nat
      BY Sizes DEF Pool
    <3> QED
      BY <2>1, <2>2, <2>3, <3>1 DEF Written
  <2>5. \A a \in Pool : a < Top => a < addr
    BY <1>3, <1>4, Sizes DEF Pool, addr
  <2> QED
    BY <2>4, <2>5
<1> QED
  BY <1>2, <1>3, <1>4, <1>5, <1>6

\* What the driver or a controller makes of one controller.
LEMMA Changed ==
  ASSUME NEW cs \in Seq(Controller), NEW i \in 1..Len(cs), NEW c \in Controller
  PROVE  /\ [cs EXCEPT ![i] = c] \in Seq(Controller)
         /\ Len([cs EXCEPT ![i] = c]) = Len(cs)
         /\ DOMAIN [cs EXCEPT ![i] = c] = 1..Len(cs)
         /\ \A j \in 1..Len(cs) : [cs EXCEPT ![i] = c][j] = IF j = i THEN c ELSE cs[j]
  BY ExceptSeq

\* A controller's own step.
LEMMA OwnStep ==
  ASSUME TypesInv, ControllerStep
  PROVE  \E i \in DOMAIN controllers, c \in Controller :
           /\ controllers' = [controllers EXCEPT ![i] = c]
           /\ c.run = controllers[i].run /\ c.async = controllers[i].async
           /\ c.configured = controllers[i].configured
           /\ ~controllers[i].reset => ~c.reset
           /\ ~controllers[i].reset /\ controllers[i].run => ~c.halted
<1>1. PICK i \in DOMAIN controllers :
        \/ \E halted \in {controllers[i].halted, TRUE} :
             /\ controllers[i].reset
             /\ controllers' = [controllers EXCEPT ![i].reset = FALSE, ![i].halted = halted]
        \/ /\ controllers[i].halted = controllers[i].run
           /\ controllers' = [controllers EXCEPT ![i].halted = ~controllers[i].run]
  BY DEF ControllerStep
<1>2. controllers[i] \in Controller
  BY DEF TypesInv
<1>3. CASE \E halted \in {controllers[i].halted, TRUE} :
             /\ controllers[i].reset
             /\ controllers' = [controllers EXCEPT ![i].reset = FALSE, ![i].halted = halted]
  <2>1. PICK halted \in {controllers[i].halted, TRUE} :
               controllers' = [controllers EXCEPT ![i].reset = FALSE, ![i].halted = halted]
    BY <1>3
  <2> DEFINE c == [controllers[i] EXCEPT !.reset = FALSE, !.halted = halted]
  <2>2. controllers' = [controllers EXCEPT ![i] = c]
    BY <2>1
  <2>3. /\ c \in Controller /\ c.run = controllers[i].run /\ c.async = controllers[i].async
        /\ c.configured = controllers[i].configured /\ ~c.reset
    BY <1>2 DEF Controller
  <2> QED
    BY <1>3, <2>2, <2>3
<1>4. CASE /\ controllers[i].halted = controllers[i].run
           /\ controllers' = [controllers EXCEPT ![i].halted = ~controllers[i].run]
  <2> DEFINE c == [controllers[i] EXCEPT !.halted = ~controllers[i].run]
  <2>1. controllers' = [controllers EXCEPT ![i] = c]
    BY <1>4
  <2>2. /\ c \in Controller /\ c.run = controllers[i].run /\ c.async = controllers[i].async
        /\ c.configured = controllers[i].configured /\ c.reset = controllers[i].reset
        /\ c.run => ~c.halted
    BY <1>2 DEF Controller
  <2> QED
    BY <2>1, <2>2
<1> QED
  BY <1>1, <1>3, <1>4

\* The driver's steps, by what they do to its controllers.
LEMMA ThisController ==
  ASSUME TypesInv, This > 0
  PROVE  This \in 1..Len(controllers) /\ This \in DOMAIN controllers /\ Reg \in Controller
  BY DEF TypesInv, This, Reg

\* What MapAndReset finds at an address.
LEMMA Mapping ==
  ASSUME MapAndReset
  PROVE  \E c \in Controller : controllers' = Append(controllers, c) /\ ~c.run
<1>1. PICK kind \in Kinds, halted \in BOOLEAN :
        controllers' = Append(controllers,
           [kind |-> kind, reset |-> kind # "zeros", run |-> FALSE, halted |-> halted,
            configured |-> FALSE, async |-> 0])
  BY DEF MapAndReset, Kinds
<1> DEFINE c == [kind |-> kind, reset |-> kind # "zeros", run |-> FALSE, halted |-> halted,
                 configured |-> FALSE, async |-> 0]
<1>2. 0 \in Addresses
  BY Sizes DEF Addresses
<1>3. c \in Controller /\ ~c.run
  BY <1>2 DEF Controller
<1> QED
  BY <1>1, <1>3

LEMMA TypesNext == GroundInv /\ TypesInv /\ StatusInv /\ ENext => TypesInv'
<1> SUFFICES ASSUME GroundInv, TypesInv, StatusInv, ENext
             PROVE  TypesInv'
  OBVIOUS
<1>1. CASE MapAndReset
  <2>1. PICK c \in Controller : controllers' = Append(controllers, c)
    BY <1>1, Mapping
  <2> QED
    BY <1>1, <2>1 DEF MapAndReset, TypesInv, OnlyInit
<1>2. CASE Halted \/ SetupAsyncList \/ Run
  <2>1. This > 0 /\ UNCHANGED <<async_qh, dummy_td>>
    BY <1>2 DEF Halted, SetupAsyncList, Run, StatusInv, Mapped, From, OnlyInit
  <2>2. PICK c \in Controller : SetReg(c)
    <3>1. [Reg EXCEPT !.configured = TRUE] \in Controller
      BY <2>1, ThisController DEF Controller
    <3>2. [Reg EXCEPT !.async = async_qh] \in Controller
      BY <2>1, ThisController DEF Controller, TypesInv
    <3>3. [Reg EXCEPT !.run = TRUE] \in Controller
      BY <2>1, ThisController DEF Controller
    <3> QED
      BY <1>2, <3>1, <3>2, <3>3 DEF Halted, SetupAsyncList, Run
  <2> QED
    BY <2>1, <2>2, ThisController, Changed DEF SetReg, TypesInv
<1>3. CASE AllocQh \/ AllocTd
  BY <1>3, NewBlock, Sizes DEF AllocQh, AllocTd, TypesInv
<1>4. CASE ControllerStep
  <2>1. PICK i \in DOMAIN controllers, c \in Controller :
          controllers' = [controllers EXCEPT ![i] = c]
    BY <1>4, OwnStep
  <2>2. i \in 1..Len(controllers)
    BY DEF TypesInv
  <2> QED
    BY <1>4, <2>1, <2>2, Changed DEF ControllerStep, TypesInv
<1>5. CASE UNCHANGED <<controllers, async_qh, dummy_td>>
  BY <1>5 DEF TypesInv
<1>6. \/ MapAndReset \/ Halted \/ SetupAsyncList \/ Run \/ AllocQh \/ AllocTd \/ ControllerStep
      \/ UNCHANGED <<controllers, async_qh, dummy_td>>
  BY DEF ENext, Spin, Boot, Client, InitAuto, Find, Drive, Driver, InitAutoFound, MapFails,
         ResetDone, ResetTimeout, AllocFails, Started, StartTimeout, OnlyInit, evars
<1> QED
  BY <1>1, <1>2, <1>3, <1>4, <1>5, <1>6

\* A failed try leads to the next address or to the end.
LEMMA FailsTo ==
  ASSUME NEW here \in STRING, Fails(here)
  PROVE  init' \in {"map", "failed"} /\ init = here
  BY DEF Fails

LEMMA StatusNext == TypesInv /\ StatusInv /\ ENext => StatusInv'
<1> SUFFICES ASSUME TypesInv, StatusInv, ENext
             PROVE  StatusInv'
  OBVIOUS
<1> USE DEF Mapped, Started_
<1>1. CASE InitAuto
  BY <1>1 DEF InitAuto, From, OnlyInit, StatusInv
<1>2. CASE InitAutoFound /\ UNCHANGED vars
  <2>1. /\ init' \in {"map", "failed"} /\ init = "search" /\ initialized' = initialized
        /\ ret' = ret /\ (ret.found = 1 => enabled')
    BY <1>2 DEF InitAutoFound, Fails, vars
  <2> QED
    BY <2>1 DEF StatusInv
<1>10. CASE MapAndReset /\ UNCHANGED vars
  <2>1. PICK c \in Controller : controllers' = Append(controllers, c) /\ ~c.run
    BY <1>10, Mapping
  <2>2. This \in Nat /\ This' = This + 1 /\ Reg' = c
    BY <2>1 DEF This, Reg, TypesInv
  <2>3. /\ init = "map" /\ init' = "reset" /\ initialized' = initialized
        /\ enabled' = enabled /\ ret' = ret
    BY <1>10 DEF MapAndReset, From, OnlyInit, vars
  <2>4. This' > 0 /\ ~Reg'.run
    BY <2>1, <2>2
  <2> QED
    BY <2>3, <2>4 DEF StatusInv
<1>3. CASE (MapFails \/ ResetTimeout \/ AllocFails \/ StartTimeout) /\ UNCHANGED vars
  BY <1>3 DEF MapFails, ResetTimeout, AllocFails, StartTimeout, Fails, StatusInv, vars
<1>4. CASE ResetDone /\ UNCHANGED vars
  BY <1>4 DEF ResetDone, From, OnlyInit, StatusInv, vars, This, Reg
<1>5. CASE (Halted \/ SetupAsyncList \/ Run) /\ UNCHANGED vars
  <2>1. This > 0
    BY <1>5 DEF Halted, SetupAsyncList, Run, StatusInv, From
  <2>2. Reg \in Controller /\ This \in 1..Len(controllers)
    BY <2>1, ThisController
  <2>3. CASE Halted
    <3> DEFINE c == [Reg EXCEPT !.configured = TRUE]
    <3>1. /\ c \in Controller /\ c.configured
          /\ c.run = Reg.run /\ c.reset = Reg.reset /\ c.halted = Reg.halted
      BY <2>2 DEF Controller
    <3>2. SetReg(c)
      BY <2>3 DEF Halted
    <3> HIDE DEF c
    <3>3. This' = This /\ Reg' = c
      BY <2>2, <3>1, <3>2, Changed DEF SetReg, TypesInv, This, Reg
    <3> QED
      BY <1>5, <2>3, <3>1, <3>3 DEF Halted, From, OnlyInit, StatusInv, vars
  <2>4. CASE SetupAsyncList
    <3> DEFINE c == [Reg EXCEPT !.async = async_qh]
    <3>1. /\ c \in Controller /\ c.configured = Reg.configured
          /\ c.run = Reg.run /\ c.reset = Reg.reset /\ c.halted = Reg.halted
      BY <2>2 DEF Controller, TypesInv
    <3>2. SetReg(c)
      BY <2>4 DEF SetupAsyncList
    <3> HIDE DEF c
    <3>3. This' = This /\ Reg' = c
      BY <2>2, <3>1, <3>2, Changed DEF SetReg, TypesInv, This, Reg
    <3> QED
      BY <1>5, <2>4, <3>1, <3>3 DEF SetupAsyncList, From, OnlyInit, StatusInv, vars
  <2>5. CASE Run
    <3> DEFINE c == [Reg EXCEPT !.run = TRUE]
    <3>1. /\ c \in Controller /\ c.configured = Reg.configured
          /\ c.run /\ c.reset = Reg.reset /\ c.halted = Reg.halted
      BY <2>2 DEF Controller
    <3>2. SetReg(c)
      BY <2>5 DEF Run
    <3> HIDE DEF c
    <3>3. This' = This /\ Reg' = c
      BY <2>2, <3>1, <3>2, Changed DEF SetReg, TypesInv, This, Reg
    <3> QED
      BY <1>5, <2>5, <3>1, <3>3 DEF Run, From, OnlyInit, StatusInv, vars
  <2> QED
    BY <1>5, <2>3, <2>4, <2>5
<1>6. CASE (AllocQh \/ AllocTd) /\ UNCHANGED vars
  BY <1>6 DEF AllocQh, AllocTd, From, StatusInv, vars, This, Reg
<1>7. CASE Started /\ UNCHANGED vars
  BY <1>7 DEF Started, From, StatusInv, vars, This, Reg
<1>8. CASE ControllerStep
  <2>1. PICK i \in DOMAIN controllers, c \in Controller :
           /\ controllers' = [controllers EXCEPT ![i] = c]
           /\ c.run = controllers[i].run
           /\ c.configured = controllers[i].configured
           /\ ~controllers[i].reset => ~c.reset
           /\ ~controllers[i].reset /\ controllers[i].run => ~c.halted
    BY <1>8, OwnStep
  <2>2. This' = This /\ i \in 1..Len(controllers)
    BY <2>1, Changed DEF TypesInv, This
  <2>3. This > 0 => /\ Reg'.run = Reg.run /\ Reg'.configured = Reg.configured
                    /\ ~Reg.reset => ~Reg'.reset
                    /\ ~Reg.reset /\ Reg.run /\ ~Reg.halted => ~Reg'.halted
    BY <2>1, <2>2, ThisController, Changed DEF TypesInv, Reg
  <2> QED
    BY <1>8, <2>2, <2>3 DEF ControllerStep, StatusInv, vars
<1>9. CASE UNCHANGED evars /\ (init = "no" \/ init = "search" \/ UNCHANGED vars)
  BY <1>9 DEF evars, vars, StatusInv, This, Reg
<1> QED
  BY <1>1, <1>2, <1>3, <1>4, <1>5, <1>6, <1>7, <1>8, <1>9, <1>10
     DEF ENext, Spin, Boot, Client, Find, Drive, Driver
-----------------------------------------------------------------------------
(* The lists, and how far this try's is.                                     *)

\* What the steps that write no list do with the pool and the controllers.
KeepsLists ==
  /\ Top' \in Nat /\ Top <= Top' /\ \A a \in Pool : a < Top => memory'[a] = memory[a]
  /\ DOMAIN controllers' = DOMAIN controllers
  /\ \A i \in DOMAIN controllers : /\ controllers'[i].run = controllers[i].run
                                   /\ controllers'[i].async = controllers[i].async

LEMMA KeptLists ==
  ASSUME GroundInv, TypesInv, ListsInv, KeepsLists
  PROVE  /\ ListsInv'
         /\ \A limit \in Nat : Top <= limit => AllBefore(memory', controllers', limit)
         /\ \A limit \in Nat : limit <= Top /\ AllBefore(memory, controllers, limit) =>
              AllBefore(memory', controllers', limit)
<1>1. Top \in Nat /\ Top' \in Nat
  BY TopInPool DEF GroundInv, KeepsLists
<1>2. AllBefore(memory', controllers', Top') /\ InOrder(memory', controllers')
  BY <1>1, ListsKept DEF TypesInv, ListsInv, KeepsLists
<1>3. ListsInv'
  BY <1>2 DEF ListsInv
<1>4. ASSUME NEW limit \in Nat, Top <= limit
      PROVE  AllBefore(memory', controllers', limit)
  BY <1>1, <1>4, ListsKept DEF TypesInv, ListsInv, KeepsLists
<1>5. ASSUME NEW limit \in Nat, limit <= Top, AllBefore(memory, controllers, limit)
      PROVE  AllBefore(memory', controllers', limit)
  <2>1. \A a \in Pool : a < limit => memory'[a] = memory[a]
    <3>1. \A a \in Pool : a < limit => a < Top
      BY <1>1, <1>5, PoolPlaces
    <3> QED
      BY <3>1 DEF KeepsLists
  <2>2. /\ controllers \in Seq(Controller) /\ limit <= limit
        /\ DOMAIN controllers' = DOMAIN controllers
        /\ \A i \in DOMAIN controllers :
             /\ controllers'[i].run = controllers[i].run
             /\ controllers[i].run => controllers'[i].async = controllers[i].async
    BY DEF TypesInv, KeepsLists
  <2>3. ASSUME NEW i \in DOMAIN controllers, controllers[i].run
        PROVE  Complete(memory', controllers[i].async, limit)
    <3>1. PICK td \in Addresses : Own(memory, controllers[i].async, td, limit)
      BY <1>5, <2>3 DEF AllBefore, Complete
    <3>2. controllers[i] \in Controller
      BY <2>2
    <3>4. controllers[i].async \in Addresses
      BY <3>2 DEF Controller, Addresses
    <3>3. Own(memory', controllers[i].async, td, limit)
      BY <2>1, <3>1, <3>4, ListKept
    <3> QED
      BY <3>3 DEF Complete
  <2> QED
    BY <2>2, <2>3 DEF AllBefore
<1> QED
  BY <1>3, <1>4, <1>5

\* They do not disturb this try's list either.
LEMMA KeptStage ==
  ASSUME GroundInv, TypesInv, StatusInv, ListsInv, StageInv, KeepsLists,
         \/ init' = init
         \/ init' \in {"search", "map", "failed", "halt", "qh"}
         \/ init = "started" /\ init' = "yes",
         UNCHANGED <<async_qh, dummy_td>>
  PROVE  StageInv'
<1>1. /\ Top \in Nat /\ Top' \in Nat /\ Top <= Top'
      /\ async_qh \in Nat /\ dummy_td \in Nat
  BY TopInPool DEF GroundInv, KeepsLists, TypesInv, Addresses
<1>2. init \in {"td", "list", "run"} => async_qh <= Top
  BY <1>1, Sizes DEF StageInv, Own
<1>3. init' \in {"td", "list", "run"} =>
        /\ dma_pool <= async_qh' /\ async_qh' % Qh.alignment = 0
        /\ AllBefore(memory', controllers', async_qh')
  BY <1>1, <1>2, KeptLists DEF StageInv
<1>4. init' = "td" => async_qh' + Qh.size <= Top'
  BY <1>1, Sizes DEF StageInv
<1>5. init' = "list" =>
        /\ async_qh' + Qh.size <= dummy_td' /\ dummy_td' + Td.size <= Top'
        /\ dummy_td' % Td.alignment = 0
  BY <1>1, Sizes DEF StageInv
<1>6. ASSUME init' \in {"run"} \cup Started_
      PROVE  Own(memory', async_qh', dummy_td', Top') /\ Reg'.async = async_qh'
  <2>1. Own(memory, async_qh, dummy_td, Top) /\ Reg.async = async_qh /\ This > 0
    BY <1>6 DEF StageInv, StatusInv, Mapped, Started_
  <2>2. Own(memory', async_qh, dummy_td, Top')
    BY <1>1, <2>1, ListKept DEF KeepsLists, TypesInv
  <2>3. This' = This
    BY DEF KeepsLists, This
  <2>4. Reg'.async = Reg.async
    BY <2>1, <2>3, ThisController DEF KeepsLists, Reg
  <2> QED
    BY <2>1, <2>2, <2>4
<1> QED
  BY <1>3, <1>4, <1>5, <1>6 DEF StageInv

\* The steps that leave memory alone, or write behind all lists only.
LEMMA AllocStage ==
  ASSUME ListInv, AllocQh \/ AllocTd
  PROVE  ListsInv' /\ StageInv'
<1>1. PICK r \in Requests : DmaAlloc(r) /\ (AllocQh => r = Qh) /\ (AllocTd => r = Td)
  <2>1. CASE AllocQh
    BY <2>1, Sizes DEF AllocQh, AllocTd, From
  <2>2. CASE AllocTd
    BY <2>2, Sizes DEF AllocQh, AllocTd, From
  <2> QED
    BY <2>1, <2>2
<1>2. /\ BlockAddr(r) \in Addresses /\ Top <= BlockAddr(r)
      /\ Top \in Nat /\ Top' \in Nat /\ BlockAddr(r) + r.size <= Top' /\ Top <= Top'
      /\ r.alignment > 0 => BlockAddr(r) % r.alignment = 0
      /\ \A a \in Pool : a < Top => memory'[a] = memory[a]
  BY <1>1, NewBlock DEF ListInv
<1>3. KeepsLists /\ controllers' = controllers
  BY <1>2 DEF KeepsLists, AllocQh, AllocTd
<1>4. BlockAddr(r) \in Nat /\ dma_pool <= Top
  BY <1>2, TopInPool DEF Addresses, ListInv, GroundInv
<1>5. CASE AllocQh
  <2>1. init' = "td" /\ async_qh' = BlockAddr(Qh) /\ r = Qh
    BY <1>1, <1>5 DEF AllocQh, From
  <2>2. AllBefore(memory', controllers', async_qh')
    BY <1>1, <1>2, <1>3, <1>4, <2>1, KeptLists DEF ListInv
  <2>3. /\ dma_pool <= async_qh' /\ async_qh' % Qh.alignment = 0
        /\ async_qh' + Qh.size <= Top'
    BY <1>1, <1>2, <1>4, <2>1, Sizes
  <2> QED
    BY <1>3, <2>1, <2>2, <2>3, KeptLists DEF ListInv, StageInv, Started_
<1>6. CASE AllocTd
  <2>1. /\ init = "td" /\ init' = "list" /\ dummy_td' = BlockAddr(Td) /\ async_qh' = async_qh
        /\ r = Td
    BY <1>1, <1>6 DEF AllocTd, From
  <2>2. /\ dma_pool <= async_qh /\ async_qh % Qh.alignment = 0 /\ async_qh \in Nat
        /\ AllBefore(memory, controllers, async_qh) /\ async_qh + Qh.size <= Top
    BY <2>1 DEF ListInv, StageInv, TypesInv, Addresses
  <2>3. AllBefore(memory', controllers', async_qh')
    BY <1>2, <1>3, <2>1, <2>2, Sizes, KeptLists DEF ListInv
  <2>4. /\ async_qh' + Qh.size <= dummy_td' /\ dummy_td' + Td.size <= Top'
        /\ dummy_td' % Td.alignment = 0
    BY <1>2, <1>4, <2>1, <2>2, Sizes
  <2> QED
    BY <1>3, <2>1, <2>2, <2>3, <2>4, KeptLists DEF ListInv, StageInv, Started_
<1> QED
  BY <1>5, <1>6

\* setup_async_list writes behind the lists of the other controllers.
LEMMA SetupStage ==
  ASSUME ListInv, SetupAsyncList
  PROVE  ListsInv' /\ StageInv'
<1> DEFINE qhb == QhBytes(async_qh, dummy_td)
           mem1 == Stored(memory, async_qh, qhb)
           c == [Reg EXCEPT !.async = async_qh]
<1>1. /\ init = "list" /\ init' = "run" /\ async_qh' = async_qh /\ dummy_td' = dummy_td
      /\ Top' = Top /\ memory' = Stored(mem1, dummy_td, TdBytes) /\ SetReg(c)
  BY DEF SetupAsyncList, From, OnlyInit, Top
<1>2. /\ dma_pool <= async_qh /\ async_qh % Qh.alignment = 0 /\ async_qh \in Nat
      /\ AllBefore(memory, controllers, async_qh)
      /\ async_qh + Qh.size <= dummy_td /\ dummy_td + Td.size <= Top
      /\ dummy_td % Td.alignment = 0 /\ dummy_td \in Nat
  BY <1>1 DEF ListInv, StageInv, TypesInv, Addresses
<1>3. /\ Top \in Nat /\ Top <= dma_pool + DMA_POOL_SIZE /\ PagingInv
  BY TopInPool DEF ListInv, GroundInv
<1>4. DOMAIN qhb = 0..(Qh.size - 1) /\ DOMAIN TdBytes = 0..(Td.size - 1)
  BY DEF QhBytes, TdBytes
<1>5. /\ \A a \in Pool : a < async_qh \/ a >= async_qh + Qh.size => mem1[a] = memory[a]
      /\ \A k \in 0..(Qh.size - 1) : async_qh + k \in Pool /\ mem1[async_qh + k] = qhb[k]
  <2> HIDE DEF qhb
  <2>1. /\ async_qh + Qh.size <= dma_pool + DMA_POOL_SIZE /\ dma_pool <= async_qh
        /\ Qh.size \in Nat /\ async_qh \in Nat /\ PagingInv
    BY <1>2, <1>3, Sizes
  <2>2. Stored(memory, async_qh, qhb) = Written(memory, async_qh, Qh.size, qhb)
    BY <1>4, <2>1, Writes
  <2>3. \A a \in Pool : a \in Nat
    BY Sizes DEF Pool
  <2>4. ASSUME NEW k \in 0..(Qh.size - 1)
        PROVE  async_qh + k \in Pool /\ Stored(memory, async_qh, qhb)[async_qh + k] = qhb[k]
    <3>1. async_qh + k \in Pool
      BY <2>1, Sizes DEF Pool
    <3>2. Stored(memory, async_qh, qhb)[async_qh + k] = qhb[(async_qh + k) - async_qh]
      BY <2>1, <2>2, <3>1 DEF Written
    <3> QED
      BY <2>1, <3>1, <3>2
  <2>5. ASSUME NEW a \in Pool, a < async_qh \/ a >= async_qh + Qh.size
        PROVE  Stored(memory, async_qh, qhb)[a] = memory[a]
    <3>1. a \in Nat /\ a \notin async_qh..(async_qh + Qh.size - 1)
      BY <2>1, <2>3, <2>5
    <3> QED
      BY <2>1, <2>2, <2>3, <2>5, <3>1 DEF Written
  <2> QED
    BY <2>4, <2>5
<1>6. /\ \A a \in Pool : a < dummy_td \/ a >= dummy_td + Td.size => memory'[a] = mem1[a]
      /\ \A k \in 0..(Td.size - 1) : dummy_td + k \in Pool /\ memory'[dummy_td + k] = TdBytes[k]
  <2> HIDE DEF mem1, qhb
  <2>1. /\ dummy_td + Td.size <= dma_pool + DMA_POOL_SIZE /\ dma_pool <= dummy_td
        /\ Td.size \in Nat /\ dummy_td \in Nat /\ PagingInv
    BY <1>2, <1>3, Sizes
  <2>2. Stored(mem1, dummy_td, TdBytes) = Written(mem1, dummy_td, Td.size, TdBytes)
    BY <1>4, <2>1, Writes
  <2>3. \A a \in Pool : a \in Nat
    BY Sizes DEF Pool
  <2>4. ASSUME NEW k \in 0..(Td.size - 1)
        PROVE  dummy_td + k \in Pool /\ Stored(mem1, dummy_td, TdBytes)[dummy_td + k] = TdBytes[k]
    <3>1. dummy_td + k \in Pool
      BY <2>1, Sizes DEF Pool
    <3>2. Stored(mem1, dummy_td, TdBytes)[dummy_td + k] = TdBytes[(dummy_td + k) - dummy_td]
      BY <2>1, <2>2, <3>1 DEF Written
    <3> QED
      BY <2>1, <3>1, <3>2
  <2>5. ASSUME NEW a \in Pool, a < dummy_td \/ a >= dummy_td + Td.size
        PROVE  Stored(mem1, dummy_td, TdBytes)[a] = mem1[a]
    <3>1. a \in Nat /\ a \notin dummy_td..(dummy_td + Td.size - 1)
      BY <2>1, <2>3, <2>5
    <3> QED
      BY <2>1, <2>2, <2>3, <2>5, <3>1 DEF Written
  <2> QED
    BY <1>1, <2>4, <2>5
<1> HIDE DEF mem1, qhb
<1>7. \A a \in Pool : a < async_qh => memory'[a] = memory[a]
  BY <1>2, <1>5, <1>6, Sizes DEF Pool
<1>8. \A k \in 0..(Qh.size - 1) : memory'[async_qh + k] = qhb[k]
  <2> TAKE k \in 0..(Qh.size - 1)
  <2>1. async_qh + k \in Pool /\ async_qh + k < dummy_td
    BY <1>2, <1>5, Sizes
  <2> QED
    BY <1>5, <1>6, <2>1
<1>9. Own(memory', async_qh, dummy_td, Top)
  BY <1>2, <1>5, <1>6, <1>8 DEF Own, HasListIn, qhb
<1>10. This > 0 /\ ~Reg.run /\ c \in Controller /\ This \in 1..Len(controllers)
  <2>1. This > 0 /\ ~Reg.run
    BY <1>1 DEF ListInv, StatusInv, Mapped
  <2> QED
    BY <2>1, ThisController DEF ListInv, TypesInv, Controller
<1>11. c.run = Reg.run /\ c.async = async_qh
  BY <1>10, ThisController DEF ListInv, Controller
<1> HIDE DEF c
<1>12. /\ DOMAIN controllers' = DOMAIN controllers /\ Len(controllers') = Len(controllers)
       /\ \A i \in DOMAIN controllers : controllers'[i] = IF i = This THEN c ELSE controllers[i]
  BY <1>1, <1>10, Changed DEF SetReg, ListInv, TypesInv
<1>13. \A i \in DOMAIN controllers : /\ controllers'[i].run = controllers[i].run
                                     /\ controllers[i].run =>
                                          controllers'[i].async = controllers[i].async
  BY <1>10, <1>11, <1>12 DEF Reg
<1>14. /\ AllBefore(memory', controllers', async_qh) /\ AllBefore(memory', controllers', Top)
       /\ InOrder(memory', controllers')
  <2>1. async_qh <= Top
    BY <1>2, <1>3, Sizes
  <2>2. controllers \in Seq(Controller) /\ InOrder(memory, controllers)
    BY DEF ListInv, ListsInv, TypesInv
  <2>3. AllBefore(memory', controllers', async_qh) /\ InOrder(memory', controllers')
    BY <1>2, <1>7, <1>12, <1>13, <2>2, ListsKept
  <2>4. AllBefore(memory', controllers', Top)
    <3>1. DOMAIN controllers' = DOMAIN controllers /\ async_qh \in Nat /\ Top \in Nat
      BY <1>2, <1>3, <1>12
    <3>2. AllBefore(memory, controllers, async_qh)
      BY <1>2
    <3> QED
      BY <1>7, <1>13, <2>1, <2>2, <3>1, <3>2, ListsKept
  <2> QED
    BY <2>3, <2>4
<1>15. Reg'.async = async_qh
  BY <1>10, <1>11, <1>12 DEF Reg, This
<1>16. ListsInv'
  BY <1>1, <1>14 DEF ListsInv
<1> QED
  BY <1>1, <1>2, <1>9, <1>14, <1>15, <1>16 DEF StageInv, Started_

\* The controller told to run is the last one, and its list the last one.
LEMMA RunStage ==
  ASSUME ListInv, Run
  PROVE  ListsInv' /\ StageInv'
<1> DEFINE c == [Reg EXCEPT !.run = TRUE]
<1>1. /\ init = "run" /\ init' = "started" /\ async_qh' = async_qh /\ dummy_td' = dummy_td
      /\ Top' = Top /\ memory' = memory /\ SetReg(c)
  BY DEF Run, From, OnlyInit, NoDma, dvars, Top
<1>2. /\ AllBefore(memory, controllers, async_qh) /\ Own(memory, async_qh, dummy_td, Top)
      /\ Reg.async = async_qh
  BY <1>1 DEF ListInv, StageInv
<1>3. This > 0 /\ c \in Controller /\ This \in 1..Len(controllers)
  <2>1. This > 0
    BY <1>1 DEF ListInv, StatusInv, Mapped
  <2> QED
    BY <2>1, ThisController DEF ListInv, TypesInv, Controller
<1>4. c.async = async_qh
  BY <1>2, <1>3, ThisController DEF ListInv, Controller
<1> HIDE DEF c
<1>5. /\ DOMAIN controllers' = DOMAIN controllers /\ Len(controllers') = Len(controllers)
      /\ DOMAIN controllers = 1..This /\ This \in Nat
      /\ \A i \in DOMAIN controllers : controllers'[i] = IF i = This THEN c ELSE controllers[i]
  BY <1>1, <1>3, Changed DEF SetReg, ListInv, TypesInv, This
<1>6. Complete(memory, async_qh, Top)
  BY <1>2 DEF Complete, ListInv, TypesInv
<1>7. AllBefore(memory, controllers', Top)
  <2> SUFFICES ASSUME NEW i \in DOMAIN controllers, controllers'[i].run
               PROVE  Complete(memory, controllers'[i].async, Top)
    BY <1>5 DEF AllBefore
  <2>1. CASE i = This
    BY <1>4, <1>5, <1>6, <2>1
  <2>2. CASE i # This
    BY <1>5, <2>2 DEF ListInv, ListsInv, AllBefore
  <2> QED
    BY <2>1, <2>2
<1>8. InOrder(memory, controllers')
  <2> SUFFICES ASSUME NEW i \in DOMAIN controllers, NEW j \in DOMAIN controllers, i < j,
                      controllers'[i].run, controllers'[j].run
               PROVE  Complete(memory, controllers'[i].async, controllers'[j].async)
    BY <1>5 DEF InOrder
  <2>1. i # This /\ controllers'[i] = controllers[i]
    BY <1>5
  <2>2. CASE j = This
    BY <1>2, <1>4, <1>5, <2>1, <2>2 DEF AllBefore
  <2>3. CASE j # This
    BY <1>5, <2>1, <2>3 DEF ListInv, ListsInv, InOrder
  <2> QED
    BY <2>2, <2>3
<1>9. Reg'.async = async_qh
  BY <1>3, <1>4, <1>5 DEF Reg, This
<1>10. ListsInv'
  BY <1>1, <1>7, <1>8 DEF ListsInv
<1> QED
  BY <1>1, <1>2, <1>9, <1>10 DEF StageInv, Started_

\* A controller just mapped has not been told to run.
LEMMA MapStage ==
  ASSUME ListInv, MapAndReset
  PROVE  ListsInv' /\ StageInv'
<1>1. PICK c \in Controller : controllers' = Append(controllers, c) /\ ~c.run
  BY Mapping
<1>2. init' = "reset" /\ memory' = memory /\ Top' = Top
  BY DEF MapAndReset, From, NoDma, dvars, Top
<1>3. /\ DOMAIN controllers = 1..This /\ DOMAIN controllers' = 1..(This + 1) /\ This \in Nat
      /\ \A i \in 1..This : controllers'[i] = controllers[i]
      /\ controllers'[This + 1] = c
  BY <1>1 DEF ListInv, TypesInv, This
<1>4. \A i \in DOMAIN controllers' :
        controllers'[i].run => i \in DOMAIN controllers /\ controllers'[i] = controllers[i]
  BY <1>1, <1>3
<1>5. AllBefore(memory, controllers', Top)
  BY <1>4 DEF AllBefore, ListInv, ListsInv
<1>6. InOrder(memory, controllers')
  BY <1>4 DEF InOrder, ListInv, ListsInv
<1> QED
  BY <1>2, <1>5, <1>6 DEF ListsInv, StageInv, Started_

LEMMA OtherStages ==
  ASSUME ListInv, ENext
  PROVE  \/ AllocQh \/ AllocTd \/ SetupAsyncList \/ Run \/ MapAndReset
         \/ /\ KeepsLists /\ UNCHANGED <<async_qh, dummy_td>>
            /\ \/ init' = init
               \/ init' \in {"search", "map", "failed", "halt", "qh"}
               \/ init = "started" /\ init' = "yes"
<1> USE DEF ListInv
<1>1. Top \in Nat
  BY TopInPool DEF GroundInv
<1>2. ASSUME UNCHANGED <<controllers, dvars>>
      PROVE  KeepsLists
  BY <1>1, <1>2 DEF KeepsLists, dvars, Top
<1>3. CASE Spin \/ Boot \/ Find
  <2>1. UNCHANGED <<evars, memory, dma_pool_offset>>
    BY <1>3 DEF Spin, Boot, Find, dvars
  <2> QED
    BY <1>1, <2>1 DEF KeepsLists, evars, Top
<1>4. CASE InitAuto
  BY <1>2, <1>4 DEF InitAuto, From, NoDma, OnlyInit
<1>5. CASE Client
  <2>1. CASE \E r \in Requests : DmaAlloc(r)
    <3>1. PICK r \in Requests : DmaAlloc(r)
      BY <2>1
    <3>2. /\ Top' \in Nat /\ Top <= Top' /\ \A a \in Pool : a < Top => memory'[a] = memory[a]
      BY <3>1, NewBlock
    <3> QED
      BY <1>5, <3>2 DEF KeepsLists, Client, evars
  <2>2. CASE \E virt : DmaFree(virt)
    BY <1>1, <1>5, <2>2 DEF KeepsLists, Client, DmaFree, evars, Top
  <2> QED
    BY <1>5, <2>1, <2>2, EhciAssumption DEF Client
<1>6. CASE ControllerStep
  <2>1. PICK i \in DOMAIN controllers, c \in Controller :
           /\ controllers' = [controllers EXCEPT ![i] = c]
           /\ c.run = controllers[i].run /\ c.async = controllers[i].async
    BY <1>6, OwnStep
  <2>2. /\ DOMAIN controllers' = DOMAIN controllers
        /\ \A j \in DOMAIN controllers : /\ controllers'[j].run = controllers[j].run
                                         /\ controllers'[j].async = controllers[j].async
    BY <2>1
  <2>3. UNCHANGED <<init, async_qh, dummy_td, memory, dma_pool_offset>>
    BY <1>6 DEF ControllerStep, dvars
  <2> QED
    BY <1>1, <2>2, <2>3 DEF KeepsLists, Top
<1>7. CASE Halted
  <2> DEFINE c == [Reg EXCEPT !.configured = TRUE]
  <2>1. init = "halt" /\ init' = "qh" /\ SetReg(c) /\ UNCHANGED <<async_qh, dummy_td, dvars>>
    BY <1>7 DEF Halted, From, OnlyInit, NoDma
  <2>2. This > 0 /\ This \in 1..Len(controllers) /\ Reg \in Controller
    BY <2>1, ThisController DEF StatusInv, Mapped
  <2>3. c \in Controller /\ c.run = Reg.run /\ c.async = Reg.async
    BY <2>2 DEF Controller
  <2> HIDE DEF c
  <2>4. /\ DOMAIN controllers' = DOMAIN controllers
        /\ \A j \in DOMAIN controllers : /\ controllers'[j].run = controllers[j].run
                                         /\ controllers'[j].async = controllers[j].async
    BY <2>1, <2>2, <2>3, Changed DEF SetReg, TypesInv, Reg
  <2> QED
    BY <1>1, <2>1, <2>4 DEF KeepsLists, dvars, Top
<1>8. CASE InitAutoFound \/ MapFails \/ ResetDone \/ ResetTimeout \/ AllocFails \/ Started
           \/ StartTimeout
  <2>1. UNCHANGED <<controllers, dvars, async_qh, dummy_td>>
    BY <1>8 DEF InitAutoFound, MapFails, ResetDone, ResetTimeout, AllocFails, Started,
                StartTimeout, NoDma, OnlyInit
  <2>2. \/ init' \in {"map", "failed", "halt"}
        \/ init = "started" /\ init' = "yes"
    BY <1>8 DEF InitAutoFound, MapFails, ResetDone, ResetTimeout, AllocFails, Started,
                StartTimeout, From, Fails
  <2> QED
    BY <1>2, <2>1, <2>2
<1> QED
  BY <1>3, <1>4, <1>5, <1>6, <1>7, <1>8 DEF ENext, Drive, Driver

LEMMA ListNext == ListInv /\ [ENext]_allvars => ListInv'
<1> SUFFICES ASSUME ListInv, [ENext]_allvars
             PROVE  ListInv'
  OBVIOUS
<1>1. CASE ENext
  <2>1. GroundInv'
    BY <1>1, GroundNext DEF ListInv
  <2>2. TypesInv' /\ StatusInv'
    BY <1>1, TypesNext, StatusNext DEF ListInv
  <2>3. ASSUME AllocQh \/ AllocTd
        PROVE  ListsInv' /\ StageInv'
    BY <2>3, AllocStage
  <2>4. ASSUME SetupAsyncList \/ Run \/ MapAndReset
        PROVE  ListsInv' /\ StageInv'
    BY <2>4, SetupStage, RunStage, MapStage
  <2>5. ASSUME KeepsLists, UNCHANGED <<async_qh, dummy_td>>,
               \/ init' = init
               \/ init' \in {"search", "map", "failed", "halt", "qh"}
               \/ init = "started" /\ init' = "yes"
        PROVE  ListsInv' /\ StageInv'
    <3>1. ListsInv'
      BY <2>5, KeptLists DEF ListInv
    <3>2. StageInv'
      BY <2>5, KeptStage DEF ListInv
    <3> QED
      BY <3>1, <3>2
  <2>6. ListsInv' /\ StageInv'
    BY <1>1, <2>3, <2>4, <2>5, OtherStages
  <2> QED
    BY <2>1, <2>2, <2>6 DEF ListInv
<1>2. CASE UNCHANGED allvars
  <2>1. GroundInv'
    BY <1>2, GroundNext DEF ListInv
  <2>2. /\ UNCHANGED <<init, async_qh, dummy_td, initialized, enabled, controllers>>
        /\ UNCHANGED <<dma_pool_offset, memory, ret>>
    BY <1>2 DEF allvars, evars, dvars, vars
  <2>3. TypesInv' /\ StatusInv'
    BY <2>2 DEF ListInv, TypesInv, StatusInv, This, Reg
  <2>4. ListsInv' /\ StageInv'
    BY <2>2 DEF ListInv, ListsInv, StageInv, Top, Reg, This
  <2> QED
    BY <2>1, <2>3, <2>4 DEF ListInv
<1> QED
  BY <1>1, <1>2

LEMMA ListInit == EInit => ListInv
<1> SUFFICES ASSUME EInit
             PROVE  ListInv
  OBVIOUS
<1>1. GroundInv
  BY PagingInit, PoolInit DEF EInit, GroundInv
<1>2. TypesInv
  BY Sizes DEF EInit, TypesInv, Addresses
<1>3. StatusInv
  BY DEF EInit, StatusInv, Mapped, Started_
<1>4. DOMAIN controllers = {}
  BY DEF EInit
<1>5. ListsInv
  BY <1>4 DEF ListsInv, AllBefore, InOrder
<1>6. StageInv
  BY DEF EInit, StageInv, Started_
<1> QED
  BY <1>1, <1>2, <1>3, <1>5, <1>6 DEF ListInv

LEMMA Lists == ESpec => []ListInv
  BY ListInit, ListNext, PTL DEF ESpec, allvars
-----------------------------------------------------------------------------
\* A queue head says where its descriptor is.
LEMMA Descriptor ==
  ASSUME NEW mem, NEW qh \in Addresses, NEW td \in Addresses, NEW u \in Addresses,
         HasListIn(mem, qh, td), HasListIn(mem, qh, u)
  PROVE  td = u
<1>1. 0 \in 0..(Qh.size - 1)
  BY Sizes
<1>2. QhBytes(qh, td)[0] = <<"qh", qh, td, 0>> /\ QhBytes(qh, u)[0] = <<"qh", qh, u, 0>>
  BY <1>1 DEF QhBytes
<1>3. QhBytes(qh, td)[0] = QhBytes(qh, u)[0]
  BY <1>1 DEF HasListIn
<1> QED
  BY <1>2, <1>3

\* Of two lists the earlier one's descriptor lies before the later one's queue head.
LEMMA Apart ==
  ASSUME ListInv, NEW i \in DOMAIN controllers, NEW j \in DOMAIN controllers, i < j,
         controllers[i].run, controllers[j].run
  PROVE  /\ controllers[i].async # controllers[j].async
         /\ \A td \in Addresses : ~(HasList(controllers[i].async, td)
                                    /\ HasList(controllers[j].async, td))
<1> DEFINE a == controllers[i].async
           b == controllers[j].async
<1>1. controllers[i] \in Controller /\ controllers[j] \in Controller
  BY DEF ListInv, TypesInv
<1>2. a \in Addresses /\ b \in Addresses /\ a \in Nat /\ b \in Nat
  BY <1>1 DEF Controller, Addresses
<1> HIDE DEF a, b
<1>3. PICK t \in Addresses : Own(memory, a, t, b)
  BY DEF ListInv, ListsInv, InOrder, Complete, a, b
<1>4. PICK u \in Addresses : Own(memory, b, u, Top)
  BY DEF ListInv, ListsInv, AllBefore, Complete, b
<1>5. t \in Nat /\ u \in Nat /\ a + Qh.size <= t /\ t + Td.size <= b /\ b + Qh.size <= u
  BY <1>3, <1>4 DEF Own, Addresses
<1>6. a # b
  BY <1>2, <1>5, Sizes
<1>7. ASSUME NEW td \in Addresses, HasList(a, td), HasList(b, td)
      PROVE  FALSE
  <2>1. HasListIn(memory, a, td) /\ HasListIn(memory, b, td)
    BY <1>7 DEF HasList, HasListIn
  <2>2. HasListIn(memory, a, t) /\ HasListIn(memory, b, u)
    BY <1>3, <1>4 DEF Own
  <2>3. td = t
    BY <1>2, <2>1, <2>2, Descriptor
  <2>4. td = u
    BY <1>2, <2>1, <2>2, Descriptor
  <2> QED
    BY <1>2, <1>5, <2>3, <2>4, Sizes
<1> QED
  BY <1>6, <1>7 DEF a, b

LEMMA InvIntact == ListInv => ListsIntact
<1> SUFFICES ASSUME ListInv, NEW i \in DOMAIN controllers, Runs(i)
             PROVE  /\ \E td \in Pool :
                         /\ HasList(controllers[i].async, td)
                         /\ \A j \in DOMAIN controllers :
                              i # j /\ Runs(j) => ~HasList(controllers[j].async, td)
                    /\ \A j \in DOMAIN controllers :
                         i # j /\ Runs(j) => controllers[i].async # controllers[j].async
  BY DEF ListsIntact
<1>1. PICK td \in Addresses : Own(memory, controllers[i].async, td, Top)
  BY DEF ListInv, ListsInv, AllBefore, Complete, Runs
<1>2. HasList(controllers[i].async, td)
  BY <1>1 DEF Own, HasListIn, HasList
<1>3. td \in Pool
  <2>1. 0 \in 0..(Td.size - 1) /\ td + 0 = td
    BY Sizes DEF Addresses
  <2> QED
    BY <1>2, <2>1 DEF HasList
<1>4. ASSUME NEW j \in DOMAIN controllers, i # j, Runs(j)
      PROVE  /\ ~HasList(controllers[j].async, td)
             /\ controllers[i].async # controllers[j].async
  <2>1. controllers[i].run /\ controllers[j].run
    BY <1>4 DEF Runs
  <2>2. i \in Int /\ j \in Int
    BY DEF ListInv, TypesInv
  <2>3. CASE i < j
    BY <1>2, <2>1, <2>3, Apart
  <2>4. CASE j < i
    BY <1>2, <2>1, <2>4, Apart
  <2> QED
    BY <1>4, <2>2, <2>3, <2>4
<1> QED
  BY <1>2, <1>3, <1>4

LEMMA InvInitialized == ListInv => InitializedRuns
<1> SUFFICES ASSUME ListInv
             PROVE  InitializedRuns
  OBVIOUS
<1>1. initialized <=> init = "yes"
  BY DEF ListInv, StatusInv
<1>2. ASSUME initialized
      PROVE  /\ Reg.configured /\ Runs(This) /\ Reg.async = async_qh
             /\ HasList(async_qh, dummy_td)
             /\ ret.found = 1 => enabled
  <2>1. /\ Reg.configured /\ Reg.run /\ ~Reg.halted
        /\ ret.found = 1 => enabled
    BY <1>1, <1>2 DEF ListInv, StatusInv, Mapped, Started_
  <2>2. Own(memory, async_qh, dummy_td, Top) /\ Reg.async = async_qh
    BY <1>1, <1>2 DEF ListInv, StageInv, Started_
  <2> QED
    BY <2>1, <2>2 DEF Runs, Reg, Own, HasListIn, HasList
<1> QED
  BY <1>1, <1>2 DEF InitializedRuns

\* For any number of addresses, any requests and any answers of the controllers: one that runs
\* finds its own list complete, also one that started after the driver had given it up
\* (ehci.c:31-70,126-148).
THEOREM ListsStayIntact == ESpec => []ListsIntact
  BY Lists, InvIntact, PTL

\* And initialized says what it promises (ehci.c:145-152,168-171).
THEOREM InitializedStaysTrue == ESpec => []InitializedRuns
  BY Lists, InvInitialized, PTL
-----------------------------------------------------------------------------
(* Pci under the driver, and the types of the rest.                          *)

LEMMA PciPart == ENext => [Next]_vars
<1> SUFFICES ASSUME ENext PROVE [Next]_vars
  OBVIOUS
<1>1. CASE Boot
  BY <1>1 DEF Boot
<1>2. CASE InitAuto
  BY <1>2 DEF InitAuto, Next
<1>3. CASE Find
  BY <1>3 DEF Find, Next
<1>4. CASE Spin \/ Client \/ Drive \/ ControllerStep
  BY <1>4 DEF Spin, Client, Drive, ControllerStep
<1> QED
  BY <1>1, <1>2, <1>3, <1>4 DEF ENext

LEMMA PciUnderDriver == ESpec => [](ScanInv /\ SearchInv /\ FindsFirst)
<1>1. EInit => Init
  BY DEF EInit
<1>2. [ENext]_allvars => [Next]_vars
  BY PciPart DEF allvars
<1> QED
  BY <1>1, <1>2, PciAlways, PTL DEF ESpec, allvars

\* The scan's promise holds also when the driver and its controllers run in between
\* (pci.c:101-165).
THEOREM ScanReportsToDriver == ESpec => []ScanReports
BY PciUnderDriver, InvReports, PTL

\* What the driver takes from the search is the first controller (pci.c:200-236).
THEOREM DriverFindsFirst == ESpec => []FindsFirst
BY PciUnderDriver, PTL

\* Where ehci_init_auto stands, and the address it tries.
FlowInv == /\ init \in {"no", "search", "map", "reset", "halt", "qh", "td", "list", "run",
                       "started", "yes", "failed"}
           /\ base \in Addresses /\ tries \in 0..Len(CommonAddrs)
           /\ initialized \in BOOLEAN /\ enabled \in BOOLEAN

LEMMA FlowInit == EInit => FlowInv
<1>1. U32 \in Nat \ {0} /\ Len(CommonAddrs) \in Nat
  BY EhciAssumption, PagingAssumption, LargeSize, LenProperties
<1>2. 0 \in Addresses /\ 0 \in 0..Len(CommonAddrs)
  BY <1>1 DEF Addresses
<1> QED
  BY <1>2 DEF EInit, FlowInv

LEMMA FailsFlow ==
  ASSUME FlowInv, NEW here, Fails(here)
  PROVE  init' \in {"map", "failed"} /\ base' \in Addresses /\ tries' \in 0..Len(CommonAddrs)
<1>1. CASE ret.found # 1 /\ tries < Len(CommonAddrs)
  <2>1. /\ CommonAddrs \in Seq(Addresses \ {0}) /\ Len(CommonAddrs) \in Nat
        /\ tries + 1 \in 1..Len(CommonAddrs)
    BY <1>1, EhciAssumption, LenProperties DEF FlowInv
  <2>2. CommonAddrs[tries + 1] \in Addresses
    BY <2>1, ElementOfSeq
  <2> QED
    BY <1>1, <2>1, <2>2 DEF Fails
<1>2. CASE ~(ret.found # 1 /\ tries < Len(CommonAddrs))
  BY <1>2 DEF Fails, FlowInv
<1> QED
  BY <1>1, <1>2

LEMMA FlowNext == FlowInv /\ [ENext]_allvars => FlowInv'
<1> SUFFICES ASSUME FlowInv, [ENext]_allvars PROVE FlowInv'
  OBVIOUS
<1>1. CASE InitAuto
  BY <1>1 DEF InitAuto, From, OnlyInit, FlowInv
<1>2. CASE InitAutoFound
  <2>1. CASE ret.found = 1
    BY <1>2, <2>1, EhciAssumption DEF InitAutoFound, FlowInv
  <2>2. CASE ret.found # 1
    <3>1. Fails("search") /\ UNCHANGED <<initialized, enabled>>
      BY <1>2, <2>2 DEF InitAutoFound
    <3>2. init' \in {"map", "failed"} /\ base' \in Addresses /\ tries' \in 0..Len(CommonAddrs)
      BY <3>1, FailsFlow
    <3> QED
      BY <3>1, <3>2 DEF FlowInv
  <2> QED
    BY <2>1, <2>2
<1>3. CASE MapAndReset \/ ResetDone \/ Halted \/ SetupAsyncList \/ Run
  BY <1>3 DEF MapAndReset, ResetDone, Halted, SetupAsyncList, Run, From, OnlyInit, FlowInv
<1>4. CASE AllocQh \/ AllocTd \/ Started
  BY <1>4 DEF AllocQh, AllocTd, Started, From, FlowInv
<1>5. CASE MapFails \/ ResetTimeout \/ AllocFails \/ StartTimeout
  <2>1. UNCHANGED <<initialized, enabled>>
    BY <1>5 DEF MapFails, ResetTimeout, AllocFails, StartTimeout
  <2>2. Fails("map") \/ Fails("reset") \/ Fails("qh") \/ Fails("td") \/ Fails("started")
    BY <1>5 DEF MapFails, ResetTimeout, AllocFails, StartTimeout
  <2>3. init' \in {"map", "failed"} /\ base' \in Addresses /\ tries' \in 0..Len(CommonAddrs)
    BY <2>2, FailsFlow
  <2> QED
    BY <2>1, <2>3 DEF FlowInv
<1>6. CASE Spin \/ Boot \/ Client \/ Find \/ ControllerStep \/ UNCHANGED allvars
  BY <1>6 DEF Spin, Boot, Client, Find, ControllerStep, allvars, evars, FlowInv
<1> QED
  BY <1>1, <1>2, <1>3, <1>4, <1>5, <1>6 DEF ENext, Drive, Driver

LEMMA PoolTyped == PoolInv => DTypeOK
<1> SUFFICES ASSUME PoolInv PROVE DTypeOK
  OBVIOUS
<1> DEFINE Typed == [virt_addr : Addresses, phys_addr : Addresses, size : Nat, alignment : Nat,
                     used : BOOLEAN]
<1>1. /\ dma_pool \in Nat /\ DMA_POOL_SIZE \in Nat /\ dma_pool + DMA_POOL_SIZE < U32
      /\ U32 \in Nat /\ dma_pool_offset \in 0..DMA_POOL_SIZE
  BY PoolAssumption, PagingAssumption DEF PoolInv
<1>2. dma_allocations \in Seq(Block) /\ Len(dma_allocations) \in Nat
      /\ DOMAIN dma_allocations = 1..Len(dma_allocations)
  BY LenProperties DEF PoolInv
<1>3. ASSUME NEW i \in 1..Len(dma_allocations) PROVE dma_allocations[i] \in Typed
  <2>1. dma_allocations[i] \in Block
    BY <1>2, ElementOfSeq
  <2>2. /\ dma_allocations[i].phys_addr = dma_allocations[i].virt_addr
        /\ dma_pool <= dma_allocations[i].virt_addr
        /\ dma_allocations[i].virt_addr + dma_allocations[i].size <= dma_pool + dma_pool_offset
    BY <1>2, <1>3 DEF PoolInv
  <2>3. dma_allocations[i].virt_addr \in Nat /\ dma_allocations[i].size \in Nat
    BY <2>1 DEF Block
  <2>4. dma_allocations[i].virt_addr \in Addresses
    BY <1>1, <2>2, <2>3 DEF Addresses
  <2> QED
    BY <2>1, <2>2, <2>4 DEF Block
<1>4. dma_allocations \in Seq(Typed)
  <2>1. dma_allocations = [i \in 1..Len(dma_allocations) |-> dma_allocations[i]]
    BY <1>2, LenProperties
  <2>2. dma_allocations \in [1..Len(dma_allocations) -> Typed]
    BY <1>3, <2>1
  <2>3. Seq(Typed) = UNION {[1..n -> Typed] : n \in Nat}
    BY SeqDef
  <2>4. Len(dma_allocations) \in Nat
    BY <1>2
  <2> HIDE DEF Typed
  <2> QED
    BY <2>2, <2>3, <2>4
<1> QED
  BY <1>4 DEF DTypeOK, PoolInv

\* The driver, the pool and the search keep what they know of the right kind: what it tries is
\* an address, and it never reads past the list of addresses (ehci.c:155-180, mm.h:55-98).
THEOREM DriverStaysTyped == ESpec => []ETypeOK
<1>1. FlowInv /\ ListInv /\ ScanInv /\ SearchInv => ETypeOK
  BY InvTyped, PoolTyped DEF FlowInv, ListInv, GroundInv, TypesInv, ETypeOK
<1>2. ESpec => []FlowInv
  BY FlowInit, FlowNext, PTL DEF ESpec, allvars
<1> QED
  BY <1>1, <1>2, Lists, PciUnderDriver, PTL
=============================================================================
