------------------------------ MODULE DmaPool -------------------------------
(* The pool of mm.h for buffers a device reads: blocks are cut off one after *)
(* the other and never given again.  The driver writes a block at its        *)
(* virtual address, the device reads it at its physical one.                 *)
EXTENDS Paging, Sequences

CONSTANTS dma_pool,            \* where the pool starts
          DMA_POOL_SIZE,       \* 1 MiB
          MAX_DMA_ALLOCATIONS, \* 256
          Requests             \* what callers ask for: sizes and alignments

\* The pool lies in memory, and no request is so large that a sum of sizes wraps.
ASSUME PoolAssumption ==
  /\ dma_pool \in Nat /\ DMA_POOL_SIZE \in Nat
  /\ dma_pool + DMA_POOL_SIZE < U32
  /\ MAX_DMA_ALLOCATIONS \in Nat
  /\ \A r \in Requests : /\ r.size \in Nat /\ r.alignment \in Nat
                         /\ DMA_POOL_SIZE + r.alignment + r.size < U32

VARIABLES dma_pool_offset,
          dma_allocations,  \* the first dma_alloc_count entries of the table
          memory            \* what the pool's physical memory holds: Zero or what was written

dvars == <<dma_pool_offset, dma_allocations, memory>>

Pool == dma_pool..(dma_pool + DMA_POOL_SIZE - 1)
Zero == <<"zero">>

DTypeOK == /\ dma_pool_offset \in 0..DMA_POOL_SIZE
           /\ dma_allocations \in Seq([virt_addr : Addresses, phys_addr : Addresses,
                                       size : Nat, alignment : Nat, used : BOOLEAN])
           /\ Len(dma_allocations) <= MAX_DMA_ALLOCATIONS
           /\ DOMAIN memory = Pool

\* mm_init leaves it as it is at start.
DInit == /\ dma_pool_offset = 0 /\ dma_allocations = <<>>
         /\ memory = [a \in Pool |-> Zero]

\* What a request takes off the pool before its block, and in all.
AlignOffset(alignment) ==
  IF alignment > 0
  THEN (alignment - ((dma_pool + dma_pool_offset) % alignment)) % alignment ELSE 0
TotalSize(r) == (AlignOffset(r.alignment) + r.size) % U32

BlockAddr(r) == dma_pool + dma_pool_offset + AlignOffset(r.alignment)

\* Slip: one entry more than the table has.
FitsOneMore(r) == /\ Len(dma_allocations) <= MAX_DMA_ALLOCATIONS
                  /\ (dma_pool_offset + TotalSize(r)) % U32 <= DMA_POOL_SIZE

Fits(r) == /\ Len(dma_allocations) < MAX_DMA_ALLOCATIONS
           /\ (dma_pool_offset + TotalSize(r)) % U32 <= DMA_POOL_SIZE

\* A memory after a write at a virtual address: byte k becomes content[k].
Stored(mem, addr, content) ==
  LET Hits(a) == {k \in DOMAIN content : Mmu(addr + k) = a}
  IN  [a \in Pool |-> IF Hits(a) = {} THEN mem[a] ELSE content[CHOOSE k \in Hits(a) : TRUE]]

\* memset
Cleared(r) == Stored(memory, BlockAddr(r), [k \in 0..(r.size - 1) |-> Zero])

\* Slip: the bytes skipped for the alignment are not counted.
DmaAllocUncounted(r) ==
  /\ Fits(r)
  /\ dma_allocations' = Append(dma_allocations,
       [virt_addr |-> BlockAddr(r), phys_addr |-> BlockAddr(r), size |-> r.size,
        alignment |-> r.alignment, used |-> TRUE])
  /\ dma_pool_offset' = dma_pool_offset + r.size
  /\ memory' = Cleared(r)

\* dma_alloc; it returns BlockAddr, as the virtual and the physical address.  The table
\* does not hold the alignment: it is kept here to say what the caller asked for.
DmaAlloc(r) ==
  /\ Fits(r)
  /\ dma_allocations' = Append(dma_allocations,
       [virt_addr |-> BlockAddr(r), phys_addr |-> BlockAddr(r), size |-> r.size,
        alignment |-> r.alignment, used |-> TRUE])
  /\ dma_pool_offset' = dma_pool_offset + TotalSize(r)
  /\ memory' = Cleared(r)

\* dma_free marks the first entry with the address, used or not.
DmaFree(virt) ==
  /\ \E i \in DOMAIN dma_allocations :
       /\ dma_allocations[i].virt_addr = virt
       /\ \A j \in 1..(i - 1) : dma_allocations[j].virt_addr # virt
       /\ dma_allocations' = [dma_allocations EXCEPT ![i].used = FALSE]
  /\ UNCHANGED <<dma_pool_offset, memory>>
-----------------------------------------------------------------------------
Bytes(block) == block.virt_addr..(block.virt_addr + block.size - 1)

\* Every block lies in the pool, where it was asked to, apart from all others, whatever sizes
\* and alignments were asked for before it (mm.h:55-98).
BlocksApart ==
  /\ \A i \in DOMAIN dma_allocations :
       LET block == dma_allocations[i]
       IN  /\ Bytes(block) \subseteq Pool
           /\ block.alignment > 0 => block.virt_addr % block.alignment = 0
  /\ \A i, j \in DOMAIN dma_allocations :
       i # j => Bytes(dma_allocations[i]) \cap Bytes(dma_allocations[j]) = {}
=============================================================================
