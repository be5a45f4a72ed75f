------------------------------- MODULE Paging -------------------------------
(* The page directory setup_paging_4mb_pages builds, what the processor      *)
(* makes of it, and virt_to_phys of mm.h, which walks it in software.        *)
(* Addresses are numbers below U32; an entry of a directory or a table is    *)
(* the address it holds and its flags.                                       *)
EXTENDS Integers

CONSTANTS U32,     \* 2^32
          Entries, \* 1024: entries of a directory and of a table
          Page     \* 4096

Large == Entries * Page  \* 4 MiB: what one entry of the directory covers

ASSUME PagingAssumption == /\ Entries \in Nat \ {0} /\ Page \in Nat \ {0}
                           /\ U32 = Entries * Large

Indices == 0..(Entries - 1)
Addresses == 0..(U32 - 1)
Entry == [present : BOOLEAN, large : BOOLEAN, base : Addresses]
NotPresent == [present |-> FALSE, large |-> FALSE, base |-> 0]

CONSTANT Tables  \* the page tables in memory, by the address of the table
ASSUME TablesAssumption == Tables \in [Addresses -> [Indices -> Entry]]

VARIABLES pse,            \* CR4.PSE
          paging,         \* CR0.PG
          page_directory, \* the array
          cr3             \* whether CR3 points to it

mvars == <<pse, paging, page_directory, cr3>>

\* .bss is zero, and paging is off.
MInit == /\ pse = FALSE /\ paging = FALSE /\ cr3 = FALSE
         /\ page_directory = [i \in Indices |-> NotPresent]

\* kernel_main turns large pages on, fills the directory, loads CR3 and turns paging on.
EnablePse == /\ ~pse
             /\ pse' = TRUE
             /\ UNCHANGED <<paging, page_directory, cr3>>

\* A product of two ints, which wraps where it overflows; the build does not optimise.
IntProduct(a, b) == ((a * b + U32 \div 2) % U32) - (U32 \div 2)

\* Slip: entry i is for address i * 4 KiB.
SetupPagingSmall ==
  /\ pse /\ ~cr3 /\ ~page_directory[0].present
  /\ page_directory' = [i \in Indices |->
       [present |-> TRUE, large |-> TRUE, base |-> IntProduct(i, Page) % U32]]
  /\ UNCHANGED <<pse, paging, cr3>>

\* The product is stored as an unsigned number.
SetupPaging ==
  /\ pse /\ ~cr3 /\ ~page_directory[0].present
  /\ page_directory' = [i \in Indices |->
       [present |-> TRUE, large |-> TRUE, base |-> IntProduct(i, Large) % U32]]
  /\ UNCHANGED <<pse, paging, cr3>>

LoadPageDirectory == /\ page_directory[0].present /\ ~cr3
                     /\ cr3' = TRUE
                     /\ UNCHANGED <<pse, paging, page_directory>>

EnablePaging == /\ cr3 /\ ~paging
                /\ paging' = TRUE
                /\ UNCHANGED <<pse, page_directory, cr3>>

PagingStep == EnablePse \/ SetupPaging \/ LoadPageDirectory \/ EnablePaging
-----------------------------------------------------------------------------
Aligned(v, n) == v - (v % n)

\* The parts of an address.
DirectoryIndex(v) == v \div Large
TableIndex(v) == (v \div Page) % Entries

\* Where the processor takes a virtual address: Fault if nowhere.  Without PSE it does
\* not look at the bit for large pages.
Fault == -1
Mmu(v) ==
  LET pde == page_directory[DirectoryIndex(v)]
      pte == Tables[pde.base][TableIndex(v)]
  IN  IF ~paging THEN v
      ELSE IF ~pde.present THEN Fault
      ELSE IF pde.large /\ pse THEN Aligned(pde.base, Large) + (v % Large)
      ELSE IF ~pte.present THEN Fault
      ELSE Aligned(pte.base, Page) + (v % Page)

\* Where mm.h takes it: 0 if nowhere.
virt_to_phys(v) ==
  LET pde == page_directory[DirectoryIndex(v)]
      pte == Tables[pde.base][TableIndex(v)]
  IN  IF ~paging THEN v
      ELSE IF ~pde.present THEN 0
      ELSE IF pde.large THEN Aligned(pde.base, Large) + (v % Large)
      ELSE IF ~pte.present THEN 0
      ELSE Aligned(pte.base, Page) + (v % Page)
-----------------------------------------------------------------------------
\* At no moment of the boot does an address lead elsewhere than to itself, though the directory's
\* addresses are computed in an int that overflows half way; so a driver may give a device
\* the address it uses itself, and virt_to_phys is right (kernel.c:555-570, mm.h:90-91,156).
Identity == \A v \in Addresses : Mmu(v) = v /\ virt_to_phys(v) = v
=============================================================================
