-------------------------------- MODULE Ehci --------------------------------
(* ehci.c: the search for an EHCI controller, its reset and its start with a *)
(* list of transfers in the DMA pool.  Controllers reset, halt and start in  *)
(* their own time; the driver's bounded loops may end before they do, and it *)
(* then tries the next address, while the last controller goes on.  What     *)
(* runs before is boot's paging and the calls of Pci.                        *)
EXTENDS Pci, DmaPool

CONSTANTS CommonAddrs, \* the addresses tried when PCI knows of no controller
          Bars,        \* what bars[0] of a controller may hold, 0 if it was given no address
          Qh, Td,      \* dma_alloc's requests for the two structures
          Clients      \* what other drivers ask for

ASSUME EhciAssumption == /\ Qh \in Requests /\ Td \in Requests /\ Clients \subseteq Requests
                         /\ Qh.size > 0 /\ Td.size > 0 /\ Qh.alignment > 0 /\ Td.alignment > 0
                         /\ Bars \subseteq Addresses
                         /\ CommonAddrs \in Seq(Addresses \ {0})

VARIABLES init,        \* where ehci_init_auto stands, "no" before, "yes" or "failed" after
          base,        \* mmio_phys_base
          tries,       \* addresses of CommonAddrs tried
          async_qh,    \* async_qh_phys, which is also async_qh_virt
          dummy_td,
          initialized,
          enabled,     \* the controller PCI found: memory space and bus master are on
          controllers  \* what the driver found at the addresses it tried, in this order

evars == <<init, base, tries, async_qh, dummy_td, initialized, enabled, controllers>>

\* What may be at an address.  Of nothing at all, and of memory, HCRESET never reads as
\* clear; of zeros nothing ever reads as set.
Kinds == {"controller", "stuck", "zeros"}
Controller == [kind : Kinds, reset : BOOLEAN, run : BOOLEAN, halted : BOOLEAN,
               configured : BOOLEAN, async : Addresses]

ETypeOK == /\ TypeOK /\ DTypeOK
           /\ init \in {"no", "search", "map", "reset", "halt", "qh", "td", "list", "run",
                        "started", "yes", "failed"}
           /\ base \in Addresses /\ tries \in 0..Len(CommonAddrs)
           /\ {async_qh, dummy_td} \subseteq Addresses
           /\ initialized \in BOOLEAN /\ enabled \in BOOLEAN
           /\ controllers \in Seq(Controller)

EInit == /\ Init /\ MInit /\ DInit
         /\ init = "no" /\ base = 0 /\ tries = 0
         /\ async_qh = 0 /\ dummy_td = 0 /\ initialized = FALSE /\ enabled = FALSE
         /\ controllers = <<>>

This == Len(controllers)
Reg == controllers[This]
SetReg(c) == controllers' = [controllers EXCEPT ![This] = c]

From(here, there) == init = here /\ init' = there
\* ehci_init returns FALSE: the next address, if there is one and PCI found no controller.
Fails(here) ==
  /\ init = here
  /\ IF ret.found # 1 /\ tries < Len(CommonAddrs)
     THEN init' = "map" /\ base' = CommonAddrs[tries + 1] /\ tries' = tries + 1
     ELSE init' = "failed" /\ UNCHANGED <<base, tries>>

OnlyInit == UNCHANGED <<base, tries, async_qh, dummy_td, initialized, enabled>>
NoDma == UNCHANGED dvars

\* ehci_init_auto starts with pci_find_ehci.
InitAuto ==
  /\ From("no", "search") /\ paging
  /\ Call("pci_find_ehci")
  /\ OnlyInit /\ NoDma /\ UNCHANGED <<controllers, mvars>>

\* It takes the address without its flags and has PCI pass on the controller's accesses;
\* or it tries the first common address.
InitAutoFound ==
  /\ init = "search" /\ call = "none"
  /\ IF ret.found = 1
     THEN init' = "map" /\ base' \in Bars /\ enabled' = TRUE /\ UNCHANGED tries
     ELSE Fails("search") /\ UNCHANGED enabled
  /\ NoDma /\ UNCHANGED <<async_qh, dummy_td, initialized, controllers>>

\* The registers are mapped, and the controller told to reset.  The firmware may have left it
\* running a list of its own.  An address that led elsewhere would be no controller's.
MapAndReset ==
  /\ base # 0 /\ From("map", "reset")
  /\ \E kind \in IF Mmu(base) = base /\ (ret.found = 1 => enabled) THEN Kinds ELSE {"stuck"} :
       \E halted \in IF kind = "controller" THEN BOOLEAN ELSE {FALSE} :
         controllers' = Append(controllers,
           [kind |-> kind, reset |-> kind # "zeros", run |-> FALSE, halted |-> halted,
            configured |-> FALSE, async |-> 0])
  /\ OnlyInit /\ NoDma

MapFails ==
  /\ base = 0 /\ Fails("map")
  /\ NoDma /\ UNCHANGED <<async_qh, dummy_td, initialized, controllers, enabled>>

\* The loop, or the look after it, sees the reset done; or both do not.
ResetDone ==
  /\ From("reset", "halt") /\ ~Reg.reset
  /\ OnlyInit /\ NoDma /\ UNCHANGED controllers

\* Slip: the loop goes on until the reset is done.
ResetTimeoutNever ==
  /\ init = "reset" /\ Reg.reset
  /\ NoDma /\ UNCHANGED evars

ResetTimeout ==
  /\ Fails("reset") /\ Reg.reset
  /\ NoDma /\ UNCHANGED <<async_qh, dummy_td, initialized, controllers, enabled>>

\* The loop without an end.
Halted ==
  /\ From("halt", "qh") /\ Reg.halted
  /\ SetReg([Reg EXCEPT !.configured = TRUE])
  /\ OnlyInit /\ NoDma

\* create_dma_structures.  What an earlier try allocated stays allocated.  A failure makes the
\* virtual address NULL; it is not looked at again.
AllocQh ==
  /\ From("qh", "td") /\ DmaAlloc(Qh)
  /\ async_qh' = BlockAddr(Qh)
  /\ UNCHANGED <<base, tries, dummy_td, initialized, controllers, enabled>>
AllocTd ==
  /\ From("td", "list") /\ DmaAlloc(Td)
  /\ dummy_td' = BlockAddr(Td)
  /\ UNCHANGED <<base, tries, async_qh, initialized, controllers, enabled>>

\* Slip: the missing descriptor goes unnoticed, and the one of an earlier try is used.
AllocFailsOn ==
  /\ \/ Fails("qh") /\ ~Fits(Qh)
     \/ From("td", "list") /\ ~Fits(Td) /\ UNCHANGED <<base, tries>>
  /\ NoDma /\ UNCHANGED <<async_qh, dummy_td, initialized, controllers, enabled>>

AllocFails ==
  /\ \/ Fails("qh") /\ ~Fits(Qh)
     \/ Fails("td") /\ ~Fits(Td)
  /\ NoDma /\ UNCHANGED <<async_qh, dummy_td, initialized, controllers, enabled>>

\* The queue head that links to itself and to the descriptor that ends the list.
QhBytes(qh, td) == [k \in 0..(Qh.size - 1) |-> <<"qh", qh, td, k>>]
TdBytes == [k \in 0..(Td.size - 1) |-> <<"td", k>>]

\* setup_async_list
SetupAsyncList ==
  /\ From("list", "run")
  /\ memory' = Stored(Stored(memory, async_qh, QhBytes(async_qh, dummy_td)), dummy_td, TdBytes)
  /\ SetReg([Reg EXCEPT !.async = async_qh])
  /\ OnlyInit /\ UNCHANGED <<dma_pool_offset, dma_allocations>>

\* The status is cleared, and the controller told to run.
Run ==
  /\ From("run", "started")
  /\ SetReg([Reg EXCEPT !.run = TRUE])
  /\ OnlyInit /\ NoDma

Started ==
  /\ From("started", "yes") /\ ~Reg.halted
  /\ initialized' = TRUE
  /\ NoDma /\ UNCHANGED <<base, tries, async_qh, dummy_td, controllers, enabled>>

\* Slip: the status is not looked at again after the loop.
StartTimeoutYes ==
  /\ From("started", "yes") /\ Reg.halted
  /\ initialized' = TRUE
  /\ NoDma /\ UNCHANGED <<base, tries, async_qh, dummy_td, controllers, enabled>>
StartTimeout ==
  /\ Fails("started") /\ Reg.halted
  /\ NoDma /\ UNCHANGED <<async_qh, dummy_td, initialized, controllers, enabled>>

Driver == \/ InitAutoFound \/ MapAndReset \/ MapFails \/ ResetDone \/ ResetTimeout \/ Halted
          \/ AllocQh \/ AllocTd \/ AllocFails \/ SetupAsyncList \/ Run \/ Started \/ StartTimeout
-----------------------------------------------------------------------------
\* The controllers, also those the driver has given up.
ControllerStep ==
  /\ \E i \in DOMAIN controllers :
       LET c == controllers[i]
       IN  /\ c.kind = "controller"
           /\ \/ c.reset /\ \E halted \in {c.halted, TRUE} :
                   controllers' = [controllers EXCEPT ![i].reset = FALSE, ![i].halted = halted]
              \/ ~c.reset /\ c.halted = c.run
                 /\ controllers' = [controllers EXCEPT ![i].halted = ~c.run]
  /\ UNCHANGED <<init, base, tries, async_qh, dummy_td, initialized, enabled, dvars, mvars, vars>>

\* Boot, and the calls kernel_main makes of Pci.
Boot ==
  /\ init = "no" /\ UNCHANGED evars
  /\ \/ PagingStep /\ UNCHANGED <<dvars, vars>>
     \/ paging /\ Next /\ UNCHANGED <<dvars, mvars>>

\* Drivers to come use the pool too.
Client ==
  /\ call = "none" /\ paging
  /\ \/ \E r \in Clients : DmaAlloc(r) /\ \/ init = "no" /\ dma_allocations = <<>>
                                          \/ init \in {"yes", "failed"}
     \/ \E i \in DOMAIN dma_allocations :
          /\ init \in {"yes", "failed"}
          /\ [size |-> dma_allocations[i].size, alignment |-> dma_allocations[i].alignment] \in Clients
          /\ dma_allocations[i].used
          /\ DmaFree(dma_allocations[i].virt_addr)
  /\ UNCHANGED <<mvars, vars, evars>>

Find == init = "search" /\ Step /\ UNCHANGED <<evars, dvars, mvars>>

Drive == Driver /\ UNCHANGED <<mvars, vars>>

\* The wait for the halted bit, or the main loop.
Spin == /\ init \in {"halt", "yes", "failed"} /\ (init = "halt" => ~Reg.halted)
        /\ UNCHANGED <<evars, dvars, mvars, vars>>

ENext == Spin \/ Boot \/ Client \/ InitAuto \/ Find \/ Drive \/ ControllerStep

\* The code runs on, and a controller ends its reset, halts and starts in its own time.
ESpec == /\ EInit /\ [][ENext]_<<evars, dvars, mvars, vars>>
         /\ WF_vars(Step) /\ WF_evars(Drive)
         /\ WF_evars(ControllerStep)
-----------------------------------------------------------------------------
Runs(i) == controllers[i].run /\ ~controllers[i].halted

\* The list a controller reads at a physical address, and its descriptor.
HasList(qh, td) ==
  /\ \A k \in 0..(Qh.size - 1) : qh + k \in Pool /\ memory[qh + k] = QhBytes(qh, td)[k]
  /\ \A k \in 0..(Td.size - 1) : td + k \in Pool /\ memory[td + k] = TdBytes[k]
  /\ qh % Qh.alignment = 0 /\ td % Td.alignment = 0

\* A controller that runs, also one that started after the driver had given it up, finds a
\* complete list that no other controller shares and nothing has overwritten since
\* (ehci.c:31-70,126-148).
ListsIntact ==
  \A i \in DOMAIN controllers : Runs(i) =>
    /\ \E td \in Pool :
         /\ HasList(controllers[i].async, td)
         /\ \A j \in DOMAIN controllers : i # j /\ Runs(j) => ~HasList(controllers[j].async, td)
    /\ \A j \in DOMAIN controllers :
         i # j /\ Runs(j) => controllers[i].async # controllers[j].async

\* TRUE and initialized stand for a controller that runs, the last one mapped, with the
\* driver's structures, and that may read memory if PCI knows of it
\* (ehci.c:145-152,168-171).
InitializedRuns ==
  /\ initialized <=> init = "yes"
  /\ initialized => /\ Reg.configured /\ Runs(This) /\ Reg.async = async_qh
                    /\ HasList(async_qh, dummy_td)
                    /\ ret.found = 1 => enabled

\* ehci_init_auto returns, except where an address it tries reads as zeros: then the wait for
\* the halted bit, which has no timeout, does not end (ehci.c:110-121,141-148).
InitReturns ==
  init # "no" ~> \/ init \in {"yes", "failed"}
                 \/ init = "halt" /\ Reg.kind = "zeros"
=============================================================================
