-------------------------------- MODULE Pci ---------------------------------
(* pci.c: the recursive scan of the PCI buses and the search for an EHCI     *)
(* controller.  One action is one call of pci_scan_function, or one slot of  *)
(* the search; the stack holds the scans of buses in progress.  The machine  *)
(* is its configuration space, which nothing here writes.                    *)
EXTENDS Integers, Sequences

CONSTANTS Buses, Devices, Functions,  \* 256, 32 and 8: how many there are
          ConfigSpaces                \* the machines looked at

ASSUME PciAssumption ==
  Buses \in Nat \ {0} /\ Devices \in Nat \ {0} /\ Functions \in Nat \ {0}

PCI_HEADER_TYPE == 14
PCI_SECONDARY_BUS == 25

Loc == (0..(Buses - 1)) \X (0..(Devices - 1)) \X (0..(Functions - 1))

VARIABLES cfg,      \* configuration space: for each location a function of the machine
          call,     \* what runs: "none", "pci_init", "pci_scan" or "pci_find_ehci"
          stack,    \* next function to scan on each bus, the innermost scan last
          reported, \* functions found, in the order a callback gets them (pci_scan has one)
          slot,     \* next slot the search looks at, counted over all buses
          ret       \* what pci_find_ehci returned: -1 before, 0, or 1 and out

vars == <<cfg, call, stack, reported, slot, ret>>

Absent == [here |-> FALSE]
Present(loc) == cfg[loc].here

\* One byte of a function's configuration space; a missing function reads as ones.
Byte(loc, offset) ==
  IF ~Present(loc) THEN 255
  ELSE CASE offset = 12 -> cfg[loc].cache_line
         [] offset = 14 -> cfg[loc].header
         [] offset = 25 -> cfg[loc].secondary

\* Byte n, the lowest first, of the aligned word that holds offset.
pci_read_config(loc, offset, n) == Byte(loc, offset - (offset % 4) + n)

\* The lowest byte of the word with the header type is not the header type.
pci_read_header_type(loc) == pci_read_config(loc, PCI_HEADER_TYPE, 0)
pci_read_secondary_bus(loc) == pci_read_config(loc, PCI_SECONDARY_BUS, 1)

IsBridge(header) == header % 128 = 1
IsMulti(header) == header >= 128

\* The header type that says whether a device has other functions is always that of its
\* function 0.
MultiDevice(loc) == IsMulti(pci_read_header_type(<<loc[1], loc[2], 0>>))

\* What the scan takes for a bridge leads to a bus of its own with a higher number, as
\* firmware numbers buses; one that led back to its own bus would never let it end.
ASSUME TreeAssumption ==
  \A space \in ConfigSpaces :
    LET taken == {loc \in Loc : space[loc].here /\ IsBridge(space[loc].cache_line)}
    IN  /\ \A loc \in taken : space[loc].secondary \in (loc[1] + 1)..(Buses - 1)
        /\ \A l, m \in taken : space[l].secondary = space[m].secondary => l = m

\* There is something to read at every location, if only ones.
ASSUME SpaceAssumption == \A space \in ConfigSpaces : DOMAIN space = Loc

IsEhci(loc) == Present(loc) /\ cfg[loc].ehci

ScanOf(bus) == [bus |-> bus, device |-> 0, function |-> 0]
At(scan) == <<scan.bus, scan.device, scan.function>>

TypeOK == /\ DOMAIN cfg = Loc
          /\ call \in {"none", "pci_init", "pci_scan", "pci_find_ehci"}
          /\ stack \in Seq([bus : 0..(Buses - 1), device : 0..(Devices - 1),
                            function : 0..(Functions - 1)])
          /\ reported \in Seq(Loc)
          /\ slot \in 0..(Buses * Devices)
          /\ ret.found \in {-1, 0, 1}

Init == /\ cfg \in ConfigSpaces
        /\ call = "none" /\ stack = <<>> /\ reported = <<>> /\ slot = 0
        /\ ret = [found |-> -1]

\* pci_scan and pci_find_ehci start on bus 0; pci_init only if there is a host bridge.
Call(name) ==
  /\ call = "none"
  /\ call' = name
  /\ stack' = IF name = "pci_init" /\ ~Present(<<0, 0, 0>>) THEN <<>> ELSE <<ScanOf(0)>>
  /\ reported' = <<>> /\ slot' = 0 /\ ret' = [found |-> -1]
  /\ UNCHANGED cfg

\* Where the scan of a bus goes on: the other functions of the device if its function 0
\* says it has some, the next device, or nowhere.
After(scan, multi) ==
  IF multi /\ scan.function + 1 < Functions
  THEN <<[scan EXCEPT !.function = @ + 1]>>
  ELSE IF scan.device + 1 < Devices
       THEN <<[scan EXCEPT !.device = @ + 1, !.function = 0]>> ELSE <<>>

\* Slip: behind a bridge the scan does not come back to the bus it came from.
ScanFunctionAstray ==
  /\ stack # <<>>
  /\ LET scan == stack[Len(stack)]
         loc == At(scan)
         rest == SubSeq(stack, 1, Len(stack) - 1)
                   \o After(scan, MultiDevice(loc))
     IN  IF Present(loc)
         THEN /\ reported' = Append(reported, loc)
              /\ stack' = IF IsBridge(pci_read_header_type(loc))
                          THEN <<ScanOf(pci_read_secondary_bus(loc))>>
                          ELSE rest
         ELSE stack' = rest /\ UNCHANGED reported
  /\ UNCHANGED <<cfg, call, slot, ret>>

\* pci_scan_function, and the step of the loops around it.
ScanFunction ==
  /\ stack # <<>>
  /\ LET scan == stack[Len(stack)]
         loc == At(scan)
         rest == SubSeq(stack, 1, Len(stack) - 1)
                   \o After(scan, MultiDevice(loc))
     IN  IF Present(loc)
         THEN /\ reported' = Append(reported, loc)
              /\ stack' = IF IsBridge(pci_read_header_type(loc))
                          THEN Append(rest, ScanOf(pci_read_secondary_bus(loc)))
                          ELSE rest
         ELSE stack' = rest /\ UNCHANGED reported
  /\ UNCHANGED <<cfg, call, slot, ret>>

\* pci_init and pci_scan are done.
ScanDone ==
  /\ call \in {"pci_init", "pci_scan"} /\ stack = <<>>
  /\ call' = "none"
  /\ UNCHANGED <<cfg, stack, reported, slot, ret>>

\* Slip: the loop over the buses ends at the last but one.
SearchStopsShort ==
  /\ call = "pci_find_ehci" /\ stack = <<>>
  /\ LET loc == <<slot \div Devices, slot % Devices, 0>>
         last == slot = (Buses - 1) * Devices
     IN  IF ~last /\ IsEhci(loc)
         THEN ret' = [found |-> 1, out |-> loc] /\ call' = "none" /\ UNCHANGED slot
         ELSE IF last THEN ret' = [found |-> 0] /\ call' = "none" /\ UNCHANGED slot
                      ELSE slot' = slot + 1 /\ UNCHANGED <<ret, call>>
  /\ UNCHANGED <<cfg, stack, reported>>

\* Slip: a slot that holds something else is looked at again and again.
SearchSticks ==
  /\ call = "pci_find_ehci" /\ stack = <<>>
  /\ LET loc == <<slot \div Devices, slot % Devices, 0>>
         last == slot = Buses * Devices
     IN  IF ~last /\ IsEhci(loc)
         THEN ret' = [found |-> 1, out |-> loc] /\ call' = "none" /\ UNCHANGED slot
         ELSE IF last THEN ret' = [found |-> 0] /\ call' = "none" /\ UNCHANGED slot
         ELSE slot' = (IF Present(loc) THEN slot ELSE slot + 1) /\ UNCHANGED <<ret, call>>
  /\ UNCHANGED <<cfg, stack, reported>>

\* The second pass of pci_find_ehci looks at function 0 of every slot, and stops at the
\* first EHCI controller.
Search ==
  /\ call = "pci_find_ehci" /\ stack = <<>>
  /\ LET loc == <<slot \div Devices, slot % Devices, 0>>
         last == slot = Buses * Devices
     IN  IF ~last /\ IsEhci(loc)
         THEN ret' = [found |-> 1, out |-> loc] /\ call' = "none" /\ UNCHANGED slot
         ELSE IF last THEN ret' = [found |-> 0] /\ call' = "none" /\ UNCHANGED slot
                      ELSE slot' = slot + 1 /\ UNCHANGED <<ret, call>>
  /\ UNCHANGED <<cfg, stack, reported>>

Step == ScanFunction \/ ScanDone \/ Search

Next == Step \/ \E name \in {"pci_init", "pci_scan", "pci_find_ehci"} : Call(name)

\* The scan is straight code: whatever runs it keeps running it.
Spec == Init /\ [][Next]_vars /\ WF_vars(Step)
-----------------------------------------------------------------------------
Scanned == stack = <<>> /\ reported # <<>>
WasReported(loc) == \E i \in DOMAIN reported : reported[i] = loc

\* The buses the scan has to look at: bus 0, and those that a function leads to which it
\* reported and takes for a bridge; and what it has to look at there: function 0 of each
\* device, and the other functions of a device it takes for one with several.
LedTo(bus) == bus = 0 \/ \E i \in DOMAIN reported :
  IsBridge(pci_read_header_type(reported[i])) /\ pci_read_secondary_bus(reported[i]) = bus
LooksAt(loc) == LedTo(loc[1]) /\ (loc[3] = 0 \/ MultiDevice(loc))

\* No function is found twice, and so none handed to a callback twice, and only functions
\* that are there and that the scan has to look at, however scans of buses nest; and a
\* finished scan has reported all of those, on every bus it was led to, whatever the devices
\* and bridges before them made it do.  What the scan takes for a bridge or for a device with
\* several functions, it reads in the wrong byte: see BridgesScanned (pci.c:101-165).
ScanReports ==
  /\ \A i \in DOMAIN reported : Present(reported[i]) /\ LooksAt(reported[i])
  /\ \A i, j \in DOMAIN reported : reported[i] = reported[j] => i = j
  /\ Scanned => \A loc \in Loc : Present(loc) /\ LooksAt(loc) => WasReported(loc)

\* pci_find_ehci finds the first slot whose function 0 is an EHCI controller, or that
\* there is none on any bus, also on buses the scan never got to (pci.c:200-236).
FindsFirst ==
  /\ ret.found = 1 => /\ IsEhci(ret.out) /\ ret.out[3] = 0
                      /\ \A loc \in Loc : loc[3] = 0 /\ IsEhci(loc)
                           => ret.out[1] * Devices + ret.out[2] <= loc[1] * Devices + loc[2]
  /\ ret.found = 0 => \A loc \in Loc : loc[3] = 0 => ~IsEhci(loc)

\* A scan ends, in a tree of buses (pci.c:135).
ScanEnds == call # "none" ~> call = "none"
-----------------------------------------------------------------------------
\* What comments of pci.c say of it.

\* pci.c:131 "Если это PCI-to-PCI мост — сканируем вторичную шину": the functions behind
\* a reported bridge are reported too.
BridgesScanned ==
  Scanned => \A loc \in Loc :
    Present(loc) /\ WasReported(loc) /\ IsBridge(cfg[loc].header) =>
      \A d \in 0..(Devices - 1) :
        LET behind == <<cfg[loc].secondary, d, 0>> IN Present(behind) => WasReported(behind)
=============================================================================
