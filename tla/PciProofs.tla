----------------------------- MODULE PciProofs ------------------------------
(* What holds of the scan of the buses and of the search for any machine     *)
(* whose buses form a tree, and any number of buses, devices and functions.  *)
EXTENDS Pci, SequenceTheorems, TLAPS

LEMMA DivMod ==
  ASSUME NEW v \in Nat, NEW n \in Nat \ {0}
  PROVE  /\ v \div n \in Nat /\ v % n \in 0..(n - 1)
         /\ v = n * (v \div n) + (v % n)
  OBVIOUS

LEMMA DivModOf ==
  ASSUME NEW q \in Nat, NEW n \in Nat \ {0}, NEW r \in 0..(n - 1)
  PROVE  (q * n + r) \div n = q /\ (q * n + r) % n = r
  OBVIOUS

\* A location is its three numbers.
LEMMA LocParts ==
  /\ \A loc \in Loc : /\ loc = <<loc[1], loc[2], loc[3]>>
                      /\ loc[1] \in 0..(Buses - 1) /\ loc[2] \in 0..(Devices - 1)
                      /\ loc[3] \in 0..(Functions - 1)
  /\ \A b \in 0..(Buses - 1), d \in 0..(Devices - 1), f \in 0..(Functions - 1) :
       <<b, d, f>> \in Loc
BY DEF Loc

-----------------------------------------------------------------------------
(* The search.                                                               *)

\* The slot of a location, counted over all buses.
SlotOf(loc) == loc[1] * Devices + loc[2]

\* The search has passed no EHCI controller.
SearchInv == /\ slot \in 0..(Buses * Devices) /\ ret.found \in {-1, 0, 1}
             /\ call = "pci_find_ehci" =>
                  \A loc \in Loc : loc[3] = 0 /\ IsEhci(loc) => slot <= SlotOf(loc)

LEMMA SlotBound ==
  ASSUME NEW loc \in Loc
  PROVE  SlotOf(loc) \in Nat /\ SlotOf(loc) < Buses * Devices
<1>1. loc[1] \in Nat /\ loc[1] + 1 <= Buses /\ loc[2] \in Nat /\ loc[2] < Devices
  BY LocParts, PciAssumption
<1>2. loc[1] * Devices \in Nat /\ (loc[1] + 1) * Devices <= Buses * Devices
  BY <1>1, PciAssumption
<1>3. (loc[1] + 1) * Devices = loc[1] * Devices + Devices
  BY <1>1, PciAssumption
<1> QED
  BY <1>1, <1>2, <1>3, PciAssumption DEF SlotOf

\* A slot's bus and device are found by division.
LEMMA SlotParts ==
  ASSUME NEW loc \in Loc
  PROVE  SlotOf(loc) \div Devices = loc[1] /\ SlotOf(loc) % Devices = loc[2]
<1>1. loc[1] \in Nat /\ loc[2] \in 0..(Devices - 1)
  BY LocParts, PciAssumption
<1> QED
  BY <1>1, DivModOf, PciAssumption DEF SlotOf

LEMMA SlotCount == Buses * Devices \in Nat /\ 0 \in 0..(Buses * Devices)
BY PciAssumption

LEMMA SearchInit == Init => SearchInv /\ FindsFirst
BY SlotCount DEF Init, SearchInv, FindsFirst

LEMMA SearchStep == SearchInv /\ FindsFirst /\ Search => SearchInv' /\ FindsFirst'
<1> SUFFICES ASSUME SearchInv, FindsFirst, Search
             PROVE  SearchInv' /\ FindsFirst'
  OBVIOUS
<1> DEFINE loc == <<slot \div Devices, slot % Devices, 0>>
           last == slot = Buses * Devices
<1>0. slot \in 0..(Buses * Devices) /\ ret.found \in {-1, 0, 1}
  BY DEF SearchInv
<1>1. /\ cfg' = cfg /\ call = "pci_find_ehci" /\ slot \in Nat
      /\ \A l \in Loc : l[3] = 0 /\ IsEhci(l) => slot <= SlotOf(l)
  BY <1>0, SlotCount DEF Search, SearchInv
<1>2. CASE ~last /\ IsEhci(loc)
  <2>1. ret' = [found |-> 1, out |-> loc] /\ call' = "none" /\ slot' = slot
    BY <1>2 DEF Search
  <2>2. loc[1] * Devices + loc[2] = slot
    BY <1>1, DivMod, PciAssumption
  <2>3. SearchInv'
    BY <1>0, <1>1, <2>1 DEF SearchInv
  <2>4. PICK out : out = loc
    OBVIOUS
  <2>5. /\ ret'.found = 1 /\ ret'.out = out
        /\ cfg'[out].here /\ cfg'[out].ehci
        /\ out[3] = 0 /\ out[1] * Devices + out[2] = slot
    BY <1>1, <1>2, <2>1, <2>2, <2>4 DEF IsEhci, Present
  <2>6. \A l \in Loc : l[3] = 0 /\ cfg'[l].here /\ cfg'[l].ehci
                       => slot <= l[1] * Devices + l[2]
    BY <1>1 DEF IsEhci, Present, SlotOf
  <2>7. FindsFirst'
    BY <2>5, <2>6 DEF FindsFirst, IsEhci, Present
  <2> QED
    BY <2>3, <2>7
<1>3. CASE last
  <2>1. ret' = [found |-> 0] /\ call' = "none" /\ slot' = slot
    BY <1>3 DEF Search
  <2>2. SearchInv'
    BY <1>0, <1>1, <2>1 DEF SearchInv
  <2>3. \A l \in Loc : l[3] = 0 => ~IsEhci(l)
    <3> SUFFICES ASSUME NEW l \in Loc, l[3] = 0, IsEhci(l) PROVE FALSE
      OBVIOUS
    <3>1. slot <= SlotOf(l) /\ SlotOf(l) \in Nat /\ SlotOf(l) < Buses * Devices
      BY <1>1, SlotBound
    <3> QED
      BY <1>1, <1>3, <3>1, PciAssumption
  <2>4. FindsFirst'
    BY <1>1, <2>1, <2>3 DEF FindsFirst, IsEhci, Present
  <2> QED
    BY <2>2, <2>4
<1>4. CASE ~last /\ ~IsEhci(loc)
  <2>1. ret' = ret /\ call' = call /\ slot' = slot + 1
    BY <1>4 DEF Search
  <2>2. FindsFirst'
    BY <1>1, <2>1 DEF FindsFirst, IsEhci, Present
  <2>3. ASSUME NEW l \in Loc, l[3] = 0, IsEhci(l)
        PROVE  slot + 1 <= SlotOf(l)
    <3>1. slot <= SlotOf(l) /\ SlotOf(l) \in Nat
      BY <1>1, <2>3, SlotBound
    <3>2. slot # SlotOf(l)
      <4>1. ASSUME slot = SlotOf(l) PROVE FALSE
        <5>1. loc = <<l[1], l[2], 0>>
          BY <4>1, SlotParts
        <5>2. loc = l
          BY <2>3, <5>1, LocParts
        <5> QED
          BY <1>4, <2>3, <5>2
      <4> QED
        BY <4>1
    <3> QED
      BY <1>1, <3>1, <3>2
  <2>4. slot' \in 0..(Buses * Devices)
    BY <1>0, <1>1, <1>4, <2>1, SlotCount
  <2>5. SearchInv'
    BY <1>0, <1>1, <2>1, <2>3, <2>4 DEF SearchInv, IsEhci, Present
  <2> QED
    BY <2>2, <2>5
<1> QED
  BY <1>2, <1>3, <1>4

LEMMA SearchNext == SearchInv /\ FindsFirst /\ [Next]_vars => SearchInv' /\ FindsFirst'
<1> SUFFICES ASSUME SearchInv, FindsFirst, [Next]_vars
             PROVE  SearchInv' /\ FindsFirst'
  OBVIOUS
<1>1. CASE Search
  BY <1>1, SearchStep
<1>2. CASE ScanFunction
  BY <1>2 DEF ScanFunction, SearchInv, FindsFirst, IsEhci, Present
<1>3. CASE ScanDone
  BY <1>3 DEF ScanDone, SearchInv, FindsFirst, IsEhci, Present
<1>4. ASSUME NEW name \in {"pci_init", "pci_scan", "pci_find_ehci"}, Call(name)
      PROVE  SearchInv' /\ FindsFirst'
  <2>1. slot' = 0 /\ ret'.found = -1
    BY <1>4 DEF Call
  <2>2. \A loc \in Loc : 0 <= SlotOf(loc)
    BY SlotBound
  <2> QED
    BY <2>1, <2>2, SlotCount DEF SearchInv, FindsFirst
<1>5. CASE UNCHANGED vars
  BY <1>5 DEF vars, SearchInv, FindsFirst, IsEhci, Present
<1> QED
  BY <1>1, <1>2, <1>3, <1>4, <1>5 DEF Next, Step
-----------------------------------------------------------------------------
(* The scan.  A bus is entered through its bridge, which is reported only    *)
(* once; on each bus the scan goes forward only.                             *)

Scans == [bus : 0..(Buses - 1), device : 0..(Devices - 1), function : 0..(Functions - 1)]

\* The scan takes a function for a bridge that leads to this bus.
Leads(space, loc, bus) ==
  space[loc].here /\ IsBridge(space[loc].cache_line) /\ space[loc].secondary = bus

\* The scan of a bus still has a location before it.
Ahead(scan, loc) == \/ loc[2] > scan.device
                    \/ loc[2] = scan.device /\ loc[3] >= scan.function

Entered(space, found, bus) == bus = 0 \/ \E j \in DOMAIN found : Leads(space, found[j], bus)

MachineInv == /\ cfg \in ConfigSpaces
              /\ call \in {"none", "pci_init", "pci_scan", "pci_find_ehci"}
              /\ stack \in Seq(Scans) /\ reported \in Seq(Loc)

ReportedInv ==
  /\ \A i \in DOMAIN reported : Present(reported[i])
  /\ \A i, j \in DOMAIN reported : reported[i] = reported[j] => i = j
BehindInv ==
  \A i \in DOMAIN stack, j \in DOMAIN reported :
    reported[j][1] = stack[i].bus => ~Ahead(stack[i], reported[j])
OnceInv == \A i, k \in DOMAIN stack : stack[i].bus = stack[k].bus => i = k
EnteredInv == /\ \A i \in DOMAIN stack : Entered(cfg, reported, stack[i].bus)
              /\ \A j \in DOMAIN reported : Entered(cfg, reported, reported[j][1])

\* The scan is at a function other than 0 only of a device it takes for one with several.
Looked(loc) == loc[3] = 0 \/ MultiDevice(loc)
LookedInv == /\ \A i \in DOMAIN stack : Looked(At(stack[i]))
             /\ \A j \in DOMAIN reported : Looked(reported[j])

\* Once a scan is under way, all it has to look at is reported or still before it, on each
\* bus entered.
CoverInv ==
  stack # <<>> \/ reported # <<>> =>
    \A loc \in Loc :
      Present(loc) /\ Entered(cfg, reported, loc[1]) /\ Looked(loc) =>
        \/ WasReported(loc)
        \/ \E i \in DOMAIN stack : stack[i].bus = loc[1] /\ Ahead(stack[i], loc)

ScanInv == /\ MachineInv /\ ReportedInv /\ BehindInv /\ OnceInv /\ EnteredInv
           /\ LookedInv /\ CoverInv

\* Whether a device has several functions is up to the machine.
LEMMA LookedKept == ASSUME cfg' = cfg PROVE \A loc : Looked(loc)' <=> Looked(loc)
BY DEF Looked, MultiDevice, pci_read_header_type, pci_read_config, Byte, Present

\* The buses form a tree.
LEMMA Tree ==
  ASSUME cfg \in ConfigSpaces, NEW l \in Loc, NEW b, Leads(cfg, l, b)
  PROVE  /\ b \in (l[1] + 1)..(Buses - 1)
         /\ \A m \in Loc : Leads(cfg, m, b) => m = l
<1> DEFINE taken == {loc \in Loc : cfg[loc].here /\ IsBridge(cfg[loc].cache_line)}
<1>1. /\ \A loc \in taken : cfg[loc].secondary \in (loc[1] + 1)..(Buses - 1)
      /\ \A k, m \in taken : cfg[k].secondary = cfg[m].secondary => k = m
  BY TreeAssumption
<1>2. \A m \in Loc : Leads(cfg, m, b) => m \in taken /\ cfg[m].secondary = b
  BY DEF Leads
<1>3. l \in taken /\ cfg[l].secondary = b
  BY <1>2
<1> HIDE DEF taken
<1> QED
  BY <1>1, <1>2, <1>3

\* What the scan reads of a function that is there.
LEMMA Registers ==
  ASSUME NEW loc, Present(loc)
  PROVE  /\ pci_read_header_type(loc) = cfg[loc].cache_line
         /\ pci_read_secondary_bus(loc) = cfg[loc].secondary
<1>1. PCI_HEADER_TYPE - (PCI_HEADER_TYPE % 4) + 0 = 12
  BY DEF PCI_HEADER_TYPE
<1>2. PCI_SECONDARY_BUS - (PCI_SECONDARY_BUS % 4) + 1 = 25
  BY DEF PCI_SECONDARY_BUS
<1>3. Byte(loc, 12) = cfg[loc].cache_line /\ Byte(loc, 25) = cfg[loc].secondary
  BY DEF Byte
<1> QED
  BY <1>1, <1>2, <1>3 DEF pci_read_header_type, pci_read_secondary_bus, pci_read_config

\* The next function on the bus, if there is one.
GoesOn(scan, multi) == multi /\ scan.function + 1 < Functions
Advanced(scan, multi, next) ==
  /\ next \in Scans /\ next.bus = scan.bus
  /\ \/ /\ GoesOn(scan, multi)
        /\ next.device = scan.device /\ next.function = scan.function + 1
     \/ /\ ~GoesOn(scan, multi)
        /\ next.device = scan.device + 1 /\ next.function = 0
AtEnd(scan, multi) == ~GoesOn(scan, multi) /\ scan.device + 1 >= Devices

LEMMA AfterKinds ==
  ASSUME NEW scan \in Scans, NEW multi
  PROVE  \/ After(scan, multi) = <<>> /\ AtEnd(scan, multi)
         \/ \E next \in Scans : After(scan, multi) = <<next>> /\ Advanced(scan, multi, next)
<1> DEFINE f == [scan EXCEPT !.function = @ + 1]
           d == [scan EXCEPT !.device = @ + 1, !.function = 0]
<1>1. scan.device \in Nat /\ scan.function \in Nat
  BY PciAssumption DEF Scans
<1>2. CASE GoesOn(scan, multi)
  <2>1. f \in Scans /\ Advanced(scan, multi, f)
    BY <1>1, <1>2, PciAssumption DEF Scans, Advanced, GoesOn
  <2> QED
    BY <1>2, <2>1 DEF After, GoesOn
<1>3. CASE ~GoesOn(scan, multi) /\ scan.device + 1 < Devices
  <2>1. d \in Scans /\ Advanced(scan, multi, d)
    <3>1. scan.device + 1 \in 0..(Devices - 1) /\ 0 \in 0..(Functions - 1)
      BY <1>1, <1>3, PciAssumption
    <3>2. d \in Scans
      BY <3>1 DEF Scans
    <3>3. d.bus = scan.bus /\ d.device = scan.device + 1 /\ d.function = 0
      BY DEF Scans
    <3> QED
      BY <1>3, <3>2, <3>3 DEF Advanced
  <2> QED
    BY <1>3, <2>1 DEF After, GoesOn
<1>4. CASE ~GoesOn(scan, multi) /\ ~(scan.device + 1 < Devices)
  BY <1>1, <1>4, PciAssumption DEF After, GoesOn, AtEnd
<1> QED
  BY <1>2, <1>3, <1>4

\* The scans after a step: those below the innermost stay, this one goes on or is done, and
\* behind a bridge another begins.
LEMMA ScanSteps ==
  ASSUME MachineInv, ScanFunction
  PROVE  LET n == Len(stack)
             scan == stack[n]
             loc == At(scan)
         IN  /\ n \in Nat \ {0} /\ scan \in Scans /\ loc \in Loc
             /\ stack' \in Seq(Scans)
             /\ \A i \in 1..(n - 1) : i \in DOMAIN stack' /\ stack'[i] = stack[i]
             /\ \/ AtEnd(scan, MultiDevice(loc))
                \/ n \in DOMAIN stack' /\ Advanced(scan, MultiDevice(loc), stack'[n])
             /\ \A i \in DOMAIN stack' :
                  \/ i < n
                  \/ i = n /\ Advanced(scan, MultiDevice(loc), stack'[i])
                  \/ /\ i >= n /\ i = Len(stack') /\ Present(loc) /\ Leads(cfg, loc, stack'[i].bus)
                     /\ stack'[i] = ScanOf(stack'[i].bus)
             /\ \A bus : Leads(cfg, loc, bus) => \E i \in DOMAIN stack' : stack'[i] = ScanOf(bus)
<1> DEFINE n == Len(stack)
           scan == stack[n]
           loc == At(scan)
           multi == MultiDevice(loc)
           front == SubSeq(stack, 1, n - 1)
           rest == front \o After(scan, multi)
<1>1. stack \in Seq(Scans) /\ n \in Nat \ {0} /\ scan \in Scans
  <2>1. stack \in Seq(Scans) /\ stack # <<>>
    BY DEF MachineInv, ScanFunction
  <2>2. n \in Nat /\ n # 0 /\ DOMAIN stack = 1..n
    BY <2>1, EmptySeq, LenProperties
  <2> QED
    BY <2>1, <2>2, ElementOfSeq
<1>2. loc \in Loc
  BY <1>1 DEF At, Loc, Scans
<1>3. /\ front \in Seq(Scans) /\ Len(front) = n - 1
      /\ \A i \in 1..(n - 1) : front[i] = stack[i]
  <2>1. n - 1 \in Int /\ 1 \in Int /\ \A i \in 1..(n - 1) : stack[i] \in Scans
    BY <1>1, ElementOfSeq
  <2>2. /\ front \in Seq(Scans) /\ Len(front) = IF 1 <= n - 1 THEN (n - 1) - 1 + 1 ELSE 0
        /\ \A i \in 1..((n - 1) - 1 + 1) : front[i] = stack[1 + i - 1]
    BY <2>1, SubSeqProperties
  <2> HIDE DEF front
  <2>3. Len(front) = n - 1
    <3>1. PICK m \in Nat \ {0} : m = n
      BY <1>1
    <3>2. (IF 1 <= m - 1 THEN (m - 1) - 1 + 1 ELSE 0) = m - 1
      OBVIOUS
    <3> QED
      BY <2>2, <3>1, <3>2
  <2>4. \A i \in 1..(n - 1) : front[i] = stack[i]
    <3> TAKE i \in 1..(n - 1)
    <3>1. i \in 1..((n - 1) - 1 + 1) /\ 1 + i - 1 = i
      BY <1>1
    <3> QED
      BY <2>2, <3>1
  <2> QED
    BY <2>2, <2>3, <2>4
<1> HIDE DEF multi
<1>4. /\ rest \in Seq(Scans) /\ Len(rest) \in {n - 1, n}
      /\ \A i \in 1..(n - 1) : rest[i] = stack[i]
      /\ Len(rest) = n - 1 => AtEnd(scan, multi)
      /\ Len(rest) = n => Advanced(scan, multi, rest[n])
  <2>1. CASE After(scan, multi) = <<>> /\ AtEnd(scan, multi)
    <3>1. rest = front
      BY <1>3, <2>1
    <3> QED
      BY <1>1, <1>3, <2>1, <3>1
  <2>2. ASSUME NEW next \in Scans, After(scan, multi) = <<next>>, Advanced(scan, multi, next)
        PROVE  /\ rest \in Seq(Scans) /\ Len(rest) = n
               /\ \A i \in 1..(n - 1) : rest[i] = stack[i]
               /\ rest[n] = next
    <3> HIDE DEF front
    <3>1. rest = Append(front, next)
      BY <1>3, <2>2, AppendIsConcat
    <3> QED
      BY <1>1, <1>3, <3>1, AppendProperties
  <2>3. CASE \E next \in Scans : After(scan, multi) = <<next>> /\ Advanced(scan, multi, next)
    <3>1. PICK next \in Scans : After(scan, multi) = <<next>> /\ Advanced(scan, multi, next)
      BY <2>3
    <3>2. /\ rest \in Seq(Scans) /\ Len(rest) = n
          /\ \A i \in 1..(n - 1) : rest[i] = stack[i]
          /\ rest[n] = next
      BY <2>2, <3>1
    <3> HIDE DEF rest
    <3> QED
      BY <1>1, <3>1, <3>2
  <2> QED
    BY <1>1, <2>1, <2>3, AfterKinds
<1> HIDE DEF rest
<1>5. \/ stack' = rest
      \/ /\ Present(loc) /\ IsBridge(pci_read_header_type(loc))
         /\ stack' = Append(rest, ScanOf(pci_read_secondary_bus(loc)))
  BY DEF ScanFunction, rest, multi
<1>5a. ASSUME NEW bus, Leads(cfg, loc, bus)
       PROVE  /\ Present(loc) /\ bus = pci_read_secondary_bus(loc)
              /\ stack' = Append(rest, ScanOf(bus))
  <2>1. Present(loc) /\ IsBridge(pci_read_header_type(loc)) /\ bus = pci_read_secondary_bus(loc)
    BY <1>5a, Registers DEF Leads, Present
  <2> QED
    BY <2>1 DEF ScanFunction, rest, multi
<1>6. CASE stack' = rest
  <2>1. DOMAIN rest = 1..Len(rest)
    BY <1>4, LenProperties
  <2>2. \A bus : ~Leads(cfg, loc, bus)
    <3> SUFFICES ASSUME NEW bus, Leads(cfg, loc, bus) PROVE FALSE
      OBVIOUS
    <3>1. stack' = Append(rest, ScanOf(bus))
      BY <1>5a
    <3>2. ScanOf(bus) \in Scans
      <4>1. bus \in (loc[1] + 1)..(Buses - 1) /\ loc[1] \in Nat
        BY <1>2, Tree, LocParts, PciAssumption DEF MachineInv
      <4> HIDE DEF loc
      <4>2. bus \in 0..(Buses - 1) /\ 0 \in 0..(Devices - 1) /\ 0 \in 0..(Functions - 1)
        BY <4>1, PciAssumption
      <4> QED
        BY <4>2 DEF ScanOf, Scans
    <3>3. Len(stack') = Len(rest) + 1 /\ Len(rest) \in Nat
      BY <1>4, <3>1, <3>2, AppendProperties, LenProperties
    <3> QED
      BY <1>6, <3>3
  <2> QED
    BY <1>1, <1>2, <1>4, <1>6, <2>1, <2>2 DEF multi
<1>7. CASE /\ Present(loc) /\ IsBridge(pci_read_header_type(loc))
           /\ stack' = Append(rest, ScanOf(pci_read_secondary_bus(loc)))
  <2> DEFINE bus == cfg[loc].secondary
             new == ScanOf(bus)
  <2>1. Leads(cfg, loc, bus) /\ stack' = Append(rest, new)
    BY <1>7, Registers DEF Leads, Present
  <2>2. new \in Scans /\ new.bus = bus
    <3>1. bus \in (loc[1] + 1)..(Buses - 1)
      BY <1>2, <2>1, Tree DEF MachineInv
    <3>2. loc[1] \in Nat
      BY <1>2, LocParts, PciAssumption
    <3> HIDE DEF bus, loc
    <3>3. bus \in 0..(Buses - 1) /\ 0 \in 0..(Devices - 1) /\ 0 \in 0..(Functions - 1)
      BY <3>1, <3>2, PciAssumption
    <3> QED
      BY <3>3 DEF ScanOf, Scans
  <2> HIDE DEF new
  <2>3. /\ stack' \in Seq(Scans) /\ Len(stack') = Len(rest) + 1
        /\ \A i \in 1..Len(rest) : stack'[i] = rest[i]
        /\ stack'[Len(rest) + 1] = new
    BY <1>4, <2>1, <2>2, AppendProperties
  <2>4. DOMAIN stack' = 1..(Len(rest) + 1)
    BY <2>3, LenProperties
  <2>5. \A i \in DOMAIN stack' : i <= Len(rest) \/ i = Len(rest) + 1
    BY <1>1, <1>4, <2>4
  <2>6. Leads(cfg, loc, new.bus) /\ new = ScanOf(new.bus)
    BY <2>1, <2>2 DEF new
  <2>7. \A b : Leads(cfg, loc, b) => ScanOf(b) = new
    BY DEF Leads, new
  <2> HIDE DEF bus
  <2>8. \A b : Leads(cfg, loc, b) => \E i \in DOMAIN stack' : stack'[i] = ScanOf(b)
    BY <1>4, <2>3, <2>4, <2>7
  <2> QED
    BY <1>1, <1>2, <1>4, <1>7, <2>3, <2>4, <2>5, <2>6, <2>8 DEF multi
<1> QED
  BY <1>5, <1>6, <1>7

\* What is reported in a step: the function the scan is at, if it is there.
LEMMA ReportSteps ==
  ASSUME MachineInv, ScanFunction
  PROVE  LET loc == At(stack[Len(stack)])
         IN  /\ cfg' = cfg /\ call' = call /\ reported' \in Seq(Loc)
             /\ DOMAIN reported \subseteq DOMAIN reported'
             /\ \A j \in DOMAIN reported : reported'[j] = reported[j]
             /\ \A j \in DOMAIN reported' :
                  \/ j \in DOMAIN reported
                  \/ j = Len(reported) + 1 /\ reported'[j] = loc /\ Present(loc)
             /\ Present(loc) => /\ Len(reported) + 1 \in DOMAIN reported'
                                /\ reported'[Len(reported) + 1] = loc
<1> DEFINE loc == At(stack[Len(stack)])
<1>1. loc \in Loc /\ reported \in Seq(Loc)
  BY ScanSteps DEF MachineInv
<1>2. Len(reported) \in Nat /\ DOMAIN reported = 1..Len(reported)
  BY <1>1, LenProperties
<1>3. cfg' = cfg /\ call' = call
  BY DEF ScanFunction
<1>4. \/ Present(loc) /\ reported' = Append(reported, loc)
      \/ ~Present(loc) /\ reported' = reported
  BY DEF ScanFunction
<1> HIDE DEF loc
<1>5. CASE Present(loc) /\ reported' = Append(reported, loc)
  <2>1. /\ reported' \in Seq(Loc) /\ Len(reported') = Len(reported) + 1
        /\ \A j \in 1..Len(reported) : reported'[j] = reported[j]
        /\ reported'[Len(reported) + 1] = loc
    BY <1>1, <1>5, AppendProperties
  <2>2. DOMAIN reported' = 1..(Len(reported) + 1)
    BY <2>1, LenProperties
  <2> QED
    BY <1>2, <1>3, <1>5, <2>1, <2>2 DEF loc
<1>6. CASE ~Present(loc) /\ reported' = reported
  BY <1>1, <1>3, <1>6 DEF loc
<1> QED
  BY <1>4, <1>5, <1>6

LEMMA ScanFunctionKeeps == ScanInv /\ ScanFunction => ScanInv'
<1> SUFFICES ASSUME ScanInv, ScanFunction PROVE ScanInv'
  OBVIOUS
<1> DEFINE n == Len(stack)
           scan == stack[n]
           loc == At(scan)
           multi == MultiDevice(loc)
           m == Len(reported) + 1
<1>0. MachineInv
  BY DEF ScanInv
<1>1. /\ n \in Nat \ {0} /\ scan \in Scans /\ loc \in Loc
      /\ stack' \in Seq(Scans)
      /\ \A i \in 1..(n - 1) : i \in DOMAIN stack' /\ stack'[i] = stack[i]
      /\ \/ AtEnd(scan, multi)
         \/ n \in DOMAIN stack' /\ Advanced(scan, multi, stack'[n])
      /\ \A i \in DOMAIN stack' :
           \/ i < n
           \/ i = n /\ Advanced(scan, multi, stack'[i])
           \/ /\ i >= n /\ i = Len(stack') /\ Present(loc) /\ Leads(cfg, loc, stack'[i].bus)
              /\ stack'[i] = ScanOf(stack'[i].bus)
      /\ \A bus : Leads(cfg, loc, bus) => \E i \in DOMAIN stack' : stack'[i] = ScanOf(bus)
  BY <1>0, ScanSteps
<1>2. /\ cfg' = cfg /\ call' = call /\ reported' \in Seq(Loc)
      /\ DOMAIN reported \subseteq DOMAIN reported'
      /\ \A j \in DOMAIN reported : reported'[j] = reported[j]
      /\ \A j \in DOMAIN reported' :
           \/ j \in DOMAIN reported
           \/ j = m /\ reported'[j] = loc /\ Present(loc)
      /\ Present(loc) => m \in DOMAIN reported' /\ reported'[m] = loc
  BY <1>0, ReportSteps
<1>3. /\ stack \in Seq(Scans) /\ DOMAIN stack = 1..n /\ n \in DOMAIN stack
      /\ reported \in Seq(Loc) /\ DOMAIN reported = 1..Len(reported)
      /\ Len(reported) \in Nat /\ m \notin DOMAIN reported
  <2>1. stack \in Seq(Scans) /\ reported \in Seq(Loc)
    BY <1>0 DEF MachineInv
  <2>2. DOMAIN stack = 1..n /\ Len(reported) \in Nat /\ DOMAIN reported = 1..Len(reported)
    BY <2>1, LenProperties
  <2> QED
    BY <1>1, <2>1, <2>2
<1>4. DOMAIN stack' = 1..Len(stack') /\ Len(stack') \in Nat
  BY <1>1, LenProperties
<1>5. /\ loc[1] = scan.bus /\ loc[2] = scan.device /\ loc[3] = scan.function
      /\ scan.device \in Nat /\ scan.function \in Nat
  BY <1>1, PciAssumption DEF At, Scans
<1> HIDE DEF n, scan, loc, multi, m
\* The location is new: all that is reported of its bus lies behind it.
<1>6. \A j \in DOMAIN reported : reported[j] # loc
  <2> SUFFICES ASSUME NEW j \in DOMAIN reported, reported[j] = loc PROVE FALSE
    OBVIOUS
  <2>1. ~Ahead(scan, loc)
    BY <1>3, <1>5 DEF ScanInv, BehindInv, scan
  <2> QED
    BY <1>5, <2>1 DEF Ahead
<1>7. MachineInv'
  BY <1>0, <1>1, <1>2 DEF MachineInv
<1>8. ReportedInv'
  BY <1>2, <1>3, <1>6 DEF ScanInv, ReportedInv, Present
\* What is entered stays entered; nothing of a bus the location leads to is reported or
\* on the stack.
<1>9. \A bus : Entered(cfg, reported, bus) => Entered(cfg', reported', bus)
  BY <1>2 DEF Entered
<1>10. ASSUME NEW bus, Leads(cfg, loc, bus)
       PROVE  ~Entered(cfg, reported, bus) /\ Entered(cfg', reported', bus)
  <2>1. /\ bus \in (loc[1] + 1)..(Buses - 1) /\ \A l \in Loc : Leads(cfg, l, bus) => l = loc
    BY <1>0, <1>1, <1>10, Tree DEF MachineInv
  <2>2. bus # 0
    BY <1>1, <2>1, LocParts, PciAssumption
  <2>3. \A j \in DOMAIN reported : reported[j] \in Loc
    BY <1>3, ElementOfSeq
  <2>4. Entered(cfg', reported', bus)
    BY <1>2, <1>10 DEF Entered, Leads, Present
  <2> QED
    BY <1>6, <2>1, <2>2, <2>3, <2>4 DEF Entered
<1>11. EnteredInv'
  <2>1. ASSUME NEW j \in DOMAIN reported' PROVE Entered(cfg', reported', reported'[j][1])
    <3>1. CASE j \in DOMAIN reported
      BY <1>2, <1>9, <3>1 DEF ScanInv, EnteredInv
    <3>2. CASE j = m /\ reported'[j] = loc
      BY <1>3, <1>5, <1>9, <3>2 DEF ScanInv, EnteredInv, scan
    <3> QED
      BY <1>2, <3>1, <3>2
  <2>2. ASSUME NEW i \in DOMAIN stack' PROVE Entered(cfg', reported', stack'[i].bus)
    <3>1. CASE i < n
      BY <1>1, <1>3, <1>4, <1>9, <3>1 DEF ScanInv, EnteredInv
    <3>2. CASE i = n /\ Advanced(scan, multi, stack'[i])
      BY <1>3, <1>9, <3>2 DEF ScanInv, EnteredInv, Advanced, scan
    <3>3. CASE Leads(cfg, loc, stack'[i].bus)
      BY <1>10, <3>3
    <3> QED
      BY <1>1, <3>1, <3>2, <3>3
  <2> QED
    BY <2>1, <2>2 DEF EnteredInv
<1>12. BehindInv'
  <2> SUFFICES ASSUME NEW i \in DOMAIN stack', NEW j \in DOMAIN reported',
                      reported'[j][1] = stack'[i].bus
               PROVE  ~Ahead(stack'[i], reported'[j])
    BY DEF BehindInv
  <2>1. CASE i < n
    <3>1. i \in DOMAIN stack /\ stack'[i] = stack[i] /\ i # n
      BY <1>1, <1>3, <1>4, <2>1
    <3>2. CASE j \in DOMAIN reported
      BY <1>2, <3>1, <3>2 DEF ScanInv, BehindInv
    <3>3. CASE j = m /\ reported'[j] = loc
      <4>1. stack[i].bus = stack[n].bus
        BY <1>5, <3>1, <3>3 DEF scan
      <4> QED
        BY <1>3, <3>1, <4>1 DEF ScanInv, OnceInv
    <3> QED
      BY <1>2, <3>2, <3>3
  <2>2. CASE i = n /\ Advanced(scan, multi, stack'[i])
    <3>1. CASE j \in DOMAIN reported
      <4>1. reported'[j] = reported[j] /\ reported[j][1] = scan.bus
        BY <1>2, <2>2, <3>1 DEF Advanced
      <4>2. ~Ahead(scan, reported[j])
        BY <1>3, <3>1, <4>1 DEF ScanInv, BehindInv, scan
      <4>3. reported[j][2] \in Nat /\ reported[j][3] \in Nat
        BY <1>3, <3>1, ElementOfSeq, LocParts, PciAssumption
      <4>4. ~Ahead(stack'[i], reported[j])
        BY <1>5, <2>2, <4>2, <4>3 DEF Ahead, Advanced
      <4> QED
        BY <4>1, <4>4
    <3>2. CASE j = m /\ reported'[j] = loc
      <4>1. ~Ahead(stack'[i], loc)
        BY <1>5, <2>2 DEF Ahead, Advanced
      <4> QED
        BY <3>2, <4>1
    <3> QED
      BY <1>2, <3>1, <3>2
  <2>3. CASE Leads(cfg, loc, stack'[i].bus)
    <3>1. ~Entered(cfg, reported, stack'[i].bus)
      BY <1>10, <2>3
    <3>2. CASE j \in DOMAIN reported
      BY <1>2, <3>1, <3>2 DEF ScanInv, EnteredInv
    <3>3. CASE j = m /\ reported'[j] = loc
      BY <1>3, <1>5, <3>1, <3>3 DEF ScanInv, EnteredInv, scan
    <3> QED
      BY <1>2, <3>2, <3>3
  <2> QED
    BY <1>1, <2>1, <2>2, <2>3
\* The scan is never on a bus twice.
<1>13. OnceInv'
  <2> SUFFICES ASSUME NEW i \in DOMAIN stack', NEW k \in DOMAIN stack',
                      stack'[i].bus = stack'[k].bus, i < k
               PROVE  FALSE
    BY <1>4 DEF OnceInv
  <2>1. i \in 1..n \/ (i >= n /\ i = Len(stack'))
    BY <1>1, <1>4
  <2>2. i < n
    <3>1. CASE i = n /\ Advanced(scan, multi, stack'[i])
      <4>1. Leads(cfg, loc, stack'[k].bus)
        BY <1>1, <1>4, <3>1
      <4>2. stack'[i].bus = stack[n].bus
        BY <3>1 DEF Advanced, scan
      <4>3. Entered(cfg, reported, stack[n].bus)
        BY <1>3 DEF ScanInv, EnteredInv
      <4> QED
        BY <1>10, <4>1, <4>2, <4>3
    <3>2. CASE i = Len(stack')
      BY <1>4, <3>2
    <3> QED
      BY <1>1, <1>4, <3>1, <3>2
  <2>3. i \in DOMAIN stack /\ stack'[i] = stack[i]
    BY <1>1, <1>3, <1>4, <2>2
  <2>4. CASE k < n
    BY <1>1, <1>3, <1>4, <2>3, <2>4 DEF ScanInv, OnceInv
  <2>5. CASE k = n /\ Advanced(scan, multi, stack'[k])
    BY <1>3, <2>2, <2>3, <2>5 DEF ScanInv, OnceInv, Advanced, scan
  <2>6. CASE Leads(cfg, loc, stack'[k].bus)
    BY <1>10, <2>3, <2>6 DEF ScanInv, EnteredInv
  <2> QED
    BY <1>1, <2>4, <2>5, <2>6
<1>14. /\ \A l : Looked(l)' <=> Looked(l)
       /\ \A l, k \in Loc : l[1] = k[1] /\ l[2] = k[2] => (MultiDevice(l) <=> MultiDevice(k))
  BY <1>2, LookedKept DEF MultiDevice
<1>15. LookedInv'
  <2>1. Looked(loc)
    BY <1>3 DEF ScanInv, LookedInv, loc, scan
  <2>2. ASSUME NEW j \in DOMAIN reported' PROVE Looked(reported'[j])
    BY <1>2, <2>1, <2>2 DEF ScanInv, LookedInv
  <2>3. ASSUME NEW i \in DOMAIN stack' PROVE Looked(At(stack'[i]))
    <3>1. CASE i < n
      BY <1>1, <1>3, <1>4, <3>1 DEF ScanInv, LookedInv
    <3>2. CASE i = n /\ Advanced(scan, multi, stack'[i])
      <4> DEFINE next == stack'[i]
      <4>1. CASE next.function = 0
        BY <4>1 DEF Looked, At
      <4>2. CASE multi /\ next.device = scan.device /\ next.bus = scan.bus
        <5>1. At(next) \in Loc /\ At(next)[1] = loc[1] /\ At(next)[2] = loc[2]
          BY <1>5, <3>2, <4>2 DEF Advanced, At, Scans, Loc
        <5>2. MultiDevice(At(next))
          BY <1>1, <1>14, <4>2, <5>1 DEF multi
        <5> QED
          BY <5>2 DEF Looked
      <4> QED
        BY <3>2, <4>1, <4>2 DEF Advanced, GoesOn
    <3>3. CASE stack'[i] = ScanOf(stack'[i].bus)
      <4>1. PICK b : stack'[i] = ScanOf(b)
        BY <3>3
      <4>2. At(stack'[i])[3] = 0
        BY <4>1 DEF At, ScanOf
      <4> QED
        BY <4>2 DEF Looked
    <3> QED
      BY <1>1, <3>1, <3>2, <3>3
  <2> QED
    BY <1>14, <2>2, <2>3 DEF LookedInv, At
<1>16. CoverInv'
  <2> SUFFICES ASSUME NEW x \in Loc, Present(x), Entered(cfg', reported', x[1]), Looked(x),
                      ~ \E j \in DOMAIN reported' : reported'[j] = x
               PROVE  \E i \in DOMAIN stack' : stack'[i].bus = x[1] /\ Ahead(stack'[i], x)
    BY <1>2, <1>14 DEF CoverInv, WasReported, Present
  <2>0. /\ x = <<x[1], x[2], x[3]>> /\ x[1] \in Nat /\ x[2] \in Nat /\ x[3] \in Nat
        /\ x[2] < Devices /\ x[3] < Functions /\ Devices \in Nat /\ Functions \in Nat
    BY LocParts, PciAssumption
  <2>1. ~WasReported(x) /\ x # loc
    BY <1>2 DEF WasReported
  <2>2. CASE Entered(cfg, reported, x[1])
    <3>1. stack # <<>>
      BY <1>3, <1>1, EmptySeq DEF n
    <3>2. PICK i \in DOMAIN stack : stack[i].bus = x[1] /\ Ahead(stack[i], x)
      BY <2>1, <2>2, <3>1 DEF ScanInv, CoverInv
    <3>3. CASE i < n
      <4>1. i \in 1..(n - 1)
        BY <1>1, <1>3, <3>3
      <4>2. i \in DOMAIN stack' /\ stack'[i] = stack[i]
        BY <1>1, <4>1
      <4> QED
        BY <3>2, <4>2
    <3>4. CASE i = n
      <4>1. scan.bus = x[1] /\ Ahead(scan, x)
        BY <3>2, <3>4 DEF scan
      <4>2. loc = <<scan.bus, scan.device, scan.function>>
        BY DEF loc, At
      <4>3. x[2] > scan.device \/ (x[2] = scan.device /\ x[3] > scan.function)
        BY <1>5, <2>0, <2>1, <4>1, <4>2 DEF Ahead
      <4>4. x[2] = scan.device => GoesOn(scan, multi)
        <5> SUFFICES ASSUME x[2] = scan.device PROVE GoesOn(scan, multi)
          OBVIOUS
        <5>1. x[3] > scan.function /\ x[3] # 0
          BY <1>5, <2>0, <4>3
        <5>2. MultiDevice(x) /\ x[1] = loc[1] /\ x[2] = loc[2]
          BY <1>5, <4>1, <5>1 DEF Looked
        <5>3. multi
          BY <1>1, <1>14, <5>2 DEF multi
        <5> QED
          BY <1>5, <2>0, <5>1, <5>3 DEF GoesOn
      <4>5. ~AtEnd(scan, multi)
        BY <1>5, <2>0, <4>3, <4>4 DEF AtEnd
      <4>6. n \in DOMAIN stack' /\ Advanced(scan, multi, stack'[n])
        BY <1>1, <4>5
      <4>7. stack'[n].bus = x[1] /\ Ahead(stack'[n], x)
        BY <1>5, <2>0, <4>1, <4>3, <4>4, <4>6 DEF Advanced, Ahead
      <4> QED
        BY <4>6, <4>7
    <3>5. i < n \/ i = n
      BY <1>1, <1>3
    <3> QED
      BY <3>3, <3>4, <3>5
  <2>3. CASE ~Entered(cfg, reported, x[1])
    <3>1. Leads(cfg, loc, x[1])
      <4>1. x[1] # 0
        BY <2>3 DEF Entered
      <4>2. PICK j \in DOMAIN reported' : Leads(cfg, reported'[j], x[1])
        BY <1>2, <4>1 DEF Entered
      <4>3. j \notin DOMAIN reported
        BY <1>2, <2>3, <4>2 DEF Entered
      <4> QED
        BY <1>2, <4>2, <4>3
    <3>2. PICK i \in DOMAIN stack' : stack'[i] = ScanOf(x[1])
      BY <1>1, <3>1
    <3>3. stack'[i].bus = x[1] /\ stack'[i].device = 0 /\ stack'[i].function = 0
      BY <3>2 DEF ScanOf
    <3>4. Ahead(stack'[i], x)
      BY <2>0, <3>3 DEF Ahead
    <3> QED
      BY <3>3, <3>4
  <2> QED
    BY <2>2, <2>3
<1> QED
  BY <1>7, <1>8, <1>11, <1>12, <1>13, <1>15, <1>16 DEF ScanInv

LEMMA CallKeeps ==
  ASSUME ScanInv, NEW name \in {"pci_init", "pci_scan", "pci_find_ehci"}, Call(name)
  PROVE  ScanInv'
<1> DEFINE first == ScanOf(0)
<1>1. first \in Scans /\ first.bus = 0 /\ first.device = 0 /\ first.function = 0
  BY PciAssumption DEF ScanOf, Scans
<1> HIDE DEF first
<1>2. cfg' = cfg /\ call' = name /\ reported' = <<>> /\ (stack' = <<>> \/ stack' = <<first>>)
  BY DEF Call, first
<1>3. \A S : <<>> \in Seq(S) /\ DOMAIN <<>> = {}
  BY EmptySeq
<1>4. stack' \in Seq(Scans) /\ \A i \in DOMAIN stack' : i = 1 /\ stack'[i] = first
  <2>1. CASE stack' = <<>>
    BY <1>3, <2>1
  <2>2. CASE stack' = <<first>>
    <3>1. <<first>> \in Seq(Scans) /\ Len(<<first>>) = 1 /\ <<first>>[1] = first
      BY <1>1
    <3>2. DOMAIN <<first>> = 1..1
      BY <3>1, LenProperties
    <3> QED
      BY <2>2, <3>1, <3>2
  <2> QED
    BY <1>2, <2>1, <2>2
<1>5. MachineInv'
  BY <1>2, <1>3, <1>4 DEF ScanInv, MachineInv
<1>6. ReportedInv' /\ BehindInv' /\ OnceInv' /\ EnteredInv'
  BY <1>1, <1>2, <1>3, <1>4 DEF ReportedInv, BehindInv, OnceInv, EnteredInv, Entered
<1>7. LookedInv'
  <2>1. At(first)[3] = 0
    BY <1>1 DEF At
  <2>2. Looked(At(first))
    BY <2>1 DEF Looked
  <2>3. \A l : Looked(l)' <=> Looked(l)
    BY <1>2, LookedKept
  <2> QED
    BY <1>2, <1>3, <1>4, <2>2, <2>3 DEF LookedInv, At
<1>8. CoverInv'
  <2> SUFFICES ASSUME stack' # <<>>, NEW x \in Loc, Entered(cfg', reported', x[1])
               PROVE  \E i \in DOMAIN stack' : stack'[i].bus = x[1] /\ Ahead(stack'[i], x)
    BY <1>2 DEF CoverInv
  <2>1. stack' = <<first>>
    BY <1>2
  <2>2. 1 \in DOMAIN stack' /\ stack'[1] = first
    BY <2>1
  <2>3. x[1] = 0
    BY <1>2, <1>3 DEF Entered
  <2>4. Ahead(first, x)
    <3>1. x[2] \in Nat /\ x[3] \in Nat
      BY LocParts, PciAssumption
    <3> QED
      BY <1>1, <3>1 DEF Ahead
  <2> QED
    BY <1>1, <2>2, <2>3, <2>4
<1> QED
  BY <1>5, <1>6, <1>7, <1>8 DEF ScanInv

LEMMA ScanInit == Init => ScanInv
<1> SUFFICES ASSUME Init PROVE ScanInv
  OBVIOUS
<1>1. cfg \in ConfigSpaces /\ call = "none" /\ stack = <<>> /\ reported = <<>>
  BY DEF Init
<1>2. \A S : <<>> \in Seq(S) /\ DOMAIN <<>> = {}
  BY EmptySeq
<1>3. MachineInv
  BY <1>1, <1>2 DEF MachineInv
<1> QED
  BY <1>1, <1>2, <1>3 DEF ScanInv, ReportedInv, BehindInv, OnceInv, EnteredInv,
                           LookedInv, CoverInv

\* Steps that leave the machine, the scan and the report alone.
LEMMA ScanUntouched ==
  ASSUME ScanInv, UNCHANGED <<cfg, stack, reported>>,
         call' \in {"none", "pci_init", "pci_scan", "pci_find_ehci"}
  PROVE  ScanInv'
<1>1. MachineInv'
  BY DEF ScanInv, MachineInv
<1>2. ReportedInv' /\ BehindInv' /\ OnceInv'
  BY DEF ScanInv, ReportedInv, BehindInv, OnceInv, Present
<1>3. EnteredInv'
  BY DEF ScanInv, EnteredInv
<1>4. \A l : Looked(l)' <=> Looked(l)
  BY LookedKept
<1>5. LookedInv'
  BY <1>4 DEF ScanInv, LookedInv, At
<1>6. CoverInv'
  BY <1>4 DEF ScanInv, CoverInv, WasReported, Present
<1> QED
  BY <1>1, <1>2, <1>3, <1>5, <1>6 DEF ScanInv

LEMMA ScanNext == ScanInv /\ [Next]_vars => ScanInv'
<1> SUFFICES ASSUME ScanInv, [Next]_vars PROVE ScanInv'
  OBVIOUS
<1>0. call \in {"none", "pci_init", "pci_scan", "pci_find_ehci"}
  BY DEF ScanInv, MachineInv
<1>1. CASE Search
  BY <1>0, <1>1, ScanUntouched DEF Search
<1>2. CASE ScanFunction
  BY <1>2, ScanFunctionKeeps
<1>3. CASE ScanDone
  BY <1>3, ScanUntouched DEF ScanDone
<1>4. ASSUME NEW name \in {"pci_init", "pci_scan", "pci_find_ehci"}, Call(name)
      PROVE  ScanInv'
  BY <1>4, CallKeeps
<1>5. CASE UNCHANGED vars
  BY <1>0, <1>5, ScanUntouched DEF vars
<1> QED
  BY <1>1, <1>2, <1>3, <1>4, <1>5 DEF Next, Step
-----------------------------------------------------------------------------
(* The results, for Pci alone and for any specification built on its steps.  *)

\* The buses the scan is led to are the buses entered.
LEMMA LedToEntered ==
  ASSUME MachineInv, ReportedInv
  PROVE  \A bus : LedTo(bus) <=> Entered(cfg, reported, bus)
<1>1. ASSUME NEW j \in DOMAIN reported, NEW bus
      PROVE  IsBridge(pci_read_header_type(reported[j]))
               /\ pci_read_secondary_bus(reported[j]) = bus <=> Leads(cfg, reported[j], bus)
  <2>1. Present(reported[j])
    BY DEF ReportedInv
  <2> QED
    BY <2>1, Registers DEF Leads, Present
<1> QED
  BY <1>1 DEF LedTo, Entered

LEMMA InvReports == ScanInv => ScanReports
<1> SUFFICES ASSUME ScanInv PROVE ScanReports
  OBVIOUS
<1>1. \A bus : LedTo(bus) <=> Entered(cfg, reported, bus)
  BY LedToEntered DEF ScanInv
<1>2. \A loc : LooksAt(loc) <=> Entered(cfg, reported, loc[1]) /\ Looked(loc)
  BY <1>1 DEF LooksAt, Looked
<1>3. \A i \in DOMAIN reported : Present(reported[i]) /\ LooksAt(reported[i])
  BY <1>2 DEF ScanInv, ReportedInv, EnteredInv, LookedInv
<1>4. ASSUME Scanned, NEW loc \in Loc, Present(loc), LooksAt(loc)
      PROVE  WasReported(loc)
  <2>1. stack = <<>> /\ reported # <<>> /\ DOMAIN stack = {}
    BY <1>4, EmptySeq DEF Scanned
  <2> QED
    BY <1>2, <1>4, <2>1 DEF ScanInv, CoverInv
<1> QED
  BY <1>3, <1>4 DEF ScanInv, ReportedInv, ScanReports

LEMMA InvTyped == ScanInv /\ SearchInv => TypeOK
BY SpaceAssumption DEF ScanInv, MachineInv, SearchInv, TypeOK, Scans

LEMMA PciAlways == Init /\ [][Next]_vars => [](ScanInv /\ SearchInv /\ FindsFirst)
<1>1. Init => ScanInv /\ SearchInv /\ FindsFirst
  BY ScanInit, SearchInit
<1>2. ScanInv /\ SearchInv /\ FindsFirst /\ [Next]_vars
        => ScanInv' /\ SearchInv' /\ FindsFirst'
  BY ScanNext, SearchNext
<1> QED
  BY <1>1, <1>2, PTL

\* The scan and the search keep what they know of the right kind.
THEOREM PciStaysTyped == Spec => []TypeOK
BY PciAlways, InvTyped, PTL DEF Spec

\* On every machine whose buses form a tree, as the scan reads them, a scan reports nothing
\* twice and nothing that is not there; and, of what is there on bus 0 and on each bus that a
\* function it reported and takes for a bridge leads to, it reports function 0 of each device,
\* the other functions of each device it takes for one with several, and no more.  What it
\* takes for a bridge or for several functions it reads in the wrong byte, and misses what the
\* right one would have shown (pci.c:67-70,101-165).
THEOREM ScanAlwaysReports == Spec => []ScanReports
BY PciAlways, InvReports, PTL DEF Spec

\* On every machine, pci_find_ehci finds the first EHCI controller or there is none
\* (pci.c:200-236).
THEOREM SearchAlwaysFindsFirst == Spec => []FindsFirst
BY PciAlways, PTL DEF Spec
=============================================================================
