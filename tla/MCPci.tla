------------------------------- MODULE MCPci --------------------------------
(* Machines for the runs of Pci: two buses of two slots of two functions,    *)
(* with the functions the scan tells apart at the places where they matter.  *)
EXTENDS Pci

Function(header, cache_line, ehci) ==
  [here |-> TRUE, header |-> header, cache_line |-> cache_line, secondary |-> 1,
   ehci |-> ehci]

Plain == Function(0, 16, FALSE)
Ehci == Function(0, 16, TRUE)
Bridge == Function(1, 16, FALSE)
Multi == Function(128, 16, FALSE)
\* The register before the header type happens to look like one.
SeenAsBridge == Function(0, 1, FALSE)
SeenAsMulti == Function(128, 128, FALSE)

\* The machines with these functions; bus 1 lies behind the bridge of slot 1.
Machine(f000, f001, f010, f011, f100, f110) ==
  [loc \in Loc |->
    CASE loc = <<0, 0, 0>> -> f000 [] loc = <<0, 0, 1>> -> f001
      [] loc = <<0, 1, 0>> -> f010 [] loc = <<0, 1, 1>> -> f011
      [] loc = <<1, 0, 0>> -> f100 [] loc = <<1, 1, 0>> -> f110
      [] OTHER -> Absent]

Machines ==
  {Machine(f000, f001, f010, f011, f100, f110) :
     f000 \in {Absent, Plain, SeenAsBridge, Multi, SeenAsMulti}, f001 \in {Absent, Plain, Ehci},
     f010 \in {Absent, Ehci, Bridge, SeenAsMulti},
     f011 \in {Absent, Ehci}, f100 \in {Absent, Ehci}, f110 \in {Absent, Ehci}}
=============================================================================
