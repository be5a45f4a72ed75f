------------------------------- MODULE MCEhci -------------------------------
(* The machines of MCPci, two addresses beside the one PCI gives, and a pool *)
(* in the second of four large pages with room for two tries.                *)
EXTENDS Ehci, MCPci

MCQh == [size |-> 2, alignment |-> 2]
MCTd == [size |-> 1, alignment |-> 2]
MCClients == {[size |-> 1, alignment |-> 0]}
MCRequests == {MCQh, MCTd} \cup MCClients
MCCommonAddrs == <<48, 52>>
MCBars == {0, 32}
MCTables == [a \in 0..63 |-> [i \in 0..3 |-> NotPresent]]
=============================================================================
