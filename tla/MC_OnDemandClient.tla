------------------------- MODULE MC_OnDemandClient -------------------------
(* Instances of OnDemandClient for TLC.  Two analyzers share one etcd and  *)
(* one graph; the constants below are chosen per run in the .cfg files.   *)
EXTENDS OnDemandClient

CONSTANTS a1, a2, c1, c2, n1, n2, h1

\* Each capture's query resolves to one node; both target n1.
SingleTarget == [c \in Captures |-> {n1}]

\* Every capture's query resolves to both nodes, in graph order.
TwoTargets == [c \in Captures |-> {n1, n2}]

EmptyGraph == << >>
OnlyN1 == <<n1>>

OneHost == [n \in Nodes |-> h1]

Reliable == {TRUE}
Lossy == BOOLEAN
=============================================================================
