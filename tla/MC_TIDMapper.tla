---------------------------- MODULE MC_TIDMapper ----------------------------
(* A host h1 owning a named network namespace ns, which owns an interface *)
(* veth; a second host h2 owning an OVS port; a fabric probe node fab; a   *)
(* layer2 link from h2's port to veth.                                     *)
EXTENDS TIDMapper

CONSTANTS h1, h2, ns, veth, port, fab, p1, u1, nameNs, nameVeth, namePort

NodeMeta ==
    [n \in {h1, h2, ns, veth, port, fab} |->
        LET base == [Type |-> Absent, Name |-> Absent, Path |-> Absent,
                     UUID |-> Absent, Probe |-> Absent]
        IN  CASE n \in {h1, h2} -> [base EXCEPT !.Type = "host", !.Name = n]
              [] n = ns   -> [base EXCEPT !.Type = "netns", !.Name = nameNs, !.Path = p1]
              [] n = veth -> [base EXCEPT !.Type = "veth", !.Name = nameVeth]
              [] n = port -> [base EXCEPT !.Type = "ovsport", !.Name = namePort, !.UUID = u1]
              [] n = fab  -> [base EXCEPT !.Type = "switch", !.Name = n, !.Probe = "fabric"]]

Link(p, c, r) == [parent |-> p, child |-> c, rel |-> r]

EdgeSet ==
    { Link(h1, ns, "ownership"), Link(ns, veth, "ownership"),
      Link(h2, port, "ownership"), Link(port, veth, "layer2") }
=============================================================================
