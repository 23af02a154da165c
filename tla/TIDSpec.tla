------------------------------ MODULE TIDSpec ------------------------------
(***************************************************************************)
(* What the TID mapper promises (spec 4.C, 3 and 8 item 1), without how   *)
(* it computes it: the graph changes one node or edge at a time, in any   *)
(* order, and after each change                                           *)
(*   - only nodes in the graph carry a TID;                                *)
(*   - a node linked up to its root by ownership edges carries the TID    *)
(*     its chain determines, Canon(n);                                    *)
(*   - a node not yet linked may carry a provisional TID, which may be    *)
(*     replaced; a linked node's TID is never replaced.                    *)
(* Canon follows 4.C, scenario S3 and the comment above onNodeEvent     *)
(* (traversal.go 1289-1291): host, netns, ovsport and fabric nodes are   *)
(* roots, a netns named by its host's ID and its Path, an ovsport by its *)
(* host's ID and its UUID; every other node by its owner's TID, its Name  *)
(* and its Type.                                                          *)
(***************************************************************************)
CONSTANTS Nodes, Meta, Edges, Absent

VARIABLES added, edges, tid

vars == <<added, edges, tid>>

OwnershipEdges == {e \in Edges : e.rel = "ownership"}

(* The ownership parent an agent links n under, if any. *)
HasOwner(n) == \E e \in OwnershipEdges : e.child = n
OwnerOf(n) == (CHOOSE e \in OwnershipEdges : e.child = n).parent

(* n is in the graph and linked all the way up to a node without owner. *)
RECURSIVE Linked(_)
Linked(n) ==
    /\ n \in added
    /\ HasOwner(n) =>
         /\ [parent |-> OwnerOf(n), child |-> n, rel |-> "ownership"] \in edges
         /\ Linked(OwnerOf(n))

(* A host, or a fabric probe node, is named by its own ID. *)
NamedByID(n) ==
    \/ Meta[n].Type = "host"
    \/ Meta[n].Type \notin {"netns", "ovsport"} /\ Meta[n].Probe = "fabric"

(* The identity a netns or ovsport root is named by below its host. *)
RootKey == [netns |-> "Path", ovsport |-> "UUID"]

(* The TID of n as a function of its ownership chain: UUIDv5 is an       *)
(* injective function, <<prefix, part, type>>.                            *)
RECURSIVE Canon(_)
Canon(n) ==
    CASE NamedByID(n) -> n
      [] Meta[n].Type \in DOMAIN RootKey ->
           IF /\ HasOwner(n)
              /\ Meta[OwnerOf(n)].Type = "host"
              /\ Meta[n][RootKey[Meta[n].Type]] /= Absent
           THEN <<OwnerOf(n), Meta[n][RootKey[Meta[n].Type]], Meta[n].Type>>
           ELSE Absent
      [] HasOwner(n) /\ Canon(OwnerOf(n)) /= Absent
           /\ Meta[n].Name /= Absent /\ Meta[n].Type /= Absent ->
           <<Canon(OwnerOf(n)), Meta[n].Name, Meta[n].Type>>
      [] OTHER -> Absent

(* The TIDs allowed after a change of the graph. *)
TIDsAfterChange ==
    \A n \in Nodes :
        /\ n \notin added' => tid'[n] = Absent
        /\ Linked(n)' /\ Canon(n) /= Absent => tid'[n] = Canon(n)
        /\ Linked(n) /\ Linked(n)' => tid'[n] = tid[n]

Init ==
    /\ added = {}
    /\ edges = {}
    /\ tid = [n \in Nodes |-> Absent]

NodeAdded(n) ==
    /\ n \notin added
    /\ added' = added \cup {n}
    /\ edges' = edges

NodeUpdated ==
    UNCHANGED <<added, edges>>

EdgeAdded(e) ==
    /\ e \notin edges
    /\ {e.parent, e.child} \subseteq added
    /\ edges' = edges \cup {e}
    /\ added' = added

NodeDeleted(n) ==
    /\ n \in added
    /\ added' = added \ {n}
    /\ edges' = {e \in edges : n \notin {e.parent, e.child}}

Next ==
    /\ \/ \E n \in Nodes : NodeAdded(n) \/ NodeDeleted(n)
       \/ \E e \in Edges : EdgeAdded(e)
       \/ NodeUpdated
    /\ TIDsAfterChange

Spec == Init /\ [][Next]_vars
=============================================================================
