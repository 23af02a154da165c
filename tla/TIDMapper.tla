----------------------------- MODULE TIDMapper -----------------------------
(***************************************************************************)
(* The TID mapper of src/topology/graph/traversal/traversal.go            *)
(* (lines 1219-1368): a graph listener that writes a `TID` metadata on    *)
(* every node, computed from the node's own identity for the roots (host, *)
(* netns, ovsport, fabric probes) and from its ownership parent's TID,    *)
(* Name and Type for the others.                                           *)
(*                                                                         *)
(* The graph calls its listeners synchronously, with its write lock held, *)
(* from the mutating call (spec 4.A).  Each action below is one graph     *)
(* mutation together with the whole listener call it triggers.  The       *)
(* mapper's own AddMetadata(child, "TID", ...) fires OnNodeUpdated(child) *)
(* again, re-entrantly; that nested onNodeEvent returns at once because   *)
(* the child now has a TID (line 1293), so it changes nothing.            *)
(*                                                                         *)
(* UUIDv5 over a concatenated string is modelled by what it does for the  *)
(* properties: an injective function of its three inputs, U5.             *)
(***************************************************************************)
EXTENDS Naturals, FiniteSets

CONSTANTS
    Nodes,      \* node IDs (model values)
    Meta,       \* Meta[n]: [Type, Name, Path, UUID, Probe]; missing keys are Absent
    Edges,      \* the edges agents may create: [parent, child, rel]
    Absent,     \* a metadata key that is not set (GetFieldString fails, "")
    NoHost,     \* the zero value of TIDMapper.hostID: the empty identifier
    TopDown,    \* TRUE: agents link a node only under a fully linked parent
    MaxDeletes  \* bound on node deletions (agent restarts)

VARIABLES
    added,      \* the nodes in the graph
    edges,      \* the edges in the graph
    tid,        \* tid[n]: the node's TID metadata, or Absent
    hostID,     \* TIDMapper.hostID
    deletes     \* number of deletions so far (bounded by MaxDeletes)

vars == <<added, edges, tid, hostID, deletes>>

(* uuid.NewV5(uuid.NamespaceOID, []byte(prefix + part + tp)) *)
U5(prefix, part, tp) == <<prefix, part, tp>>

setTID(t, parent, child) ==
    IF \/ Meta[child].Type = Absent
       \/ Meta[child].Name = Absent
       \/ t[parent] = Absent
    THEN t
    ELSE [t EXCEPT ![child] = U5(t[parent], Meta[child].Name, Meta[child].Type)]

(* LookupChildren(parent, {}, {"RelationType": "ownership"}) *)
OwnedChildren(p) == {e.child : e \in {x \in edges : x.rel = "ownership" /\ x.parent = p}}

(* LookupParents(n, {}, {"RelationType": "ownership"}) *)
OwnerParents(n) == {e.parent : e \in {x \in edges : x.rel = "ownership" /\ x.child = n}}

(***************************************************************************)
(* setChildrenTID(parent), lines 1282-1287: setTID on every ownership     *)
(* child.  Each child's TID reads only the parent's, so the loop's order  *)
(* does not matter.                                                        *)
(***************************************************************************)
setChildrenTID(t, p) ==
    [c \in Nodes |-> IF c \in OwnedChildren(p) THEN setTID(t, p, c)[c] ELSE t[c]]

(* A root assigns itself TID x and then sets its children's TIDs. *)
SetRootTID(n, x) == setChildrenTID([tid EXCEPT ![n] = x], n)

(* Mutant: the host is named after the cached hostID, read before it is *)
(* assigned.                                                              *)
HostTIDFromCache(n) == hostID

(* string(n.ID), the TID of a host (line 1298) *)
HostTID(n) == n

(* Lines 1293-1294: a node with a TID, or without a Type, is skipped. *)
SkipsNode(n) == tid[n] /= Absent \/ Meta[n].Type = Absent

(* The types with a case of their own in onNodeEvent's switch. *)
RootTypes == {"host", "netns", "ovsport"}

(***************************************************************************)
(* onNodeEvent(n), lines 1292-1331: the new [tid, hostID].  A node that   *)
(* has a TID, or no Type, is left alone.  netns and ovsport read the      *)
(* cached hostID, whichever host was seen last.                           *)
(***************************************************************************)
onNodeEvent(n) ==
    LET m == Meta[n]
        same == [tid |-> tid, hostID |-> hostID]
    IN  IF SkipsNode(n) THEN same
        ELSE CASE m.Type = "host" ->
                    [tid |-> SetRootTID(n, HostTID(n)), hostID |-> n]
               [] m.Type = "netns" ->
                    IF m.Path = Absent THEN same
                    ELSE [same EXCEPT !.tid = SetRootTID(n, U5(hostID, m.Path, "netns"))]
               [] m.Type = "ovsport" ->
                    IF m.UUID = Absent THEN same
                    ELSE [same EXCEPT !.tid = SetRootTID(n, U5(hostID, m.UUID, "ovsport"))]
               [] m.Type \notin RootTypes /\ m.Probe = "fabric" ->
                    [same EXCEPT !.tid = [tid EXCEPT ![n] = n]]
               [] m.Type \notin RootTypes /\ m.Probe /= "fabric"
                  /\ Cardinality(OwnerParents(n)) = 1 ->
                    [same EXCEPT !.tid = setTID(tid, CHOOSE p \in OwnerParents(n) : TRUE, n)]
               [] OTHER -> same   \* no parent, or several (logged)

(* onEdgeEvent(e), lines 1343-1354 *)
onEdgeEvent(e) ==
    IF e.rel /= "ownership" THEN tid ELSE setTID(tid, e.parent, e.child)

ApplyNodeEvent(n) ==
    LET r == onNodeEvent(n) IN tid' = r.tid /\ hostID' = r.hostID

-----------------------------------------------------------------------------
(* The agents' side: the order in which they create nodes and links.     *)

(* The abstract specification, on the same graph and TID variables. *)
Abs == INSTANCE TIDSpec WITH added <- added, edges <- edges, tid <- tid

(* Top-down creation: a node appears only under a linked parent. *)
MayCreateUnder(n) == TopDown => (Abs!HasOwner(n) => Abs!Linked(Abs!OwnerOf(n)))

-----------------------------------------------------------------------------
Init ==
    /\ added = {}
    /\ edges = {}
    /\ tid = [n \in Nodes |-> Absent]
    /\ hostID = NoHost
    /\ deletes = 0

(* Graph.AddNode, then OnNodeAdded (lines 1337-1339). *)
AddNode(n) ==
    /\ n \notin added
    /\ MayCreateUnder(n)
    /\ added' = added \cup {n}
    /\ ApplyNodeEvent(n)
    /\ UNCHANGED <<edges, deletes>>

(* Graph.AddMetadata by an agent on a key other than TID, then           *)
(* OnNodeUpdated (lines 1333-1335).                                       *)
UpdateNode(n) ==
    /\ n \in added
    /\ ApplyNodeEvent(n)
    /\ UNCHANGED <<added, edges, deletes>>

(* Graph.AddEdge, then OnEdgeAdded (lines 1360-1362). *)
AddEdge(e) ==
    /\ e \notin edges
    /\ {e.parent, e.child} \subseteq added
    /\ MayCreateUnder(e.child)
    /\ edges' = edges \cup {e}
    /\ tid' = onEdgeEvent(e)
    /\ UNCHANGED <<added, hostID, deletes>>

(* Graph.AddMetadata on an edge, then OnEdgeUpdated (lines 1356-1358). *)
UpdateEdge(e) ==
    /\ e \in edges
    /\ tid' = onEdgeEvent(e)
    /\ UNCHANGED <<added, edges, hostID, deletes>>

(* Graph.DelNode: the node and its edges go; the mapper has no           *)
(* OnNodeDeleted, so hostID keeps a deleted host.  A node added again    *)
(* comes with fresh metadata, without a TID.                             *)
DelNode(n) ==
    /\ n \in added
    /\ deletes < MaxDeletes
    /\ added' = added \ {n}
    /\ edges' = {e \in edges : n \notin {e.parent, e.child}}
    /\ tid' = [tid EXCEPT ![n] = Absent]
    /\ deletes' = deletes + 1
    /\ UNCHANGED hostID

Next ==
    \/ \E n \in Nodes : AddNode(n) \/ UpdateNode(n) \/ DelNode(n)
    \/ \E e \in Edges : AddEdge(e) \/ UpdateEdge(e)

Spec == Init /\ [][Next]_vars

-----------------------------------------------------------------------------
(* The values a TID can take: a node ID, or U5 over a TID or hostID. *)
RECURSIVE IsTID(_)
IsTID(x) ==
    \/ x \in Nodes
    \/ /\ x \notin {Absent, NoHost}
       /\ DOMAIN x = 1..3
       /\ x[1] = NoHost \/ IsTID(x[1])

(* Every TID metadata is a node ID or a UUIDv5; the cache is a node ID or empty. *)
TypeOK ==
    /\ added \subseteq Nodes
    /\ edges \subseteq Edges
    /\ \A n \in Nodes : tid[n] = Absent \/ IsTID(tid[n])
    /\ DOMAIN tid = Nodes
    /\ hostID \in Nodes \cup {NoHost}
    /\ deletes \in 0..MaxDeletes

TIDRefinesSpec == Abs!Spec
=============================================================================
