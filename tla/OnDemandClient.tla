--------------------------- MODULE OnDemandClient ---------------------------
(***************************************************************************)
(* The on-demand capture orchestrator of the analyzers                     *)
(* (src/flow/ondemand/client/client.go, OnDemandProbeClient).              *)
(*                                                                         *)
(* Every analyzer runs one OnDemandProbeClient.  It keeps a map of the     *)
(* captures it knows (o.captures), reacts to capture-registry watch events *)
(* (onAPIWatcherEvent) and to graph events (OnNodeAdded, OnNodeUpdated,    *)
(* OnEdgeAdded) and, when it is the elected master, resolves each         *)
(* capture's Gremlin query and starts one registerProbes goroutine per     *)
(* non-empty result.  A goroutine checks each resolved node's Capture/ID   *)
(* under the graph read lock, releases the lock and only then sends a      *)
(* CaptureStart to the node's host.  Agents answer by setting or removing  *)
(* Capture/ID on the node, which is a graph update seen by every analyzer. *)
(*                                                                         *)
(* Data is abstracted: a capture is a model value whose query selects the  *)
(* fixed node set QueryMatch[c]; the result order is the graph's node      *)
(* order (insertion order, the order the spec gives the graph store).      *)
(***************************************************************************)
EXTENDS Naturals, Sequences, FiniteSets, Bags, SequencesExt

CONSTANTS
    Analyzers,        \* analyzer processes, each running an OnDemandProbeClient
    Captures,         \* capture UUIDs
    Nodes,            \* graph node identifiers
    Hosts,            \* agent host names
    HostOf,           \* HostOf[n]: node.Host(), the agent owning node n
    QueryMatch,       \* QueryMatch[c]: the nodes capture c's GremlinQuery selects
    InitNodes,        \* the graph's nodes at start, in insertion order
    DeliveryOutcomes, \* the results SendWSMessageTo may return: {TRUE} or BOOLEAN
    NoCapture,        \* model value: no Capture/ID metadata on a node
    NoLeader,         \* model value: nobody holds the ondemand-client election key
    MaxGraphEvents,   \* bound on node additions and edge additions
    MaxCaptureUpdates,\* bound on registry "update" events
    MaxRestarts,      \* bound on analyzer process crashes
    MaxLeaderChanges  \* bound on lease losses and re-elections

ASSUME /\ HostOf \in [Nodes -> Hosts]
       /\ QueryMatch \in [Captures -> SUBSET Nodes]
       /\ InitNodes \in Seq(Nodes)
       /\ DeliveryOutcomes \subseteq BOOLEAN /\ TRUE \in DeliveryOutcomes
       /\ NoCapture \notin Captures /\ NoLeader \notin Analyzers

VARIABLES
    nodes,      \* the graph's nodes in insertion order (GetNodes order)
    captureOf,  \* captureOf[n]: the node's Capture/ID metadata
    registry,   \* the captures stored in etcd
    gone,       \* capture UUIDs deleted from etcd (a UUID is never reused)
    watchQ,     \* watchQ[a]: watch events not yet delivered to analyzer a
    captures,   \* captures[a]: the keys of analyzer a's o.captures map
    built,      \* analyzers whose NewOnDemandProbeClient ran but Start not yet
    up,         \* analyzers whose client is started (watching, listening)
    leader,     \* the holder of the election key (IsMaster() of that analyzer)
    tasks,      \* bag of running registerProbes goroutines
    wire,       \* wire[h]: the WebSocket messages on their way to agent h
    graphEvents, captureUpdates, restarts, leaderChanges

vars == <<nodes, captureOf, registry, gone, watchQ, captures, built, up, leader,
          tasks, wire, graphEvents, captureUpdates, restarts, leaderChanges>>

WatchEvent == [action : {"init", "create", "update", "delete"},
               capture : Captures]

\* A registerProbes goroutine: the capture it was started for, the resolved
\* nodes it has not finished with, and whether it is about to check the head
\* node's Capture/ID or to send it a CaptureStart.
Task == [owner : Analyzers, capture : Captures,
         todo : Seq(Nodes) \ {<<>>}, pc : {"check", "send"}]

\* CaptureStop carries an empty capture; "from" records the sending analyzer.
Message == [type : {"CaptureStart", "CaptureStop"}, node : Nodes,
            capture : Captures \cup {NoCapture}, from : Analyzers]

TypeOK ==
    /\ nodes \in Seq(Nodes)
    /\ captureOf \in [Nodes -> Captures \cup {NoCapture}]
    /\ registry \subseteq Captures /\ gone \subseteq Captures
    /\ watchQ \in [Analyzers -> Seq(WatchEvent)]
    /\ captures \in [Analyzers -> SUBSET Captures]
    /\ built \subseteq Analyzers /\ up \subseteq Analyzers /\ built \cap up = {}
    /\ leader \in Analyzers \cup {NoLeader}
    /\ IsABag(tasks) /\ BagToSet(tasks) \subseteq Task
    /\ wire \in [Hosts -> Seq(Message)]

-----------------------------------------------------------------------------
(* Helpers                                                                 *)

IsMaster(a) == leader = a

\* applyGremlinExpr: the query's result over a graph whose nodes are ns.
Resolve(ns, c) == SelectSeq(ns, LAMBDA n : n \in QueryMatch[c])

\* The goroutine registerProbes(res, capture) started for a non-empty result.
NewTask(a, c, res) == [owner |-> a, capture |-> c, todo |-> res, pc |-> "check"]

\* Mutant: the "len(res) > 0" guard dropped, a goroutine started on an
\* empty result.
onNodeEventNoLenCheck(ns) ==
    SetToBag(UNION { { NewTask(a, c, Resolve(ns, c)) : c \in captures[a] } :
                     a \in { a \in up : IsMaster(a) } })

\* Mutant: "len(res) > 1", an off-by-one that skips single-node results.
onNodeEventOffByOne(ns) ==
    SetToBag(UNION { { NewTask(a, c, Resolve(ns, c)) :
                         c \in { c \in captures[a] : Len(Resolve(ns, c)) > 1 } } :
                     a \in { a \in up : IsMaster(a) } })

\* onNodeEvent run by every analyzer's listener after a graph change that
\* leaves the graph's nodes at ns: a master starts one goroutine per known
\* capture whose query resolves to at least one node.
onNodeEvent(ns) ==
    SetToBag(UNION { { NewTask(a, c, Resolve(ns, c)) :
                         c \in { c \in captures[a] : Len(Resolve(ns, c)) > 0 } } :
                     a \in { a \in up : IsMaster(a) } })

\* The messages of ms whose SendWSMessageTo returned true (ok[i]), in order.
Delivered(ms, ok) ==
    LET kept == SelectSeq([i \in DOMAIN ms |-> i], LAMBDA i : ok[i])
    IN  [j \in DOMAIN kept |-> ms[kept[j]]]

\* Appends the delivered messages of ms to the wires of their hosts.
Send(w, ms, ok) ==
    [h \in Hosts |-> w[h] \o SelectSeq(Delivered(ms, ok),
                                        LAMBDA m : HostOf[m.node] = h)]

-----------------------------------------------------------------------------
(* The graph: additions made by agents and the analyzer's own graph        *)
(* server, dispatched synchronously to the listeners under the write lock. *)

\* A node appears: OnNodeAdded -> onNodeEvent.
AddNode(n) ==
    /\ graphEvents < MaxGraphEvents
    /\ n \notin ToSet(nodes)
    /\ nodes' = Append(nodes, n)
    /\ tasks' = tasks (+) onNodeEvent(nodes')
    /\ graphEvents' = graphEvents + 1
    /\ UNCHANGED <<captureOf, registry, gone, watchQ, captures, built, up, leader,
                   wire, captureUpdates, restarts, leaderChanges>>

\* An edge appears (or an unrelated metadata update): OnEdgeAdded -> onNodeEvent.
AddEdge ==
    /\ graphEvents < MaxGraphEvents
    /\ tasks' = tasks (+) onNodeEvent(nodes)
    /\ graphEvents' = graphEvents + 1
    /\ UNCHANGED <<nodes, captureOf, registry, gone, watchQ, captures, built, up,
                   leader, wire, captureUpdates, restarts, leaderChanges>>

-----------------------------------------------------------------------------
(* The capture registry (etcd) and its watcher, which delivers every       *)
(* change to every running analyzer in order.                              *)

Notify(action, c) ==
    [a \in Analyzers |->
        IF a \in up THEN Append(watchQ[a], [action |-> action, capture |-> c])
                    ELSE watchQ[a]]

CreateCapture(c) ==
    /\ c \notin registry \cup gone
    /\ registry' = registry \cup {c}
    /\ watchQ' = Notify("create", c)
    /\ UNCHANGED <<nodes, captureOf, gone, captures, built, up, leader, tasks, wire,
                   graphEvents, captureUpdates, restarts, leaderChanges>>

UpdateCapture(c) ==
    /\ c \in registry
    /\ captureUpdates < MaxCaptureUpdates
    /\ watchQ' = Notify("update", c)
    /\ captureUpdates' = captureUpdates + 1
    /\ UNCHANGED <<nodes, captureOf, registry, gone, captures, built, up, leader,
                   tasks, wire, graphEvents, restarts, leaderChanges>>

\* Deletion and TTL expiry reach the client the same way.
DeleteCapture(c) ==
    /\ c \in registry
    /\ registry' = registry \ {c}
    /\ gone' = gone \cup {c}
    /\ watchQ' = Notify("delete", c)
    /\ UNCHANGED <<nodes, captureOf, captures, built, up, leader, tasks, wire,
                   graphEvents, captureUpdates, restarts, leaderChanges>>

-----------------------------------------------------------------------------
(* onAPIWatcherEvent: the head watch event of a running analyzer.  The     *)
(* CaptureAdded/CaptureDeleted broadcasts to UI clients are not modelled.  *)

\* Mutant: onCaptureAdded starting registerProbes without "len(nodes) > 0".
onCaptureAddedNoLenCheck(a) ==
    LET ev  == Head(watchQ[a])
        res == Resolve(nodes, ev.capture)
    IN
    /\ a \in up /\ watchQ[a] # <<>>
    /\ ev.action \in {"init", "create", "update"}
    /\ IsMaster(a)
    /\ watchQ' = [watchQ EXCEPT ![a] = Tail(@)]
    /\ captures' = [captures EXCEPT ![a] = @ \cup {ev.capture}]
    /\ tasks' = tasks (+) SetToBag({NewTask(a, ev.capture, res)})
    /\ UNCHANGED <<nodes, captureOf, registry, gone, built, up, leader, wire,
                   graphEvents, captureUpdates, restarts, leaderChanges>>

\* "init", "create", "set", "update" -> onCaptureAdded as master: store the
\* capture and start registerProbes on a non-empty result.
onCaptureAdded(a) ==
    LET ev  == Head(watchQ[a])
        res == Resolve(nodes, ev.capture)
    IN
    /\ a \in up /\ watchQ[a] # <<>>
    /\ ev.action \in {"init", "create", "update"}
    /\ IsMaster(a)
    /\ watchQ' = [watchQ EXCEPT ![a] = Tail(@)]
    /\ captures' = [captures EXCEPT ![a] = @ \cup {ev.capture}]
    /\ tasks' = IF Len(res) > 0
                THEN tasks (+) SetToBag({NewTask(a, ev.capture, res)})
                ELSE tasks
    /\ UNCHANGED <<nodes, captureOf, registry, gone, built, up, leader, wire,
                   graphEvents, captureUpdates, restarts, leaderChanges>>

\* Mutant: onCaptureDeleted without "delete(o.captures, capture.UUID)".
onCaptureDeletedKeepsCapture(a) ==
    LET ev    == Head(watchQ[a])
        res   == Resolve(nodes, ev.capture)
        stops == [i \in DOMAIN res |-> [type |-> "CaptureStop", node |-> res[i],
                                        capture |-> NoCapture, from |-> a]]
    IN
    /\ a \in up /\ watchQ[a] # <<>>
    /\ ev.action = "delete"
    /\ IsMaster(a)
    /\ watchQ' = [watchQ EXCEPT ![a] = Tail(@)]
    /\ \E ok \in [DOMAIN stops -> DeliveryOutcomes] : wire' = Send(wire, stops, ok)
    /\ UNCHANGED <<nodes, captureOf, registry, gone, captures, built, up, leader, tasks,
                   graphEvents, captureUpdates, restarts, leaderChanges>>

\* "expire", "delete" -> onCaptureDeleted as master: forget the capture and,
\* holding the graph write lock, send CaptureStop to every resolved node.
onCaptureDeleted(a) ==
    LET ev    == Head(watchQ[a])
        res   == Resolve(nodes, ev.capture)
        stops == [i \in DOMAIN res |-> [type |-> "CaptureStop", node |-> res[i],
                                        capture |-> NoCapture, from |-> a]]
    IN
    /\ a \in up /\ watchQ[a] # <<>>
    /\ ev.action = "delete"
    /\ IsMaster(a)
    /\ watchQ' = [watchQ EXCEPT ![a] = Tail(@)]
    /\ captures' = [captures EXCEPT ![a] = @ \ {ev.capture}]
    /\ \E ok \in [DOMAIN stops -> DeliveryOutcomes] : wire' = Send(wire, stops, ok)
    /\ UNCHANGED <<nodes, captureOf, registry, gone, built, up, leader, tasks,
                   graphEvents, captureUpdates, restarts, leaderChanges>>

\* Both handlers return at once when IsMaster() is false: the event is
\* consumed and o.captures is left as it was.
onWatcherEventAsStandby(a) ==
    /\ a \in up /\ watchQ[a] # <<>>
    /\ ~IsMaster(a)
    /\ watchQ' = [watchQ EXCEPT ![a] = Tail(@)]
    /\ UNCHANGED <<nodes, captureOf, registry, gone, captures, built, up, leader,
                   tasks, wire, graphEvents, captureUpdates, restarts,
                   leaderChanges>>

-----------------------------------------------------------------------------
(* registerProbes goroutines.  The check of Capture/ID happens under the   *)
(* graph read lock; the send happens after the lock is released.           *)

\* Replaces goroutine t by its continuation (none when it is finished).
Continue(t, next) == (tasks (-) SetToBag({t})) (+) next

\* The head node already carries a Capture/ID: registerProbes returns,
\* abandoning the rest of the result.
registerProbesReturn(t) ==
    /\ t.pc = "check"
    /\ captureOf[Head(t.todo)] # NoCapture
    /\ tasks' = Continue(t, EmptyBag)
    /\ UNCHANGED <<nodes, captureOf, registry, gone, watchQ, captures, built, up,
                   leader, wire, graphEvents, captureUpdates, restarts,
                   leaderChanges>>

\* The head node carries no Capture/ID: read its ID and host, unlock.
registerProbesCheck(t) ==
    /\ t.pc = "check"
    /\ captureOf[Head(t.todo)] = NoCapture
    /\ tasks' = Continue(t, SetToBag({[t EXCEPT !.pc = "send"]}))
    /\ UNCHANGED <<nodes, captureOf, registry, gone, watchQ, captures, built, up,
                   leader, wire, graphEvents, captureUpdates, restarts,
                   leaderChanges>>

\* registerProbe: send CaptureStart to the node's host, whatever the
\* analyzer's mastership or the capture's existence is by now; a failed
\* send is only logged.  Then go on with the next resolved node.
registerProbe(t) ==
    LET start == [type |-> "CaptureStart", node |-> Head(t.todo),
                  capture |-> t.capture, from |-> t.owner]
        rest  == IF Len(t.todo) = 1 THEN EmptyBag
                 ELSE SetToBag({[t EXCEPT !.todo = Tail(@), !.pc = "check"]})
    IN
    /\ t.pc = "send"
    /\ \E ok \in DeliveryOutcomes : wire' = Send(wire, <<start>>, <<ok>>)
    /\ tasks' = Continue(t, rest)
    /\ UNCHANGED <<nodes, captureOf, registry, gone, watchQ, captures, built, up,
                   leader, graphEvents, captureUpdates, restarts, leaderChanges>>

TaskStep(t) == registerProbesReturn(t) \/ registerProbesCheck(t) \/ registerProbe(t)

-----------------------------------------------------------------------------
(* The agents (ondemand server, outside src/): a CaptureStart on a node    *)
(* without Capture/ID starts the probe and sets Capture/ID; a CaptureStop  *)
(* on a node with one stops it and removes it.  Both are graph updates,    *)
(* OnNodeUpdated -> onNodeEvent on every analyzer.  Other messages are     *)
(* dropped.                                                                *)

AgentStartCapture(h) ==
    LET m == Head(wire[h]) IN
    /\ wire[h] # <<>>
    /\ m.type = "CaptureStart" /\ captureOf[m.node] = NoCapture
    /\ captureOf' = [captureOf EXCEPT ![m.node] = m.capture]
    /\ wire' = [wire EXCEPT ![h] = Tail(@)]
    /\ tasks' = tasks (+) onNodeEvent(nodes)
    /\ UNCHANGED <<nodes, registry, gone, watchQ, captures, built, up, leader,
                   graphEvents, captureUpdates, restarts, leaderChanges>>

AgentStopCapture(h) ==
    LET m == Head(wire[h]) IN
    /\ wire[h] # <<>>
    /\ m.type = "CaptureStop" /\ captureOf[m.node] # NoCapture
    /\ captureOf' = [captureOf EXCEPT ![m.node] = NoCapture]
    /\ wire' = [wire EXCEPT ![h] = Tail(@)]
    /\ tasks' = tasks (+) onNodeEvent(nodes)
    /\ UNCHANGED <<nodes, registry, gone, watchQ, captures, built, up, leader,
                   graphEvents, captureUpdates, restarts, leaderChanges>>

AgentIgnore(h) ==
    LET m == Head(wire[h]) IN
    /\ wire[h] # <<>>
    /\ \/ m.type = "CaptureStart" /\ captureOf[m.node] # NoCapture
       \/ m.type = "CaptureStop" /\ captureOf[m.node] = NoCapture
    /\ wire' = [wire EXCEPT ![h] = Tail(@)]
    /\ UNCHANGED <<nodes, captureOf, registry, gone, watchQ, captures, built, up,
                   leader, tasks, graphEvents, captureUpdates, restarts,
                   leaderChanges>>

-----------------------------------------------------------------------------
(* Analyzer processes and the election (the etcd elector is outside src/). *)

\* The process exits: its goroutines and watch die with it and etcd
\* releases its election key.
Crash(a) ==
    /\ a \in up
    /\ restarts < MaxRestarts
    /\ up' = up \ {a}
    /\ leader' = IF leader = a THEN NoLeader ELSE leader
    /\ tasks' = [t \in {t \in BagToSet(tasks) : t.owner # a} |-> tasks[t]]
    /\ watchQ' = [watchQ EXCEPT ![a] = <<>>]
    /\ captures' = [captures EXCEPT ![a] = {}]
    /\ restarts' = restarts + 1
    /\ UNCHANGED <<nodes, captureOf, registry, gone, built, wire, graphEvents,
                   captureUpdates, leaderChanges>>

\* NewOnDemandProbeClient: o.captures is loaded from Index(), a snapshot
\* of the registry; nothing is watched yet.
NewOnDemandProbeClient(a) ==
    /\ a \notin up \cup built
    /\ built' = built \cup {a}
    /\ captures' = [captures EXCEPT ![a] = registry]
    /\ UNCHANGED <<nodes, captureOf, registry, gone, watchQ, up, leader, tasks,
                   wire, graphEvents, captureUpdates, restarts, leaderChanges>>

\* Mutant: AsyncWatch without the replay of the stored captures.
StartNoInitReplay(a) ==
    /\ a \in built
    /\ built' = built \ {a}
    /\ up' = up \cup {a}
    /\ leader' = IF leader = NoLeader THEN a ELSE leader
    /\ UNCHANGED <<nodes, captureOf, registry, gone, watchQ, captures, tasks,
                   wire, graphEvents, captureUpdates, restarts, leaderChanges>>

\* Start(): StartAndWait (master if the key is free), then AsyncWatch,
\* which replays the captures stored at that moment as "init" events,
\* then AddEventListener.  Changes made since Index() are not undone.
Start(a) ==
    /\ a \in built
    /\ built' = built \ {a}
    /\ up' = up \cup {a}
    /\ leader' = IF leader = NoLeader THEN a ELSE leader
    /\ \E order \in SetToSeqs(registry) :
          watchQ' = [watchQ EXCEPT ![a] =
                       [i \in DOMAIN order |-> [action |-> "init", capture |-> order[i]]]]
    /\ UNCHANGED <<nodes, captureOf, registry, gone, captures, tasks, wire,
                   graphEvents, captureUpdates, restarts, leaderChanges>>

\* The master's lease is lost (IsMaster() turns false at once).
LoseLeadership ==
    /\ leader # NoLeader
    /\ leaderChanges < MaxLeaderChanges
    /\ leader' = NoLeader
    /\ leaderChanges' = leaderChanges + 1
    /\ UNCHANGED <<nodes, captureOf, registry, gone, watchQ, captures, built, up,
                   tasks, wire, graphEvents, captureUpdates, restarts>>

\* A running analyzer's elector takes the free key.
Elect(a) ==
    /\ a \in up /\ leader = NoLeader
    /\ leaderChanges < MaxLeaderChanges
    /\ leader' = a
    /\ leaderChanges' = leaderChanges + 1
    /\ UNCHANGED <<nodes, captureOf, registry, gone, watchQ, captures, built, up,
                   tasks, wire, graphEvents, captureUpdates, restarts>>

-----------------------------------------------------------------------------

\* Every process was started, the first to run StartAndWait got the key.
Init ==
    /\ nodes = InitNodes
    /\ captureOf = [n \in Nodes |-> NoCapture]
    /\ registry = {} /\ gone = {}
    /\ watchQ = [a \in Analyzers |-> <<>>]
    /\ captures = [a \in Analyzers |-> {}]
    /\ built = {} /\ up = Analyzers
    /\ leader \in Analyzers
    /\ tasks = EmptyBag
    /\ wire = [h \in Hosts |-> <<>>]
    /\ graphEvents = 0 /\ captureUpdates = 0 /\ restarts = 0 /\ leaderChanges = 0

GraphStep     == (\E n \in Nodes : AddNode(n)) \/ AddEdge
RegistryStep  == \E c \in Captures : CreateCapture(c) \/ UpdateCapture(c) \/ DeleteCapture(c)
WatcherStep(a) == onCaptureAdded(a) \/ onCaptureDeleted(a) \/ onWatcherEventAsStandby(a)
GoroutineStep == \E t \in BagToSet(tasks) : TaskStep(t)
AgentStep(h)  == AgentStartCapture(h) \/ AgentStopCapture(h) \/ AgentIgnore(h)

\* Everything but a lease loss or re-election of a running process.
StableNext ==
    \/ GraphStep \/ RegistryStep \/ GoroutineStep
    \/ \E a \in Analyzers : WatcherStep(a) \/ Crash(a)
                            \/ NewOnDemandProbeClient(a) \/ Start(a)
    \/ \E h \in Hosts : AgentStep(h)

Next == StableNext \/ LoseLeadership \/ \E a \in Analyzers : Elect(a)

\* Goroutines, watch delivery and agents run whenever they can; a crashed
\* analyzer is restarted by its supervisor (the Kubernetes Deployment).
Fairness ==
    /\ WF_vars(GoroutineStep)
    /\ \A a \in Analyzers : WF_vars(WatcherStep(a))
                            /\ WF_vars(NewOnDemandProbeClient(a)) /\ WF_vars(Start(a))
    /\ \A h \in Hosts : WF_vars(AgentStep(h))

StableSpec == Init /\ [][StableNext]_vars /\ Fairness

Spec == Init /\ [][Next]_vars /\ Fairness /\ \A a \in Analyzers : WF_vars(Elect(a))

-----------------------------------------------------------------------------
(* Properties                                                              *)

\* Messages appended to agent h's wire by a step.
NewMessages(h) == { wire'[h][i] : i \in (Len(wire[h]) + 1)..Len(wire'[h]) }

\* The pending work of every analyzer and agent is done.
Quiescent ==
    /\ tasks = EmptyBag
    /\ \A h \in Hosts : wire[h] = <<>>
    /\ \A a \in up : watchQ[a] = <<>>

\* A master that has consumed all watch events knows exactly the captures
\* stored in etcd: onCaptureAdded and onCaptureDeleted keep o.captures in
\* step with the registry.
MasterMapTracksRegistry ==
    \A a \in up : IsMaster(a) /\ watchQ[a] = <<>> => captures[a] = registry

\* No stored capture is missed across a restart: a master that has consumed
\* all watch events knows every capture stored in etcd, including those
\* created after NewOnDemandProbeClient's Index() and before Start's
\* AsyncWatch (the watch's "init" replay has to cover that gap).  The
\* converse, no forgotten capture, does not hold: a capture deleted in the
\* gap stays in o.captures.
NoStoredCaptureMissed ==
    \A a \in up : IsMaster(a) /\ watchQ[a] = <<>> => registry \subseteq captures[a]

\* Reconciliation converges: once the environment is quiet, every node that
\* a stored capture's query resolves to carries a Capture/ID (section 4.E:
\* each resolved node without Capture/ID is sent a CaptureStart, and any
\* later graph event retries).
Converges ==
    <>[](\A c \in registry : \A n \in ToSet(Resolve(nodes, c)) :
            captureOf[n] # NoCapture)

\* At most one probe (section 8, item 6): registerProbe never sends a
\* CaptureStart for capture c to a node that already carries Capture/ID = c.
NoStartToBoundNode ==
    [][\A h \in Hosts : \A m \in NewMessages(h) :
          m.type = "CaptureStart" => captureOf[m.node] # m.capture]_vars

\* No leaked probe: when all goroutines, messages and watch events are
\* done, no node carries the Capture/ID of a capture that was deleted.
NoLeakedProbe ==
    Quiescent => \A n \in Nodes : captureOf[n] \in registry \cup {NoCapture}

=============================================================================
