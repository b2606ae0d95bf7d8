---------------------------- MODULE Fleet_proofs ----------------------------
(***************************************************************************)
(* Proofs about Fleet, for any clusters, nodes, labels, metagraphs, cards, *)
(* pools, clocks, events and failed reads.                                 *)
(***************************************************************************)
EXTENDS Fleet, Readiness_proofs

ClusterRecords ==
    [id : Clusters, hotkey : Hotkeys \cup {NoLabel}, alias : Hotkeys \cup {NoLabel},
     banned : BOOLEAN, condition : {"up", "down"}, connected : BOOLEAN]

NodeRecords == [up : BOOLEAN, ready : BOOLEAN, beat : Int, schedulable : BOOLEAN]

\* The fleet has its types, and a node that Rancher hears has just sent a heartbeat.
WorldInv ==
    /\ now \in Int /\ StartTime <= now /\ now <= MaxTime
    /\ cluster \in [Clusters -> ClusterRecords]
    /\ \A c \in Clusters : cluster[c].id = c
    /\ node \in [NodeNames -> NodeRecords]
    /\ \A n \in NodeNames :
            /\ StartTime <= node[n].beat /\ node[n].beat <= now
            /\ Heard(n) => node[n].beat = now
    /\ IsFiniteSet(DOMAIN metagraph)

\* What Rancher showed of a node whose last heartbeat was then `beat`.
ShownAt(n, ready, beat, schedulable) ==
    LET hw == Hardware[n]
    IN  [conditions |->
            {[ready |-> ready, transition |-> NoTime,
              heartbeat |-> IF hw.heartbeats THEN beat + hw.skew ELSE NoTime],
             [ready |-> ready, heartbeat |-> NoTime,
              transition |-> IF hw.heartbeats THEN 0 ELSE NoTime]},
         roles |-> hw.roles, large |-> hw.large, klass |-> hw.klass, gpus |-> hw.gpus,
         passthrough |-> hw.passthrough, kata |-> hw.kata, tdx |-> hw.tdx,
         schedulable |-> schedulable]

\* A list of clusters is of the fleet as it was, and of an undisturbed cluster it
\* shows what is still so.
ClustersSeen ==
    /\ view.clusters \in [DOMAIN ClusterIds -> ClusterRecords]
    /\ \A i \in DOMAIN ClusterIds :
            /\ view.clusters[i].id = ClusterIds[i]
            /\ ClusterIds[i] \notin touched => view.clusters[i] = cluster[ClusterIds[i]]

\* What was seen of a node was so at some moment of this cycle: its heartbeat was
\* no younger than the last one since, and as young as the cycle if the node is
\* still heard.
NodeSeen(d, n) ==
    \E ready \in BOOLEAN, schedulable \in BOOLEAN, beat \in Int :
        /\ view.nodes[d][n] = ShownAt(n, ready, beat, schedulable)
        /\ StartTime <= beat /\ beat <= node[n].beat
        /\ d \notin touched => ready = node[n].ready /\ schedulable = node[n].schedulable
        /\ Heard(n) => view.since <= beat

NodesSeen ==
    /\ DOMAIN view.nodes \subseteq Clusters
    /\ \A d \in DOMAIN view.nodes :
            /\ DOMAIN view.nodes[d] = NodesOf(d)
            /\ \A n \in NodesOf(d) : NodeSeen(d, n)

ViewInv ==
    /\ pc \in {"idle", "clusters", "nodes"}
    /\ view = [since |-> view.since, uids |-> view.uids, clusters |-> view.clusters,
               nodes |-> view.nodes]
    /\ view.since \in Int /\ view.since <= now
    /\ IsFiniteSet(DOMAIN view.uids)
    /\ pc # "nodes" => view.nodes = <<>>
    /\ pc = "nodes" => ClustersSeen /\ NodesSeen

ResultInv ==
    /\ \A u \in DOMAIN result.weights : result.weights[u] \in 0..result.over
    /\ SplitIsFair

FleetInv == WorldInv /\ ViewInv /\ ResultInv

-----------------------------------------------------------------------------

LEMMA ShownIsShownAt ==
    ASSUME NEW n \in NodeNames
    PROVE  Shown(n) = ShownAt(n, node[n].ready, node[n].beat, node[n].schedulable)
BY DEF Shown, ShownAt

LEMMA ClusterOf ==
    /\ \A n \in NodeNames : Hardware[n].cluster \in Clusters
    /\ \A i \in DOMAIN ClusterIds : ClusterIds[i] \in Clusters
    /\ \A c \in Clusters : \E i \in DOMAIN ClusterIds : ClusterIds[i] = c
    /\ \A i, j \in DOMAIN ClusterIds : ClusterIds[i] = ClusterIds[j] => i = j
BY FleetAssumption DEF Clusters, Range, IsInjective

LEMMA InitInv == Init => FleetInv
<1> SUFFICES ASSUME Init PROVE FleetInv
  OBVIOUS
<1>1. WorldInv
  <2>1. now = StartTime /\ StartTime \in Int /\ StartTime <= now /\ now <= MaxTime
    BY FleetAssumption DEF Init
  <2>2. ASSUME NEW c \in Clusters
        PROVE  cluster[c] \in ClusterRecords /\ cluster[c].id = c
    <3>1. /\ Labels[c].hotkey \in Hotkeys \cup {NoLabel}
          /\ Labels[c].alias \in Hotkeys \cup {NoLabel}
      BY FleetAssumption
    <3>2. cluster[c] = [id |-> c, hotkey |-> Labels[c].hotkey, alias |-> Labels[c].alias,
                        banned |-> FALSE, condition |-> "up", connected |-> TRUE]
      BY DEF Init
    <3>3. QED
      BY <3>1, <3>2 DEF ClusterRecords
  <2>3. ASSUME NEW n \in NodeNames
        PROVE  node[n] \in NodeRecords /\ node[n].beat = StartTime
    BY <2>1 DEF Init, NodeRecords
  <2>4. cluster \in [Clusters -> ClusterRecords] /\ node \in [NodeNames -> NodeRecords]
    <3>1. cluster = [c \in Clusters |-> cluster[c]] /\ node = [n \in NodeNames |-> node[n]]
      BY DEF Init
    <3>2. QED
      BY <2>2, <2>3, <3>1
  <2>5. IsFiniteSet(DOMAIN metagraph)
    BY FleetAssumption DEF Init
  <2>6. QED
    BY <2>1, <2>2, <2>3, <2>4, <2>5 DEF WorldInv
<1>2. ViewInv
  <2>1. IsFiniteSet({}) /\ DOMAIN <<>> = {}
    BY FS_EmptySet
  <2>2. QED
    BY <1>1, <2>1, FleetAssumption DEF Init, ViewInv, WorldInv, NoView
<1>3. ResultInv
  <2>1. /\ result.weights = <<>> /\ result.over = 0 /\ DOMAIN <<>> = {}
    BY DEF Init, NoResult
  <2>2. Total(result.weights, {}) = 0
    BY TotalEmpty
  <2>3. QED
    BY <2>1, <2>2 DEF ResultInv, SplitIsFair
<1>4. QED
  BY <1>1, <1>2, <1>3 DEF FleetInv

-----------------------------------------------------------------------------
(* The fleet changes under a cycle's hands *)

\* What every step of the fleet leaves of a cycle.
WorldMoves ==
    /\ UNCHANGED <<pc, view, result>>
    /\ touched \subseteq touched'
    /\ \A c \in Clusters \ touched' : cluster'[c] = cluster[c]
    /\ \A n \in NodeNames :
            /\ Hardware[n].cluster \notin touched' =>
                    node'[n].ready = node[n].ready /\ node'[n].schedulable = node[n].schedulable
            /\ node[n].beat <= node'[n].beat
            /\ Heard(n)' => Heard(n)
    /\ now <= now'

LEMMA WorldMovesKeepView ==
    ASSUME ViewInv, WorldInv, WorldMoves, WorldInv'
    PROVE  ViewInv'
<1>1. /\ now \in Int /\ now' \in Int /\ now <= now'
      /\ \A n \in NodeNames : node[n].beat \in Int /\ node'[n].beat \in Int
                              /\ node[n].beat <= node'[n].beat
  BY DEF WorldMoves, WorldInv, NodeRecords
<1>2. ASSUME ClustersSeen PROVE ClustersSeen'
  BY <1>2, ClusterOf DEF ClustersSeen, WorldMoves
<1>3. ASSUME NodesSeen PROVE NodesSeen'
  <2>1. UNCHANGED view
    BY DEF WorldMoves
  <2>2. ASSUME NEW d \in DOMAIN view.nodes, NEW n \in NodesOf(d) PROVE NodeSeen(d, n)'
    <3>1. NodeSeen(d, n) /\ n \in NodeNames /\ Hardware[n].cluster = d
      BY <1>3, <2>2 DEF NodesSeen, NodesOf
    <3>2. PICK ready \in BOOLEAN, schedulable \in BOOLEAN, beat \in Int :
            /\ view.nodes[d][n] = ShownAt(n, ready, beat, schedulable)
            /\ StartTime <= beat /\ beat <= node[n].beat
            /\ d \notin touched => ready = node[n].ready /\ schedulable = node[n].schedulable
            /\ Heard(n) => view.since <= beat
      BY <3>1 DEF NodeSeen
    <3>3. beat <= node'[n].beat
      BY <1>1, <3>1, <3>2
    <3>4. d \notin touched' => ready = node'[n].ready /\ schedulable = node'[n].schedulable
      BY <3>1, <3>2 DEF WorldMoves
    <3>5. Heard(n)' => view.since <= beat
      BY <3>1, <3>2 DEF WorldMoves
    <3>6. QED
      BY <2>1, <3>2, <3>3, <3>4, <3>5 DEF NodeSeen
  <2>3. QED
    BY <1>3, <2>1, <2>2 DEF NodesSeen, NodesOf
<1>4. QED
  BY <1>1, <1>2, <1>3 DEF ViewInv, WorldMoves

\* Time passes.
LEMMA TickMoves == ASSUME WorldInv, Tick PROVE WorldInv' /\ WorldMoves
<1>1. /\ now \in Int /\ StartTime \in Int /\ MaxTime \in Int
      /\ now' = now + 1 /\ StartTime <= now' /\ now' <= MaxTime /\ now <= now'
  BY FleetAssumption DEF WorldInv, Tick
<1>2. UNCHANGED <<cluster, metagraph, pc, view, result, touched>>
  BY DEF Tick
<1>3. ASSUME NEW n \in NodeNames
      PROVE  /\ node'[n] \in NodeRecords /\ node'[n].up = node[n].up
             /\ node'[n].ready = node[n].ready
             /\ node'[n].schedulable = node[n].schedulable
             /\ node'[n].beat = IF Heard(n) THEN now' ELSE node[n].beat
  <2>1. node[n] \in NodeRecords
    BY DEF WorldInv
  <2>2. node'[n] = IF Heard(n) THEN [node[n] EXCEPT !.beat = now + 1] ELSE node[n]
    BY DEF Tick
  <2>3. CASE Heard(n)
    BY <1>1, <2>1, <2>2, <2>3 DEF NodeRecords
  <2>4. CASE ~Heard(n)
    BY <2>1, <2>2, <2>4
  <2>5. QED
    BY <2>3, <2>4
<1>4. node' \in [NodeNames -> NodeRecords]
  <2>1. node' = [n \in NodeNames |-> node'[n]]
    BY DEF Tick
  <2>2. QED
    BY <1>3, <2>1
<1>5. \A n \in NodeNames : Heard(n)' <=> Heard(n)
  BY <1>2, <1>3, ClusterOf DEF Heard
<1>6. ASSUME NEW n \in NodeNames
      PROVE  /\ node[n].beat <= node'[n].beat /\ StartTime <= node'[n].beat
             /\ node'[n].beat <= now'
             /\ Heard(n)' => node'[n].beat = now'
  <2>1. /\ node[n].beat \in Int /\ StartTime <= node[n].beat /\ node[n].beat <= now
    BY DEF WorldInv, NodeRecords
  <2>2. CASE Heard(n)
    BY <1>1, <1>3, <1>5, <2>1, <2>2
  <2>3. CASE ~Heard(n)
    BY <1>1, <1>3, <1>5, <2>1, <2>3
  <2>4. QED
    BY <2>2, <2>3
<1>7. WorldInv'
  BY <1>1, <1>2, <1>4, <1>6 DEF WorldInv
<1>8. WorldMoves
  BY <1>1, <1>2, <1>3, <1>5, <1>6 DEF WorldMoves
<1>9. QED
  BY <1>7, <1>8

\* A node changes, and no heartbeat is sent.
LEMMA NodeMoves ==
    ASSUME WorldInv, NEW n \in NodeNames, Hardware[n].cluster \in touched',
           touched \subseteq touched',
           UNCHANGED <<now, cluster, metagraph, pc, view, result>>,
           DOMAIN node' = NodeNames, node' = [m \in NodeNames |-> node'[m]],
           \A m \in NodeNames \ {n} : node'[m] = node[m],
           node'[n] \in NodeRecords, node'[n].beat = node[n].beat,
           node'[n].up => node[n].up
    PROVE  WorldInv' /\ WorldMoves
<1>1. now \in Int /\ \A m \in NodeNames : node[m] \in NodeRecords /\ node[m].beat \in Int
  BY DEF WorldInv, NodeRecords
<1>2. \A m \in NodeNames : node'[m] \in NodeRecords /\ node'[m].beat = node[m].beat
                           /\ (node'[m].up => node[m].up)
  BY <1>1
<1>3. \A m \in NodeNames : Heard(m)' => Heard(m)
  BY <1>2 DEF Heard
<1>4. node' \in [NodeNames -> NodeRecords]
  BY <1>2
<1>5. WorldInv'
  BY <1>2, <1>3, <1>4 DEF WorldInv
<1>6. \A m \in NodeNames : Hardware[m].cluster \notin touched' =>
            node'[m].ready = node[m].ready /\ node'[m].schedulable = node[m].schedulable
  OBVIOUS
<1>7. now <= now' /\ \A m \in NodeNames : node[m].beat <= node'[m].beat
  BY <1>1, <1>2
<1>8. WorldMoves
  BY <1>3, <1>6, <1>7 DEF WorldMoves
<1>9. QED
  BY <1>5, <1>8

LEMMA NodeEventMoves ==
    ASSUME WorldInv, NEW n \in NodeNames, NodeEvent(n)
    PROVE  WorldInv' /\ WorldMoves
<1>1. node[n] \in NodeRecords /\ node = [m \in NodeNames |-> node[m]]
  BY DEF WorldInv
<1>2. /\ Hardware[n].cluster \in touched' /\ touched \subseteq touched'
      /\ UNCHANGED <<now, cluster, metagraph, pc, view, result>>
  BY DEF NodeEvent, Event
<1>3. \/ node' = [node EXCEPT ![n].up = FALSE]
      \/ node' = [node EXCEPT ![n].ready = FALSE]
      \/ node' = [node EXCEPT ![n].schedulable = ~@]
  BY DEF NodeEvent
<1>4. /\ DOMAIN node' = NodeNames /\ node' = [m \in NodeNames |-> node'[m]]
      /\ \A m \in NodeNames \ {n} : node'[m] = node[m]
  BY <1>1, <1>3
<1>5. \/ node'[n] = [node[n] EXCEPT !.up = FALSE]
      \/ node'[n] = [node[n] EXCEPT !.ready = FALSE]
      \/ node'[n] = [node[n] EXCEPT !.schedulable = ~@]
  BY <1>1, <1>3
<1>6. /\ node'[n] \in NodeRecords /\ node'[n].beat = node[n].beat
      /\ node'[n].up => node[n].up
  BY <1>1, <1>5 DEF NodeRecords
<1>7. QED
  BY <1>2, <1>4, <1>6, NodeMoves

\* A cluster changes, and is no better connected than it was.
LEMMA ClusterMoves ==
    ASSUME WorldInv, NEW c \in Clusters, c \in touched', touched \subseteq touched',
           UNCHANGED <<now, node, metagraph, pc, view, result>>,
           cluster' = [d \in Clusters |-> cluster'[d]],
           \A d \in Clusters \ {c} : cluster'[d] = cluster[d],
           cluster'[c] \in ClusterRecords, cluster'[c].id = c,
           cluster'[c].connected => cluster[c].connected
    PROVE  WorldInv' /\ WorldMoves
<1>1. now \in Int /\ \A n \in NodeNames : node[n].beat \in Int
  BY DEF WorldInv, NodeRecords
<1>2. \A d \in Clusters : cluster'[d] \in ClusterRecords /\ cluster'[d].id = d
                          /\ (cluster'[d].connected => cluster[d].connected)
  BY DEF WorldInv
<1>3. \A n \in NodeNames : Heard(n)' => Heard(n)
  BY <1>2, ClusterOf DEF Heard
<1>4. cluster' \in [Clusters -> ClusterRecords]
  BY <1>2
<1>5. WorldInv'
  BY <1>2, <1>3, <1>4 DEF WorldInv
<1>6. \A d \in Clusters \ touched' : cluster'[d] = cluster[d]
  OBVIOUS
<1>7. now <= now' /\ \A n \in NodeNames : node[n].beat <= node'[n].beat
  BY <1>1
<1>8. WorldMoves
  BY <1>3, <1>6, <1>7 DEF WorldMoves
<1>9. QED
  BY <1>5, <1>8

LEMMA ClusterEventMoves ==
    ASSUME WorldInv, NEW c \in Clusters, ClusterEvent(c)
    PROVE  WorldInv' /\ WorldMoves
<1>1. cluster[c] \in ClusterRecords /\ cluster[c].id = c
      /\ cluster = [d \in Clusters |-> cluster[d]]
  BY DEF WorldInv
<1>2. /\ c \in touched' /\ touched \subseteq touched'
      /\ UNCHANGED <<now, node, metagraph, pc, view, result>>
  BY DEF ClusterEvent, Event
<1>3. \/ cluster' = [cluster EXCEPT ![c].connected = FALSE]
      \/ cluster' = [cluster EXCEPT ![c].condition = "down"]
      \/ cluster' = [cluster EXCEPT ![c].banned = ~@]
      \/ \E h \in Hotkeys \cup {NoLabel} : cluster' = [cluster EXCEPT ![c].hotkey = h]
  BY DEF ClusterEvent
<1>4. /\ cluster' = [d \in Clusters |-> cluster'[d]]
      /\ \A d \in Clusters \ {c} : cluster'[d] = cluster[d]
  BY <1>1, <1>3
<1>5. \/ cluster'[c] = [cluster[c] EXCEPT !.connected = FALSE]
      \/ cluster'[c] = [cluster[c] EXCEPT !.condition = "down"]
      \/ cluster'[c] = [cluster[c] EXCEPT !.banned = ~@]
      \/ \E h \in Hotkeys \cup {NoLabel} : cluster'[c] = [cluster[c] EXCEPT !.hotkey = h]
  BY <1>1, <1>3
<1>6. /\ cluster'[c] \in ClusterRecords /\ cluster'[c].id = c
      /\ cluster'[c].connected => cluster[c].connected
  BY <1>1, <1>5 DEF ClusterRecords
<1>7. QED
  BY <1>2, <1>4, <1>6, ClusterMoves

LEMMA RegisterMoves ==
    ASSUME WorldInv, NEW u \in DOMAIN metagraph, Register(u)
    PROVE  WorldInv' /\ WorldMoves
<1>1. /\ UNCHANGED <<now, cluster, node, pc, view, result>> /\ touched \subseteq touched'
      /\ DOMAIN metagraph' = DOMAIN metagraph
  BY DEF Register, Event
<1>2. now \in Int /\ \A n \in NodeNames : node[n].beat \in Int
  BY DEF WorldInv, NodeRecords
<1>3. \A n \in NodeNames : Heard(n)' <=> Heard(n)
  BY <1>1 DEF Heard
<1>4. WorldInv'
  BY <1>1, <1>3 DEF WorldInv
<1>5. now <= now' /\ \A n \in NodeNames : node[n].beat <= node'[n].beat
  BY <1>1, <1>2
<1>6. QED
  BY <1>1, <1>3, <1>4, <1>5 DEF WorldMoves

-----------------------------------------------------------------------------
(* What a miner's clusters and nodes are, when everything has been read *)

ReadAll == WorldInv /\ ViewInv /\ pc = "nodes" /\ DOMAIN view.nodes = Clusters

MinerNodes(hotkey) == NodesFor(hotkey, view.clusters, view.nodes)

Earnings(hotkey, tdx) ==
    UsdFromBreakdown(MinerGpus(hotkey, view.clusters, view.nodes, now, tdx), Card)

NodeValue(nodes) == [n \in DOMAIN nodes |-> Card[nodes[n].klass] * GpuCount(nodes[n])]

LEMMA IdsAreNumbered ==
    DOMAIN ClusterIds \in SUBSET Int /\ IsFiniteSet(DOMAIN ClusterIds)
<1>1. ClusterIds \in Seq(Clusters)
  BY FleetAssumption
<1>2. DOMAIN ClusterIds = 1..Len(ClusterIds) /\ Len(ClusterIds) \in Nat
  BY <1>1
<1>3. IsFiniteSet(1..Len(ClusterIds))
  BY <1>2, FS_Interval
<1>4. QED
  BY <1>2, <1>3

\* A miner's cluster is one of its clusters that were read, and its nodes are that
\* cluster's.
LEMMA MinersCluster ==
    ASSUME ReadAll, NEW hotkey, Bound(hotkey, view.clusters) # {}
    PROVE  \E i \in DOMAIN ClusterIds :
                /\ i = Min(Bound(hotkey, view.clusters))
                /\ HotkeyOf(view.clusters[i]) = hotkey
                /\ view.clusters[i] \in ViewOf(hotkey)
                /\ view.clusters[i].id = ClusterIds[i]
                /\ MinerNodes(hotkey) = view.nodes[ClusterIds[i]]
                /\ DOMAIN MinerNodes(hotkey) = NodesOf(ClusterIds[i])
                /\ \A n \in NodesOf(ClusterIds[i]) : NodeSeen(ClusterIds[i], n)
<1> DEFINE bound == Bound(hotkey, view.clusters)
           i     == Min(bound)
<1>1. ClustersSeen /\ NodesSeen
  BY DEF ReadAll, ViewInv
<1>2. DOMAIN view.clusters = DOMAIN ClusterIds
  BY <1>1 DEF ClustersSeen
<1>3. bound \in SUBSET DOMAIN ClusterIds /\ \A j \in bound : HotkeyOf(view.clusters[j]) = hotkey
  BY <1>2 DEF Bound
<1> HIDE DEF bound
<1>4. bound # {}
  BY DEF bound
<1>5. i \in bound
  <2>1. bound \in SUBSET Int /\ IsFiniteSet(bound)
    BY <1>3, IdsAreNumbered, FS_Subset
  <2>2. QED
    BY <1>4, <2>1, LeastOfFinite
<1>6. i \in DOMAIN ClusterIds /\ HotkeyOf(view.clusters[i]) = hotkey
  BY <1>3, <1>5
<1>7. i = Min(Bound(hotkey, view.clusters))
  BY DEF bound
<1> HIDE DEF i
<1>8. view.clusters[i].id = ClusterIds[i] /\ ClusterIds[i] \in DOMAIN view.nodes
  BY <1>1, <1>6, ClusterOf DEF ClustersSeen, ReadAll
<1>9. view.clusters[i] \in ViewOf(hotkey)
  BY <1>2, <1>6 DEF ViewOf, Range
<1>10. MinerNodes(hotkey) = view.nodes[ClusterIds[i]]
  BY <1>4, <1>7, <1>8 DEF MinerNodes, NodesFor, bound
<1>11. QED
  BY <1>1, <1>6, <1>7, <1>8, <1>9, <1>10 DEF NodesSeen

LEMMA ShownHardware ==
    ASSUME NEW n \in NodeNames, NEW ready, NEW beat, NEW schedulable,
           NEW seen, seen = ShownAt(n, ready, beat, schedulable)
    PROVE  /\ seen.klass = Hardware[n].klass
           /\ seen.gpus = Hardware[n].gpus /\ GpuCount(seen) = GpuCount(Hardware[n])
           /\ GpuCount(seen) \in Nat
           /\ seen.passthrough = Hardware[n].passthrough /\ seen.kata = Hardware[n].kata
           /\ seen.roles = Hardware[n].roles /\ seen.large = Hardware[n].large
           /\ seen.schedulable = schedulable
<1>1. Hardware[n].gpus \in Nat \cup {Missing}
  BY FleetAssumption
<1>2. QED
  BY <1>1 DEF ShownAt, GpuCount

LEMMA MinerNodesAreFinite ==
    ASSUME ReadAll, NEW hotkey
    PROVE  /\ IsFiniteSet(DOMAIN MinerNodes(hotkey))
           /\ \A n \in DOMAIN MinerNodes(hotkey) : GpuCount(MinerNodes(hotkey)[n]) \in Nat
<1>1. CASE Bound(hotkey, view.clusters) = {}
  <2>1. DOMAIN MinerNodes(hotkey) = {}
    BY <1>1 DEF MinerNodes, NodesFor
  <2>2. IsFiniteSet({})
    BY FS_EmptySet
  <2>3. QED
    BY <2>1, <2>2
<1>2. CASE Bound(hotkey, view.clusters) # {}
  <2>1. PICK i \in DOMAIN ClusterIds :
            /\ MinerNodes(hotkey) = view.nodes[ClusterIds[i]]
            /\ DOMAIN MinerNodes(hotkey) = NodesOf(ClusterIds[i])
            /\ \A n \in NodesOf(ClusterIds[i]) : NodeSeen(ClusterIds[i], n)
    BY <1>2, MinersCluster
  <2>2. NodesOf(ClusterIds[i]) \in SUBSET NodeNames /\ IsFiniteSet(NodeNames)
    BY FleetAssumption DEF NodesOf
  <2>3. IsFiniteSet(NodesOf(ClusterIds[i]))
    BY <2>2, FS_Subset
  <2>4. \A n \in NodesOf(ClusterIds[i]) : GpuCount(view.nodes[ClusterIds[i]][n]) \in Nat
    BY <2>1, <2>2, ShownHardware DEF NodeSeen
  <2>5. QED
    BY <2>1, <2>3, <2>4
<1>3. QED
  BY <1>1, <1>2

\* Earnings are a sum over the nodes that count.
LEMMA EarningsAre ==
    ASSUME ReadAll, NEW hotkey, NEW tdx
    PROVE  LET nodes   == MinerNodes(hotkey)
               counted == CountedNodes(nodes, now, tdx)
           IN  /\ Earnings(hotkey, tdx) = Total(NodeValue(nodes), counted)
               /\ IsFiniteSet(counted)
               /\ \A n \in counted : NodeValue(nodes)[n] \in Nat
               /\ Earnings(hotkey, tdx) \in Nat
               /\ Earnings(hotkey, tdx) > 0 => counted # {}
<1> DEFINE nodes   == MinerNodes(hotkey)
           counted == CountedNodes(nodes, now, tdx)
           w       == NodeValue(nodes)
<1>1. IsFiniteSet(DOMAIN nodes) /\ \A n \in DOMAIN nodes : GpuCount(nodes[n]) \in Nat
  BY MinerNodesAreFinite
<1>2. nodes = NodesFor(hotkey, view.clusters, view.nodes)
  BY DEF MinerNodes
<1>3. Card \in [GpuClasses -> Nat]
  BY FleetAssumption
<1> HIDE DEF nodes
<1>4. counted \in SUBSET DOMAIN nodes /\ \A n \in counted : nodes[n].klass \in GpuClasses
  BY DEF CountedNodes
<1>5. \A n \in counted : w[n] = Card[nodes[n].klass] * GpuCount(nodes[n])
  BY <1>4 DEF NodeValue
<1>6. Earnings(hotkey, tdx) = Total(w, counted)
  BY <1>1, <1>2, <1>3, <1>5, EarningsOf DEF Earnings
<1>7. IsFiniteSet(counted)
  BY <1>1, <1>4, FS_Subset
<1>8. \A n \in counted : w[n] \in Nat
  <2> SUFFICES ASSUME NEW n \in counted PROVE w[n] \in Nat
    OBVIOUS
  <2>1. Card[nodes[n].klass] \in Nat /\ GpuCount(nodes[n]) \in Nat
    BY <1>1, <1>3, <1>4
  <2>2. \A a, b \in Nat : a * b \in Nat
    OBVIOUS
  <2>3. QED
    BY <1>5, <2>1, <2>2
<1> HIDE DEF counted, w
<1>9. Total(w, counted) \in Nat
  BY <1>7, <1>8, TotalNatural
<1>10. counted = {} => Total(w, counted) = 0
  BY TotalEmpty
<1>11. QED
  BY <1>6, <1>7, <1>8, <1>9, <1>10 DEF nodes, counted, w

-----------------------------------------------------------------------------
(* The steps of a cycle *)

LEMMA WorldStays ==
    ASSUME WorldInv, UNCHANGED <<now, world>>
    PROVE  WorldInv' /\ \A n \in NodeNames : Heard(n)' <=> Heard(n)
BY DEF WorldInv, world, Heard

LEMMA ReadMetagraphKeepsInv == ASSUME FleetInv, ReadMetagraph PROVE FleetInv'
<1>1. WorldInv'
  BY WorldStays DEF FleetInv, ReadMetagraph
<1>2. /\ view' = [since |-> now, uids |-> metagraph, clusters |-> <<>>, nodes |-> <<>>]
      /\ pc' = "clusters" /\ UNCHANGED now /\ result' = NoResult
  BY DEF ReadMetagraph, NoView
<1>3. ViewInv'
  <2>1. now \in Int /\ IsFiniteSet(DOMAIN metagraph)
    BY DEF FleetInv, WorldInv
  <2>2. QED
    BY <1>2, <2>1 DEF ViewInv
<1>4. ResultInv'
  <2>1. result'.weights = <<>> /\ result'.over = 0 /\ DOMAIN <<>> = {}
    BY <1>2 DEF NoResult
  <2>2. Total(<<>>, {}) = 0
    BY TotalEmpty
  <2>3. QED
    BY <2>1, <2>2 DEF ResultInv, SplitIsFair
<1>5. QED
  BY <1>1, <1>3, <1>4 DEF FleetInv

LEMMA ListClustersKeepsInv == ASSUME FleetInv, ListClusters PROVE FleetInv'
<1>1. WorldInv' /\ WorldInv
  BY WorldStays DEF FleetInv, ListClusters
<1>2. /\ UNCHANGED <<now, cluster, node, touched, result>> /\ pc' = "nodes"
      /\ view.nodes = <<>> /\ IsFiniteSet(DOMAIN view.uids)
      /\ view.since \in Int /\ view.since <= now
      /\ view = [since |-> view.since, uids |-> view.uids, clusters |-> view.clusters,
                 nodes |-> view.nodes]
  BY DEF FleetInv, ViewInv, ListClusters, world
<1>3. view' = [since |-> view.since, uids |-> view.uids, nodes |-> view.nodes,
               clusters |-> [i \in DOMAIN ClusterIds |-> cluster[ClusterIds[i]]]]
  BY <1>2 DEF ListClusters
<1>4. ClustersSeen'
  <2>1. \A i \in DOMAIN ClusterIds :
            /\ cluster[ClusterIds[i]] \in ClusterRecords
            /\ cluster[ClusterIds[i]].id = ClusterIds[i]
    BY <1>1, ClusterOf DEF WorldInv
  <2>2. QED
    BY <1>2, <1>3, <2>1 DEF ClustersSeen
<1>5. NodesSeen'
  <2>1. DOMAIN view'.nodes = {}
    BY <1>2, <1>3
  <2>2. QED
    BY <2>1 DEF NodesSeen
<1>6. ViewInv'
  BY <1>2, <1>3, <1>4, <1>5 DEF ViewInv
<1>7. ResultInv'
  BY <1>2 DEF FleetInv, ResultInv, SplitIsFair
<1>8. QED
  BY <1>1, <1>6, <1>7 DEF FleetInv

LEMMA ListNodesKeepsInv == ASSUME FleetInv, ListNodes PROVE FleetInv'
<1> DEFINE next     == ClusterIds[Cardinality(DOMAIN view.nodes) + 1]
           nodes(c) == [n \in {m \in NodeNames : Hardware[m].cluster = c} |-> Shown(n)]
<1>1. WorldInv' /\ WorldInv /\ ResultInv /\ ViewInv /\ pc = "nodes"
  BY WorldStays DEF FleetInv, ListNodes
<1>2. /\ UNCHANGED <<now, cluster, node, touched, result, pc>>
      /\ ClustersSeen /\ NodesSeen
      /\ IsFiniteSet(DOMAIN view.uids) /\ view.since \in Int /\ view.since <= now
      /\ view = [since |-> view.since, uids |-> view.uids, clusters |-> view.clusters,
                 nodes |-> view.nodes]
  BY <1>1 DEF ViewInv, ListNodes, world
<1>3. view' = [since |-> view.since, uids |-> view.uids, clusters |-> view.clusters,
               nodes |-> [d \in DOMAIN view.nodes \cup {next} |->
                            IF d = next THEN nodes(next) ELSE view.nodes[d]]]
  BY <1>2 DEF ListNodes
<1>4. next \in Clusters
  <2>1. Cardinality(DOMAIN view.nodes) \in Nat
    <3>1. DOMAIN view.nodes \in SUBSET Clusters
      BY <1>2 DEF NodesSeen
    <3>2. IsFiniteSet(Clusters)
      <4> DEFINE f == [i \in DOMAIN ClusterIds |-> ClusterIds[i]]
      <4>1. f \in Surjection(DOMAIN ClusterIds, Clusters)
        BY ClusterOf DEF Surjection
      <4>2. QED
        BY <4>1, IdsAreNumbered, FS_Surjection
    <3>3. QED
      BY <3>1, <3>2, FS_Subset, FS_CardinalityType
  <2>2. Cardinality(DOMAIN view.nodes) < Len(ClusterIds)
    BY DEF ListNodes
  <2>3. ClusterIds \in Seq(Clusters)
    BY FleetAssumption
  <2> DEFINE k == Cardinality(DOMAIN view.nodes)
  <2> HIDE DEF k
  <2>4. k \in Nat /\ k < Len(ClusterIds)
    BY <2>1, <2>2 DEF k
  <2>5. k + 1 \in 1..Len(ClusterIds)
    BY <2>3, <2>4
  <2>6. ClusterIds[k + 1] \in Clusters
    BY <2>3, <2>5
  <2>7. QED
    BY <2>6 DEF k
<1> HIDE DEF next, nodes
<1>5. PICK c \in Clusters : c = next
  BY <1>4
<1>6. DOMAIN nodes(c) = NodesOf(c) /\ \A n \in NodesOf(c) : nodes(c)[n] = Shown(n)
  BY DEF nodes, NodesOf
<1>7. ClustersSeen'
  BY <1>2, <1>3 DEF ClustersSeen
<1>8. NodesSeen'
  <2>1. DOMAIN view'.nodes = DOMAIN view.nodes \cup {c} /\ view'.nodes[c] = nodes(c)
    BY <1>3, <1>5
  <2>2. \A d \in DOMAIN view.nodes : d # c => view'.nodes[d] = view.nodes[d]
    BY <1>3, <1>5
  <2>3. ASSUME NEW n \in NodesOf(c) PROVE NodeSeen(c, n)'
    <3>1. n \in NodeNames
      BY DEF NodesOf
    <3>2. /\ node[n].ready \in BOOLEAN /\ node[n].schedulable \in BOOLEAN
          /\ node[n].beat \in Int /\ StartTime <= node[n].beat
          /\ Heard(n) => node[n].beat = now
      BY <1>1, <3>1 DEF WorldInv, NodeRecords
    <3>3. view'.nodes[c][n] = ShownAt(n, node[n].ready, node[n].beat, node[n].schedulable)
      BY <1>6, <2>1, <3>1, ShownIsShownAt
    <3>4. Heard(n)' => view'.since <= node[n].beat
      BY <1>2, <1>3, <3>2 DEF Heard
    <3>5. node[n].beat <= node[n].beat
      BY <3>2
    <3>6. QED
      BY <1>2, <3>2, <3>3, <3>4, <3>5 DEF NodeSeen
  <2>4. ASSUME NEW d \in DOMAIN view.nodes, d # c, NEW n \in NodesOf(d)
        PROVE  NodeSeen(d, n)'
    <3>1. NodeSeen(d, n)
      BY <1>2, <2>4 DEF NodesSeen
    <3>2. /\ view'.nodes[d][n] = view.nodes[d][n] /\ view'.since = view.since
          /\ Heard(n)' <=> Heard(n)
      BY <1>2, <1>3, <2>2, <2>4 DEF Heard
    <3>3. QED
      BY <1>2, <3>1, <3>2 DEF NodeSeen
  <2>5. DOMAIN view'.nodes \subseteq Clusters
    BY <1>2, <1>4, <2>1 DEF NodesSeen
  <2>6. \A d \in DOMAIN view'.nodes : DOMAIN view'.nodes[d] = NodesOf(d)
    BY <1>2, <1>6, <2>1, <2>2 DEF NodesSeen
  <2>7. QED
    BY <2>1, <2>3, <2>4, <2>5, <2>6 DEF NodesSeen, NodesOf
<1>9. ViewInv'
  BY <1>1, <1>2, <1>3, <1>7, <1>8 DEF ViewInv
<1>10. ResultInv'
  BY <1>1, <1>2 DEF ResultInv, SplitIsFair
<1>11. QED
  BY <1>1, <1>9, <1>10 DEF FleetInv

LEMMA ReadFailsKeepsInv == ASSUME FleetInv, ReadFails PROVE FleetInv'
<1>1. WorldInv' /\ WorldInv
  BY WorldStays DEF FleetInv, ReadFails
<1>2. view' = NoView /\ pc' = "idle" /\ UNCHANGED <<now, result>>
  BY DEF ReadFails
<1>3. ViewInv'
  <2>1. IsFiniteSet({}) /\ DOMAIN <<>> = {}
    BY FS_EmptySet
  <2>2. 0 <= now /\ now \in Int
    BY <1>1, FleetAssumption DEF WorldInv
  <2>3. QED
    BY <1>2, <2>1, <2>2 DEF ViewInv, NoView
<1>4. ResultInv'
  BY <1>2 DEF FleetInv, ResultInv, SplitIsFair
<1>5. QED
  BY <1>1, <1>3, <1>4 DEF FleetInv

\* What a cycle computes, in terms of what each miner earned.
LEMMA ScoreComputes ==
    ASSUME FleetInv, Score
    PROVE  \E pool \in Nat \ {0}, usd \in [DOMAIN view.uids -> Nat] :
            /\ ReadAll /\ IsFiniteSet(DOMAIN view.uids) /\ DOMAIN view.uids # {}
            /\ \A u \in DOMAIN view.uids : usd[u] = MinerUsd(u)
            /\ result' = [weights |-> Split(usd, OwnerUid, pool, DOMAIN view.uids),
                          over |-> ComputeWeights(usd, OwnerUid, pool).over,
                          usd |-> usd, pool |-> pool]
<1> DEFINE uids == DOMAIN view.uids
           usd  == [u \in uids |-> MinerUsd(u)]
<1>1. ReadAll /\ IsFiniteSet(uids) /\ uids # {}
  BY DEF FleetInv, ViewInv, Score, ReadAll
<1>2. ASSUME NEW u \in uids PROVE MinerUsd(u) \in Nat
  <2>1. Earnings(view.uids[u], u = StagingUid) \in Nat
    BY <1>1, EarningsAre
  <2>2. MinerUsd(u) = IF MinerReady(u) THEN Earnings(view.uids[u], u = StagingUid) ELSE 0
    BY DEF MinerUsd, Earnings
  <2>3. QED
    BY <2>1, <2>2
<1>3. usd \in [uids -> Nat] /\ \A u \in uids : usd[u] = MinerUsd(u)
  BY <1>2
<1>4. PICK pool \in Pools :
        result' = [weights |-> PadToMetagraph(ComputeWeights(usd, OwnerUid, pool).weights, uids),
                   over |-> ComputeWeights(usd, OwnerUid, pool).over,
                   usd |-> usd, pool |-> pool]
  BY DEF Score
<1>5. pool \in Nat \ {0}
  BY FleetAssumption
<1> HIDE DEF usd
<1>6. QED
  BY <1>1, <1>3, <1>4, <1>5 DEF Split

LEMMA ScoreKeepsInv == ASSUME FleetInv, Score PROVE FleetInv'
<1>1. WorldInv' /\ WorldInv
  BY WorldStays DEF FleetInv, Score
<1>2. view' = NoView /\ pc' = "idle" /\ UNCHANGED now
  BY DEF Score
<1>3. ViewInv'
  <2>1. IsFiniteSet({}) /\ DOMAIN <<>> = {}
    BY FS_EmptySet
  <2>2. 0 <= now /\ now \in Int
    BY <1>1, FleetAssumption DEF WorldInv
  <2>3. QED
    BY <1>2, <2>1, <2>2 DEF ViewInv, NoView
<1>4. PICK pool \in Nat \ {0}, usd \in [DOMAIN view.uids -> Nat] :
        /\ IsFiniteSet(DOMAIN view.uids) /\ DOMAIN view.uids # {}
        /\ result' = [weights |-> Split(usd, OwnerUid, pool, DOMAIN view.uids),
                      over |-> ComputeWeights(usd, OwnerUid, pool).over,
                      usd |-> usd, pool |-> pool]
  BY ScoreComputes
<1> DEFINE uids == DOMAIN view.uids
           s    == Split(usd, OwnerUid, pool, uids)
           over == ComputeWeights(usd, OwnerUid, pool).over
<1>5. /\ Total(s, uids) = over
      /\ \A u \in uids : s[u] \in 0..over
      /\ Total(usd, uids) > 0 => \A u \in uids \ {OwnerUid} : s[u] = usd[u]
      /\ OwnerUid \in uids => \A u \in uids \ {OwnerUid} : s[u] = usd[u]
      /\ OwnerUid \in uids /\ 0 < Total(usd, uids) /\ Total(usd, uids) <= pool
            => over = pool
  BY <1>4, SplitAddsUp
<1>6. DOMAIN s = uids
  BY DEF Split, PadToMetagraph
<1>7. /\ Total(usd, uids) \in Nat
      /\ \A u \in uids : usd[u] \in Nat /\ usd[u] <= Total(usd, uids)
  BY <1>4, TotalNatural
<1>8. /\ result'.weights = s /\ result'.over = over /\ result'.usd = usd
      /\ result'.pool = pool
  BY <1>4
<1> HIDE DEF uids, s, over
<1>9. ASSUME NEW u \in uids \ {OwnerUid}, NEW v \in uids \ {OwnerUid},
             Total(usd, uids) > 0
      PROVE  s[u] * usd[v] = s[v] * usd[u]
  <2>1. s[u] = usd[u] /\ s[v] = usd[v] /\ usd[u] \in Int /\ usd[v] \in Int
    BY <1>5, <1>7, <1>9
  <2>2. \A a, b \in Int : a * b = b * a
    OBVIOUS
  <2>3. QED
    BY <2>1, <2>2
<1>10. ASSUME NEW u \in uids \ {OwnerUid}, OwnerUid \in uids, Total(usd, uids) <= pool
       PROVE  s[u] * pool = usd[u] * over
  <2>1. s[u] = usd[u] /\ usd[u] \in Nat
    BY <1>5, <1>7, <1>10
  <2>2. CASE Total(usd, uids) > 0
    <3>1. over = pool
      BY <1>5, <1>7, <1>10, <2>2
    <3>2. QED
      BY <2>1, <3>1
  <2>3. CASE ~(Total(usd, uids) > 0)
    <3>1. usd[u] = 0
      BY <1>7, <2>3
    <3>2. over \in Int /\ pool \in Int
      <4>1. s[u] \in 0..over
        BY <1>5
      <4>2. Total(s, uids) = over /\ \A v \in uids : s[v] \in Int
        BY <1>5
      <4>3. IsFiniteSet(uids)
        BY <1>4 DEF uids
      <4>4. Total(s, uids) \in Int
        BY <4>2, <4>3, TotalType
      <4>5. QED
        BY <4>2, <4>4
    <3>3. \A a \in Int : 0 * a = 0
      OBVIOUS
    <3>4. QED
      BY <2>1, <3>1, <3>2, <3>3
  <2>4. QED
    BY <2>2, <2>3
<1>11. SplitIsFair'
  BY <1>5, <1>6, <1>8, <1>9, <1>10 DEF SplitIsFair
<1>12. ResultInv'
  BY <1>5, <1>6, <1>8, <1>11 DEF ResultInv
<1>13. QED
  BY <1>1, <1>3, <1>12 DEF FleetInv

-----------------------------------------------------------------------------
(* The invariant *)

LEMMA WorldMovesKeepInv ==
    ASSUME FleetInv, WorldMoves, WorldInv' PROVE FleetInv'
<1>1. ViewInv'
  BY WorldMovesKeepView DEF FleetInv
<1>2. ResultInv'
  BY DEF FleetInv, WorldMoves, ResultInv, SplitIsFair
<1>3. QED
  BY <1>1, <1>2 DEF FleetInv

LEMMA NextKeepsInv == FleetInv /\ [Next]_vars => FleetInv'
<1> SUFFICES ASSUME FleetInv, [Next]_vars PROVE FleetInv'
  OBVIOUS
<1>1. CASE Tick
  BY <1>1, TickMoves, WorldMovesKeepInv DEF FleetInv
<1>2. CASE \E n \in NodeNames : NodeEvent(n)
  BY <1>2, NodeEventMoves, WorldMovesKeepInv DEF FleetInv
<1>3. CASE \E c \in Clusters : ClusterEvent(c)
  BY <1>3, ClusterEventMoves, WorldMovesKeepInv DEF FleetInv
<1>4. CASE \E u \in DOMAIN metagraph : Register(u)
  BY <1>4, RegisterMoves, WorldMovesKeepInv DEF FleetInv
<1>5. CASE ReadMetagraph
  BY <1>5, ReadMetagraphKeepsInv
<1>6. CASE ListClusters
  BY <1>6, ListClustersKeepsInv
<1>7. CASE ListNodes
  BY <1>7, ListNodesKeepsInv
<1>8. CASE ReadFails
  BY <1>8, ReadFailsKeepsInv
<1>9. CASE Score
  BY <1>9, ScoreKeepsInv
<1>10. CASE UNCHANGED vars
  <2>1. UNCHANGED <<now, world, pc, view, result, touched>>
    BY <1>10 DEF vars
  <2>2. WorldInv' /\ \A n \in NodeNames : Heard(n)' <=> Heard(n)
    BY <2>1, WorldStays DEF FleetInv
  <2>3. now <= now' /\ \A n \in NodeNames : node[n].beat <= node'[n].beat
    BY <2>1 DEF FleetInv, WorldInv, NodeRecords, world
  <2>4. WorldMoves
    BY <2>1, <2>2, <2>3 DEF WorldMoves, world
  <2>5. QED
    BY <2>2, <2>4, WorldMovesKeepInv
<1>11. QED
  BY <1>1, <1>2, <1>3, <1>4, <1>5, <1>6, <1>7, <1>8, <1>9, <1>10 DEF Next

LEMMA InvHolds == Spec => []FleetInv
BY InitInv, NextKeepsInv, PTL DEF Spec

\* The fleet, the views of it and the weights computed from them keep their types; a
\* view grows in the order of the reads.
THEOREM FleetTypes == Spec => []TypeOK
<1>1. FleetInv => TypeOK
  <2> SUFFICES ASSUME FleetInv PROVE TypeOK
    OBVIOUS
  <2>1. now \in StartTime..MaxTime
    BY FleetAssumption DEF FleetInv, WorldInv
  <2>2. \A n \in NodeNames : node[n].beat \in StartTime..now
    BY FleetAssumption DEF FleetInv, WorldInv, NodeRecords
  <2>3. \A c \in Clusters : cluster[c].condition \in {"up", "down"}
    BY DEF FleetInv, WorldInv, ClusterRecords
  <2>4. pc \in {"idle", "clusters", "nodes"}
    BY DEF FleetInv, ViewInv
  <2>5. pc = "nodes" => Len(view.clusters) = Len(ClusterIds)
    <3> SUFFICES ASSUME pc = "nodes" PROVE Len(view.clusters) = Len(ClusterIds)
      OBVIOUS
    <3>1. ClusterIds \in Seq(Clusters)
      BY FleetAssumption
    <3>2. /\ Len(ClusterIds) \in Nat
          /\ view.clusters \in [1..Len(ClusterIds) -> ClusterRecords]
      BY <3>1 DEF FleetInv, ViewInv, ClustersSeen
    <3>3. QED
      BY <3>2
  <2>6. view.nodes # <<>> => pc = "nodes"
    BY DEF FleetInv, ViewInv
  <2>7. DOMAIN view.nodes \subseteq Clusters
    <3>1. CASE pc = "nodes"
      BY <3>1 DEF FleetInv, ViewInv, NodesSeen
    <3>2. CASE pc # "nodes"
      <4>1. DOMAIN view.nodes = {}
        BY <3>2 DEF FleetInv, ViewInv
      <4>2. QED
        BY <4>1
    <3>3. QED
      BY <3>1, <3>2
  <2>8. QED
    BY <2>1, <2>2, <2>3, <2>4, <2>5, <2>6, <2>7 DEF TypeOK, FleetInv, ResultInv
<1>2. QED
  BY <1>1, InvHolds, PTL

\* The weights of a cycle add up to the whole and divide it as was earned, for any
\* number of miners, any earnings and any pool.
THEOREM EachItsShare == Spec => []SplitIsFair
<1>1. FleetInv => SplitIsFair
  BY DEF FleetInv, ResultInv
<1>2. QED
  BY <1>1, InvHolds, PTL

-----------------------------------------------------------------------------
(* What a cycle may pay for *)

LEMMA OnlyScoreScores == [Next]_vars /\ Scored => Score
<1> SUFFICES ASSUME [Next]_vars, Scored, ~Score PROVE FALSE
  OBVIOUS
<1>1. pc = "nodes" /\ result' # result
  BY DEF Scored
<1>2. ~ReadMetagraph /\ ~ListClusters
  BY <1>1 DEF ReadMetagraph, ListClusters
<1>3. \/ Tick
      \/ \E n \in NodeNames : NodeEvent(n)
      \/ \E c \in Clusters : ClusterEvent(c)
      \/ \E u \in DOMAIN metagraph : Register(u)
      \/ ListNodes \/ ReadFails \/ UNCHANGED vars
  BY <1>2 DEF Next
<1>4. UNCHANGED result
  BY <1>3 DEF Tick, NodeEvent, ClusterEvent, Register, Event, ListNodes, ReadFails, vars
<1>5. QED
  BY <1>1, <1>4

\* The stamps of a node that was shown: its last heartbeat by its own clock, and
\* its registration.
LEMMA ShownStamps ==
    ASSUME NEW n \in NodeNames, NEW ready, NEW beat \in Int, NEW schedulable,
           NEW seen, seen = ShownAt(n, ready, beat, schedulable)
    PROVE  /\ ReadyStamps(seen) \subseteq {beat + Hardware[n].skew, 0}
           /\ ReadyStamps(seen) # {} => Hardware[n].heartbeats
           /\ ready /\ Hardware[n].heartbeats /\ beat + Hardware[n].skew # NoTime =>
                    beat + Hardware[n].skew \in ReadyStamps(seen)
<1> DEFINE hw    == Hardware[n]
           stamp == beat + hw.skew
           fresh == [ready |-> ready, transition |-> NoTime,
                     heartbeat |-> IF hw.heartbeats THEN stamp ELSE NoTime]
           old   == [ready |-> ready, heartbeat |-> NoTime,
                     transition |-> IF hw.heartbeats THEN 0 ELSE NoTime]
<1>1. hw.heartbeats \in BOOLEAN
  BY FleetAssumption
<1>2. seen.conditions = {fresh, old}
  BY DEF ShownAt
<1> HIDE DEF stamp
<1>3. /\ hw.heartbeats => /\ ConditionTimestamp(fresh) = stamp
                          /\ ConditionTimestamp(old) = 0
      /\ ~hw.heartbeats => /\ ConditionTimestamp(fresh) = NoTime
                           /\ ConditionTimestamp(old) = NoTime
      /\ fresh.ready = ready
  BY DEF ConditionTimestamp
<1> HIDE DEF fresh, old, hw
<1>4. ReadyConditions(seen) \subseteq {fresh, old}
  BY <1>2 DEF ReadyConditions
<1>5. \A t \in ReadyStamps(seen) :
        t # NoTime /\ (t = ConditionTimestamp(fresh) \/ t = ConditionTimestamp(old))
  BY <1>4 DEF ReadyStamps
<1>6. ReadyStamps(seen) \subseteq {stamp, 0} /\ (ReadyStamps(seen) # {} => hw.heartbeats)
  BY <1>1, <1>3, <1>5
<1>7. ready /\ hw.heartbeats /\ stamp # NoTime => stamp \in ReadyStamps(seen)
  BY <1>2, <1>3 DEF ReadyStamps, ReadyConditions
<1>8. QED
  BY <1>6, <1>7 DEF stamp, hw

\* Long after the registration only the heartbeat can make a node look alive.
LEMMA ReadyMeansRecent ==
    ASSUME WorldInv, NEW n \in NodeNames, NEW ready, NEW beat \in Int, NEW schedulable,
           NEW seen, seen = ShownAt(n, ready, beat, schedulable)
    PROVE  /\ Ready(seen, now) => /\ Hardware[n].heartbeats
                                  /\ now - beat <= ReadyMaxAge + Hardware[n].skew
           /\ /\ ready /\ Hardware[n].heartbeats
              /\ beat + Hardware[n].skew # NoTime
              /\ now - beat <= ReadyMaxAge + Hardware[n].skew
              => Ready(seen, now)
<1> DEFINE stamp == beat + Hardware[n].skew
<1>1. Hardware[n].skew \in Int /\ StartTime \in Nat /\ StartTime > ReadyMaxAge
  BY FleetAssumption
<1>2. ReadyMaxAge \in Nat /\ now \in Int /\ StartTime <= now
  BY PolicyAssumption DEF WorldInv
<1>3. stamp \in Int /\ 0 \in Int
  BY <1>1
<1>4. /\ ReadyStamps(seen) \subseteq {stamp, 0}
      /\ ReadyStamps(seen) # {} => Hardware[n].heartbeats
      /\ ready /\ Hardware[n].heartbeats /\ stamp # NoTime => stamp \in ReadyStamps(seen)
  BY ShownStamps
<1>5. now - stamp <= ReadyMaxAge <=> now - beat <= ReadyMaxAge + Hardware[n].skew
  BY <1>1, <1>2
<1>6. ~(now - 0 <= ReadyMaxAge)
  BY <1>1, <1>2
<1> HIDE DEF stamp
<1>7. /\ Ready(seen, now) => \/ stamp \in ReadyStamps(seen) /\ now - stamp <= ReadyMaxAge
                             \/ 0 \in ReadyStamps(seen) /\ now - 0 <= ReadyMaxAge
      /\ stamp \in ReadyStamps(seen) /\ now - stamp <= ReadyMaxAge => Ready(seen, now)
  BY <1>2, <1>3, <1>4, ReadyByStamp
<1>8. QED
  BY <1>4, <1>5, <1>6, <1>7 DEF stamp

LEMMA PaidWereHeard ==
    ASSUME ReadAll, NEW u \in DOMAIN view.uids, MinerUsd(u) > 0
    PROVE  \E c \in ViewOf(view.uids[u]) : \E n \in NodesOf(c.id) :
                now - node[n].beat <= ReadyMaxAge + Hardware[n].skew
<1> DEFINE hotkey == view.uids[u]
           nodes  == MinerNodes(hotkey)
<1>1. PICK tdx \in BOOLEAN : Earnings(hotkey, tdx) > 0
  <2>1. MinerUsd(u) = IF MinerReady(u) THEN Earnings(hotkey, u = StagingUid) ELSE 0
    BY DEF MinerUsd, Earnings
  <2>2. Earnings(hotkey, u = StagingUid) > 0
    BY <2>1
  <2>3. (u = StagingUid) \in BOOLEAN
    OBVIOUS
  <2>4. QED
    BY <2>2, <2>3
<1>2. PICK n \in CountedNodes(nodes, now, tdx) : TRUE
  BY <1>1, EarningsAre
<1>3. n \in DOMAIN nodes /\ Ready(nodes[n], now)
  BY <1>2 DEF CountedNodes, Qualifies
<1>4. Bound(hotkey, view.clusters) # {}
  <2>1. SUFFICES ASSUME Bound(hotkey, view.clusters) = {} PROVE FALSE
    OBVIOUS
  <2>2. nodes = <<>>
    BY <2>1 DEF MinerNodes, NodesFor
  <2>3. QED
    BY <1>3, <2>2
<1>5. PICK i \in DOMAIN ClusterIds :
        /\ view.clusters[i] \in ViewOf(hotkey)
        /\ view.clusters[i].id = ClusterIds[i]
        /\ nodes = view.nodes[ClusterIds[i]]
        /\ DOMAIN nodes = NodesOf(ClusterIds[i])
        /\ \A m \in NodesOf(ClusterIds[i]) : NodeSeen(ClusterIds[i], m)
  BY <1>4, MinersCluster
<1> HIDE DEF nodes
<1>6. n \in NodesOf(ClusterIds[i]) /\ n \in NodeNames
  BY <1>3, <1>5 DEF NodesOf
<1>7. PICK ready \in BOOLEAN, schedulable \in BOOLEAN, beat \in Int :
        /\ nodes[n] = ShownAt(n, ready, beat, schedulable)
        /\ beat <= node[n].beat
  BY <1>5, <1>6 DEF NodeSeen
<1>8. now - beat <= ReadyMaxAge + Hardware[n].skew
  BY <1>3, <1>6, <1>7, ReadyMeansRecent DEF ReadAll
<1>9. now - node[n].beat <= ReadyMaxAge + Hardware[n].skew
  <2>1. /\ now \in Int /\ node[n].beat \in Int /\ Hardware[n].skew \in Int
        /\ ReadyMaxAge \in Int
    BY <1>6, FleetAssumption, PolicyAssumption DEF ReadAll, WorldInv, NodeRecords
  <2>2. QED
    BY <1>7, <1>8, <2>1
<1>10. QED
  BY <1>5, <1>6, <1>9

\* No miner, the owner's staging miner included, is credited for a cluster of which
\* no node was heard within the maximal age (by the node's clock) when the weights
\* are computed, for any fleet, clocks, events and times of the reads.
THEOREM TheDarkEarnNothing == Spec => DarkEarnNothing
<1> DEFINE Dark == Scored => \A u \in DOMAIN view.uids :
                        result'.usd[u] > 0 =>
                            \E c \in ViewOf(view.uids[u]) : \E n \in NodesOf(c.id) :
                                now - node[n].beat <= ReadyMaxAge + Hardware[n].skew
<1>1. FleetInv /\ [Next]_vars => [Dark]_vars
  <2> SUFFICES ASSUME FleetInv, [Next]_vars, Scored, NEW u \in DOMAIN view.uids,
                      result'.usd[u] > 0
               PROVE  \E c \in ViewOf(view.uids[u]) : \E n \in NodesOf(c.id) :
                                now - node[n].beat <= ReadyMaxAge + Hardware[n].skew
    OBVIOUS
  <2>1. Score
    BY OnlyScoreScores
  <2>2. ReadAll /\ result'.usd[u] = MinerUsd(u)
    BY <2>1, ScoreComputes
  <2>3. QED
    BY <2>2, PaidWereHeard
<1>2. QED
  BY <1>1, InvHolds, PTL DEF Spec, DarkEarnNothing

\* A cluster that was not touched is in the list, and is judged, as it is.
LEMMA UndisturbedIsSeen ==
    ASSUME ReadAll, NEW c \in Clusters \ touched,
           NEW u \in DOMAIN view.uids, HotkeyOf(cluster[c]) = view.uids[u]
    PROVE  \E i \in Bound(view.uids[u], MetagraphClusters) :
                /\ ClusterIds[i] = c /\ i \in DOMAIN ClusterIds
                /\ MetagraphClusters[i] = cluster[c]
<1>1. ClustersSeen
  BY DEF ReadAll, ViewInv
<1>2. PICK i \in DOMAIN ClusterIds : ClusterIds[i] = c
  BY ClusterOf
<1>3. i \in DOMAIN view.clusters /\ view.clusters[i] = cluster[c]
  BY <1>1, <1>2 DEF ClustersSeen
<1>4. HotkeyOf(view.clusters[i]) \in Range(view.uids)
  BY <1>3 DEF Range
<1>5. i \in DOMAIN MetagraphClusters /\ MetagraphClusters[i] = view.clusters[i]
  BY <1>3, <1>4 DEF MetagraphClusters, Restrict
<1>6. QED
  BY <1>2, <1>3, <1>5 DEF Bound

LEMMA UnfitAreNotReady ==
    ASSUME ReadAll, NEW c \in Clusters \ touched, Unfit(c),
           NEW u \in DOMAIN view.uids, HotkeyOf(cluster[c]) = view.uids[u]
    PROVE  ~ValidateMiner(view.uids[u], MetagraphClusters, view.nodes, now)
<1> DEFINE bound == Bound(view.uids[u], MetagraphClusters)
<1>1. SUFFICES ASSUME NEW j \in DOMAIN MetagraphClusters, bound = {j},
                      ~MetagraphClusters[j].banned, ClusterHealthy(MetagraphClusters[j])
               PROVE  FALSE
  BY DEF ValidateMiner
<1>2. PICK i \in bound : ClusterIds[i] = c /\ MetagraphClusters[i] = cluster[c]
  BY UndisturbedIsSeen
<1> HIDE DEF bound
<1>3. i = j
  BY <1>1, <1>2
<1>4. ~cluster[c].banned /\ cluster[c].condition # "down"
  BY <1>1, <1>2, <1>3 DEF ClusterHealthy
<1>5. PICK d \in Clusters \ ({c} \cup touched) : HotkeyOf(cluster[d]) = HotkeyOf(cluster[c])
  BY <1>4 DEF Unfit
<1>6. PICK k \in bound : ClusterIds[k] = d
  BY <1>5, UndisturbedIsSeen DEF bound
<1>7. k = i
  BY <1>1, <1>2, <1>6
<1>8. QED
  BY <1>2, <1>5, <1>6, <1>7

\* A miner whose cluster stayed banned, reported down or one of several during the
\* cycle gets no weight, for any fleet and whatever happens to other clusters; but an
\* epoch in which nobody earned, without the owner, is split among all.
THEOREM TheUnfitEarnNothing == Spec => UnfitEarnNothing
<1> DEFINE Nothing(u) == \/ result'.weights[u] = 0
                         \/ OwnerUid \notin DOMAIN view.uids
                            /\ \A v \in DOMAIN view.uids : result'.usd[v] = 0
           Honest == Scored => \A u \in DOMAIN view.uids \ {StagingUid, OwnerUid},
                                 c \in Clusters \ touched :
                        HotkeyOf(cluster[c]) = view.uids[u] /\ Unfit(c) => Nothing(u)
<1>1. FleetInv /\ [Next]_vars => [Honest]_vars
  <2> SUFFICES ASSUME FleetInv, [Next]_vars, Scored,
                      NEW u \in DOMAIN view.uids \ {StagingUid, OwnerUid},
                      NEW c \in Clusters \ touched,
                      HotkeyOf(cluster[c]) = view.uids[u], Unfit(c)
               PROVE  Nothing(u)
    OBVIOUS
  <2>1. Score
    BY OnlyScoreScores
  <2> DEFINE uids == DOMAIN view.uids
  <2>2. PICK pool \in Nat \ {0}, usd \in [uids -> Nat] :
            /\ ReadAll /\ IsFiniteSet(uids) /\ uids # {}
            /\ \A v \in uids : usd[v] = MinerUsd(v)
            /\ result' = [weights |-> Split(usd, OwnerUid, pool, uids),
                          over |-> ComputeWeights(usd, OwnerUid, pool).over,
                          usd |-> usd, pool |-> pool]
    BY <2>1, ScoreComputes
  <2>3. ~MinerReady(u)
    BY <2>2, UnfitAreNotReady DEF MinerReady
  <2>4. usd[u] = 0
    BY <2>2, <2>3 DEF MinerUsd
  <2> DEFINE s == Split(usd, OwnerUid, pool, uids)
  <2>5. /\ Total(usd, uids) > 0 => \A v \in uids \ {OwnerUid} : s[v] = usd[v]
        /\ OwnerUid \in uids => \A v \in uids \ {OwnerUid} : s[v] = usd[v]
    BY <2>2, SplitAddsUp
  <2>6. Total(usd, uids) \in Nat /\ \A v \in uids : usd[v] \in Nat /\ usd[v] <= Total(usd, uids)
    BY <2>2, TotalNatural
  <2>7. result'.weights = s /\ result'.usd = usd
    BY <2>2
  <2> HIDE DEF s
  <2>8. CASE OwnerUid \in uids \/ Total(usd, uids) > 0
    BY <2>4, <2>5, <2>7, <2>8
  <2>9. CASE OwnerUid \notin uids /\ ~(Total(usd, uids) > 0)
    BY <2>6, <2>7, <2>9
  <2>10. QED
    BY <2>8, <2>9
<1>2. QED
  BY <1>1, InvHolds, PTL DEF Spec, UnfitEarnNothing

-----------------------------------------------------------------------------
(* What a cycle has to pay for *)

\* A healthy cluster's nodes were seen as they are, with a heartbeat of this cycle.
LEMMA HealthyIsSeen ==
    ASSUME ReadAll, NEW c \in Clusters, Healthy(c), NEW n \in NodesOf(c)
    PROVE  /\ DOMAIN view.nodes[c] = NodesOf(c)
           /\ \E beat \in Int : /\ view.nodes[c][n] = ShownAt(n, TRUE, beat, TRUE)
                                /\ view.since <= beat
<1>1. NodesSeen /\ c \in DOMAIN view.nodes
  BY DEF ReadAll, ViewInv
<1>2. n \in NodeNames /\ Hardware[n].cluster = c
  BY DEF NodesOf
<1>3. PICK ready \in BOOLEAN, schedulable \in BOOLEAN, beat \in Int :
        /\ view.nodes[c][n] = ShownAt(n, ready, beat, schedulable)
        /\ c \notin touched => ready = node[n].ready /\ schedulable = node[n].schedulable
        /\ Heard(n) => view.since <= beat
  BY <1>1 DEF NodesSeen, NodeSeen
<1>4. c \notin touched /\ Heard(n) /\ node[n].ready /\ node[n].schedulable
  BY <1>2 DEF Healthy, Heard
<1>5. ready = TRUE /\ schedulable = TRUE
  BY <1>3, <1>4
<1>6. QED
  BY <1>1, <1>3, <1>4, <1>5 DEF NodesSeen

LEMMA ShownHealthy ==
    ASSUME NEW n \in NodeNames, NEW beat
    PROVE  LET seen == ShownAt(n, TRUE, beat, TRUE) IN
           /\ seen.klass = Hardware[n].klass
           /\ GpuCount(seen) = GpuCount(Hardware[n]) /\ GpuCount(seen) \in Nat
           /\ seen.passthrough = Hardware[n].passthrough /\ seen.kata = Hardware[n].kata
           /\ seen.roles = Hardware[n].roles /\ seen.large = Hardware[n].large
           /\ seen.schedulable
<1>1. Hardware[n].gpus \in Nat \cup {Missing}
  BY FleetAssumption
<1>2. QED
  BY <1>1 DEF ShownAt, GpuCount

\* In a cycle that is not too slow for its clocks such a node is ready, if it
\* sends heartbeats at all.
Timely(c) == now - view.since + Lag(c) <= ReadyMaxAge

LEMMA TimelyIsReady ==
    ASSUME ReadAll, NEW c \in Clusters, Healthy(c), Timely(c), NEW n \in NodesOf(c),
           Hardware[n].heartbeats
    PROVE  Ready(view.nodes[c][n], now)
<1> DEFINE skews == {0} \cup {Hardware[m].skew : m \in NodesOf(c)}
           least == Min(skews)
           skew  == Hardware[n].skew
<1>1. PICK beat \in Int : /\ view.nodes[c][n] = ShownAt(n, TRUE, beat, TRUE)
                          /\ view.since <= beat
  BY HealthyIsSeen
<1>2. skews \in SUBSET Int /\ skews # {} /\ skew \in skews
  BY FleetAssumption DEF NodesOf
<1>3. IsFiniteSet(skews)
  <2> DEFINE names == NodesOf(c)
             image == {Hardware[m].skew : m \in names}
             f     == [m \in names |-> Hardware[m].skew]
  <2>1. IsFiniteSet(names)
    BY FS_Subset, FleetAssumption DEF NodesOf
  <2> HIDE DEF names
  <2>2. f \in Surjection(names, image)
    BY DEF Surjection
  <2>3. IsFiniteSet(image)
    BY <2>1, <2>2, FS_Surjection
  <2>4. IsFiniteSet({0})
    BY FS_Singleton
  <2>5. skews = {0} \cup image
    BY DEF names
  <2>6. QED
    BY <2>3, <2>4, <2>5, FS_Union
<1>4. now - view.since + (-least) <= ReadyMaxAge
  BY DEF Timely, Lag
<1> HIDE DEF skews
<1>5. least \in Int /\ least <= skew /\ skew \in Int
  BY <1>2, <1>3, LeastOfFinite
<1> HIDE DEF least, skew
<1>6. /\ now \in Int /\ view.since \in Int /\ ReadyMaxAge \in Nat
      /\ StartTime \in Nat /\ StartTime <= now /\ StartTime > ReadyMaxAge
  BY FleetAssumption, PolicyAssumption DEF ReadAll, WorldInv, ViewInv
<1>7. now - beat <= ReadyMaxAge + skew
  BY <1>1, <1>4, <1>5, <1>6
<1>8. beat + skew # NoTime
  BY <1>5, <1>6, <1>7 DEF NoTime
<1>9. n \in NodeNames
  BY DEF NodesOf
<1>10. QED
  BY <1>1, <1>7, <1>8, <1>9, ReadyMeansRecent DEF ReadAll, skew

\* A miner with one cluster is judged by that cluster's nodes.
LEMMA OnlyCluster ==
    ASSUME ReadAll, NEW c \in Clusters, c \notin touched, NEW u \in DOMAIN view.uids,
           ViewOf(view.uids[u]) = {cluster[c]}
    PROVE  /\ MinerNodes(view.uids[u]) = view.nodes[c]
           /\ \E i \in DOMAIN MetagraphClusters :
                    /\ Bound(view.uids[u], MetagraphClusters) = {i}
                    /\ MetagraphClusters[i] = cluster[c]
<1> DEFINE hotkey == view.uids[u]
<1>1. ClustersSeen /\ cluster[c].id = c
  BY DEF ReadAll, ViewInv, WorldInv
<1>2. DOMAIN view.clusters = DOMAIN ClusterIds
  BY <1>1 DEF ClustersSeen
<1>3. HotkeyOf(cluster[c]) = hotkey
  BY DEF ViewOf
<1>4. PICK i \in Bound(hotkey, MetagraphClusters) :
        ClusterIds[i] = c /\ i \in DOMAIN ClusterIds /\ MetagraphClusters[i] = cluster[c]
  BY <1>3, UndisturbedIsSeen
<1>5. view.clusters[i] = cluster[c]
  BY <1>1, <1>4 DEF ClustersSeen
<1>6. Bound(hotkey, view.clusters) # {}
  BY <1>2, <1>3, <1>4, <1>5 DEF Bound
<1>7. PICK k \in DOMAIN ClusterIds :
        /\ view.clusters[k] \in ViewOf(hotkey)
        /\ view.clusters[k].id = ClusterIds[k]
        /\ MinerNodes(hotkey) = view.nodes[ClusterIds[k]]
  BY <1>6, MinersCluster
<1>8. ClusterIds[k] = c
  BY <1>1, <1>7
<1>9. ASSUME NEW j \in Bound(hotkey, MetagraphClusters) PROVE j = i
  <2>1. j \in DOMAIN view.clusters /\ HotkeyOf(view.clusters[j]) = hotkey
    BY <1>9 DEF Bound, MetagraphClusters, Restrict
  <2>2. view.clusters[j] \in ViewOf(hotkey)
    BY <2>1 DEF ViewOf, Range
  <2>3. view.clusters[j].id = c
    BY <1>1, <2>2
  <2>4. j \in DOMAIN ClusterIds /\ ClusterIds[j] = c
    BY <1>1, <1>2, <2>1, <2>3 DEF ClustersSeen
  <2>5. QED
    BY <1>4, <2>4, ClusterOf
<1>10. Bound(hotkey, MetagraphClusters) = {i}
  BY <1>4, <1>9
<1>11. i \in DOMAIN MetagraphClusters
  BY <1>4 DEF Bound
<1>12. QED
  BY <1>4, <1>7, <1>8, <1>10, <1>11

\* Its verdict is good when the hardware is fit and the cycle timely.
LEMMA FitIsReady ==
    ASSUME ReadAll, NEW c \in Clusters, Healthy(c), Fit(c), Timely(c),
           NEW u \in DOMAIN view.uids, ViewOf(view.uids[u]) = {cluster[c]}
    PROVE  ValidateMiner(view.uids[u], MetagraphClusters, view.nodes, now)
<1> DEFINE nodes  == view.nodes[c]
           active == Active(nodes, now)
           alive  == {n \in NodesOf(c) : Hardware[n].heartbeats}
<1>1. c \notin touched /\ ~cluster[c].banned /\ ClusterHealthy(cluster[c])
      /\ cluster[c].id = c
  BY DEF Healthy, ClusterHealthy, ReadAll, WorldInv
<1>2. PICK i \in DOMAIN MetagraphClusters :
        Bound(view.uids[u], MetagraphClusters) = {i} /\ MetagraphClusters[i] = cluster[c]
  BY <1>1, OnlyCluster
<1>3. ASSUME NEW n \in NodesOf(c)
      PROVE  /\ n \in DOMAIN nodes
             /\ Ready(nodes[n], now) <=> Hardware[n].heartbeats
             /\ nodes[n].schedulable
             /\ nodes[n].large = Hardware[n].large /\ nodes[n].roles = Hardware[n].roles
             /\ nodes[n].klass = Hardware[n].klass
             /\ Confidential(nodes[n]) <=> Confidential(Hardware[n])
  <2>1. n \in NodeNames
    BY DEF NodesOf
  <2>2. PICK beat \in Int : nodes[n] = ShownAt(n, TRUE, beat, TRUE)
    BY HealthyIsSeen
  <2>3. Ready(nodes[n], now) => Hardware[n].heartbeats
    BY <2>1, <2>2, ReadyMeansRecent DEF ReadAll
  <2>4. Hardware[n].heartbeats => Ready(nodes[n], now)
    BY TimelyIsReady
  <2>5. n \in DOMAIN nodes
    BY HealthyIsSeen
  <2> HIDE DEF nodes
  <2>6. /\ nodes[n].klass = Hardware[n].klass
        /\ nodes[n].passthrough = Hardware[n].passthrough /\ nodes[n].kata = Hardware[n].kata
        /\ nodes[n].roles = Hardware[n].roles /\ nodes[n].large = Hardware[n].large
        /\ nodes[n].schedulable
    <3> DEFINE seen == ShownAt(n, TRUE, beat, TRUE)
    <3>1. /\ seen.klass = Hardware[n].klass
          /\ seen.passthrough = Hardware[n].passthrough /\ seen.kata = Hardware[n].kata
          /\ seen.roles = Hardware[n].roles /\ seen.large = Hardware[n].large
          /\ seen.schedulable
      BY <2>1, ShownHealthy
    <3>2. nodes[n] = seen
      BY <2>2
    <3> HIDE DEF seen
    <3>3. QED
      BY <3>1, <3>2
  <2>7. Confidential(nodes[n]) <=> Confidential(Hardware[n])
    BY <2>6 DEF Confidential
  <2>8. QED
    BY <2>3, <2>4, <2>5, <2>6, <2>7
<1>4. DOMAIN nodes = NodesOf(c)
  BY DEF ReadAll, ViewInv, NodesSeen
<1> HIDE DEF nodes
<1>5. active = alive
  BY <1>3, <1>4 DEF Active
<1>6. \A r \in {"etcd", "control-plane", "worker"} :
            \E n \in active : r \in nodes[n].roles /\ nodes[n].schedulable
  BY <1>3, <1>5 DEF Fit
<1>7. \A n \in active : nodes[n].large
  BY <1>3, <1>5 DEF Fit
<1>8. \E n \in active : /\ nodes[n].schedulable /\ Confidential(nodes[n])
                        /\ nodes[n].klass \in GpuClasses
  BY <1>3, <1>5 DEF Fit
<1> HIDE DEF active
<1>9. nodes = view.nodes[MetagraphClusters[i].id]
  BY <1>1, <1>2 DEF nodes
<1>10. QED
  BY <1>1, <1>2, <1>6, <1>7, <1>8, <1>9 DEF ValidateMiner, active

\* What is credited are the nodes that count, at most all of them.
LEMMA CreditIsDue ==
    ASSUME ReadAll, NEW c \in Clusters, Healthy(c),
           NEW u \in DOMAIN view.uids, ViewOf(view.uids[u]) = {cluster[c]}
    PROVE  /\ Due(c) \in Nat
           /\ Earnings(view.uids[u], FALSE) <= Due(c)
           /\ Timely(c) => Earnings(view.uids[u], FALSE) = Due(c)
<1> DEFINE nodes   == view.nodes[c]
           counted == CountedNodes(nodes, now, FALSE)
           w       == NodeValue(nodes)
           value   == [n \in NodeNames |-> Card[Hardware[n].klass] * GpuCount(Hardware[n])]
           due     == {n \in NodesOf(c) : Counts(n)}
<1>1. MinerNodes(view.uids[u]) = nodes /\ DOMAIN nodes = NodesOf(c)
  BY OnlyCluster DEF Healthy, ReadAll, ViewInv, NodesSeen
<1>2. /\ Earnings(view.uids[u], FALSE) = Total(w, counted)
      /\ IsFiniteSet(counted) /\ \A n \in counted : w[n] \in Nat
  BY <1>1, EarningsAre
<1>3. Due(c) = Total(value, due)
  BY DEF Due
<1>4. due \in SUBSET NodeNames /\ NodesOf(c) \in SUBSET NodeNames /\ IsFiniteSet(due)
  <2>1. due \in SUBSET NodeNames /\ NodesOf(c) \in SUBSET NodeNames
    BY DEF NodesOf
  <2>2. QED
    BY <2>1, FS_Subset, FleetAssumption
<1>5. ASSUME NEW n \in NodesOf(c)
      PROVE  /\ nodes[n].klass = Hardware[n].klass
             /\ GpuCount(nodes[n]) = GpuCount(Hardware[n]) /\ GpuCount(nodes[n]) \in Nat
             /\ nodes[n].passthrough = Hardware[n].passthrough
             /\ nodes[n].kata = Hardware[n].kata
             /\ nodes[n].schedulable
             /\ Ready(nodes[n], now) => Hardware[n].heartbeats
             /\ Timely(c) /\ Hardware[n].heartbeats => Ready(nodes[n], now)
  <2>1. n \in NodeNames
    BY <1>4
  <2>2. PICK beat \in Int : nodes[n] = ShownAt(n, TRUE, beat, TRUE)
    BY HealthyIsSeen
  <2>3. Timely(c) /\ Hardware[n].heartbeats => Ready(nodes[n], now)
    BY TimelyIsReady
  <2> HIDE DEF nodes
  <2>4. Ready(nodes[n], now) => Hardware[n].heartbeats
    BY <2>1, <2>2, ReadyMeansRecent DEF ReadAll
  <2>5. /\ nodes[n].klass = Hardware[n].klass
        /\ GpuCount(nodes[n]) = GpuCount(Hardware[n]) /\ GpuCount(nodes[n]) \in Nat
        /\ nodes[n].passthrough = Hardware[n].passthrough
        /\ nodes[n].kata = Hardware[n].kata
        /\ nodes[n].schedulable
    BY <2>1, <2>2, ShownHealthy
  <2>6. QED
    BY <2>3, <2>4, <2>5
<1> HIDE DEF nodes
<1>6. ASSUME NEW n \in counted PROVE n \in due /\ value[n] = w[n] /\ value[n] \in Nat
  <2>1. /\ n \in NodesOf(c) /\ nodes[n].klass \in GpuClasses /\ Ready(nodes[n], now)
        /\ GpuCount(nodes[n]) >= 8 /\ nodes[n].passthrough /\ nodes[n].kata
    BY <1>1, <1>6 DEF CountedNodes, Qualifies, Confidential
  <2>2. Counts(n)
    BY <1>5, <2>1 DEF Counts
  <2>3. w[n] = Card[nodes[n].klass] * GpuCount(nodes[n])
    BY <1>1, <2>1 DEF NodeValue
  <2>4. value[n] = Card[Hardware[n].klass] * GpuCount(Hardware[n])
    BY <1>4, <2>1
  <2>5. QED
    BY <1>2, <1>5, <1>6, <2>1, <2>2, <2>3, <2>4
<1>7. ASSUME NEW n \in due PROVE value[n] \in Nat
  <2>1. /\ n \in NodeNames /\ Hardware[n].klass \in GpuClasses
        /\ GpuCount(Hardware[n]) \in Nat
    BY <1>4, <1>5 DEF Counts
  <2>2. Card[Hardware[n].klass] \in Nat
    BY <2>1, FleetAssumption
  <2>3. \A a, b \in Nat : a * b \in Nat
    OBVIOUS
  <2>4. value[n] = Card[Hardware[n].klass] * GpuCount(Hardware[n])
    BY <2>1
  <2>5. QED
    BY <2>1, <2>2, <2>3, <2>4
<1>8. Timely(c) => due \subseteq counted
  <2> SUFFICES ASSUME Timely(c), NEW n \in due PROVE n \in counted
    OBVIOUS
  <2>1. n \in NodesOf(c) /\ Counts(n)
    OBVIOUS
  <2>2. /\ Hardware[n].klass \in GpuClasses /\ Hardware[n].klass # NoClass
        /\ Hardware[n].heartbeats /\ GpuCount(Hardware[n]) >= 8
        /\ Hardware[n].passthrough /\ Hardware[n].kata
    BY <2>1, PolicyAssumption DEF Counts
  <2>3. Ready(nodes[n], now) /\ Confidential(nodes[n])
    BY <1>5, <2>1, <2>2 DEF Confidential
  <2>4. QED
    BY <1>1, <1>5, <2>1, <2>2, <2>3 DEF CountedNodes, Qualifies
<1> DEFINE rest == due \ counted
<1>9. /\ counted \cup rest = due /\ counted \cap rest = {} /\ IsFiniteSet(rest)
      /\ \A n \in counted : value[n] \in Int /\ w[n] = value[n]
      /\ \A n \in rest : value[n] \in Nat
      /\ \A n \in counted \cup rest : value[n] \in Int
      /\ Timely(c) => rest = {}
  <2>1. IsFiniteSet(rest)
    BY <1>4, FS_Subset
  <2> HIDE DEF value, w, counted, due
  <2>2. counted \subseteq due
    BY <1>6
  <2>3. \A n \in counted : value[n] \in Int /\ w[n] = value[n]
    <3>1. \A n \in counted : value[n] \in Nat /\ w[n] = value[n]
      BY <1>6
    <3>2. QED
      BY <3>1
  <2>4. \A n \in rest : value[n] \in Nat
    BY <1>7
  <2>5. counted \cup rest = due /\ counted \cap rest = {} /\ (Timely(c) => rest = {})
    BY <1>8, <2>2
  <2>6. QED
    BY <2>1, <2>3, <2>4, <2>5
<1> HIDE DEF rest, counted, due, value, w
<1>10. Total(w, counted) = Total(value, counted)
  BY <1>2, <1>9, TotalAgree
<1>11. Total(value, due) = Total(value, counted) + Total(value, rest)
  <2>1. Total(value, counted \cup rest) = Total(value, counted) + Total(value, rest)
    BY <1>2, <1>9, TotalUnion
  <2>2. counted \cup rest = due
    BY <1>9
  <2>3. QED
    BY <2>1, <2>2
<1>12. /\ Total(value, rest) \in Nat
       /\ Timely(c) => Total(value, rest) = 0
  BY <1>9, TotalNatural, TotalEmpty
<1>13. Total(w, counted) \in Nat
  BY <1>2, TotalNatural
<1> DEFINE a == Total(value, counted)
           b == Total(value, rest)
<1>14. /\ Due(c) = a + b /\ Earnings(view.uids[u], FALSE) = a
       /\ a \in Nat /\ b \in Nat /\ (Timely(c) => b = 0)
  BY <1>2, <1>3, <1>10, <1>11, <1>12, <1>13
<1> HIDE DEF a, b
<1>15. a + b \in Nat /\ a <= a + b /\ (b = 0 => a + b = a)
  BY <1>14
<1>16. QED
  BY <1>14, <1>15

\* A cluster that was healthy and undisturbed throughout a cycle is credited with
\* what its nodes that count are worth, exactly if its hardware passes the policy
\* and the cycle is not too slow for its clocks, and never with more, for any fleet
\* and whatever happens to other clusters meanwhile.
THEOREM TheHealthyArePaid == Spec => HealthyArePaid
<1> DEFINE Paid(u, c) ==
                /\ result'.usd[u] <= Due(c)
                /\ Fit(c) /\ now - view.since + Lag(c) <= ReadyMaxAge
                        => result'.usd[u] = Due(c)
           Fair == Scored => \A u \in DOMAIN view.uids \ {StagingUid}, c \in Clusters :
                        Healthy(c) /\ ViewOf(view.uids[u]) = {cluster[c]} => Paid(u, c)
<1>1. FleetInv /\ [Next]_vars => [Fair]_vars
  <2> SUFFICES ASSUME FleetInv, [Next]_vars, Scored,
                      NEW u \in DOMAIN view.uids \ {StagingUid}, NEW c \in Clusters,
                      Healthy(c), ViewOf(view.uids[u]) = {cluster[c]}
               PROVE  Paid(u, c)
    OBVIOUS
  <2>1. Score
    BY OnlyScoreScores
  <2>2. ReadAll /\ result'.usd[u] = MinerUsd(u)
    BY <2>1, ScoreComputes
  <2>3. MinerUsd(u) = IF MinerReady(u) THEN Earnings(view.uids[u], FALSE) ELSE 0
    <3>1. (u = StagingUid) = FALSE
      OBVIOUS
    <3>2. QED
      BY <3>1 DEF MinerUsd, Earnings
  <2>4. /\ Due(c) \in Nat
        /\ Earnings(view.uids[u], FALSE) <= Due(c)
        /\ Timely(c) => Earnings(view.uids[u], FALSE) = Due(c)
    BY <2>2, CreditIsDue
  <2>5. Fit(c) /\ Timely(c) => MinerReady(u)
    BY <2>2, FitIsReady DEF MinerReady
  <2>6. result'.usd[u] <= Due(c)
    <3>1. CASE MinerReady(u)
      BY <2>2, <2>3, <2>4, <3>1
    <3>2. CASE ~MinerReady(u)
      <4>1. result'.usd[u] = 0
        BY <2>2, <2>3, <3>2
      <4>2. QED
        BY <2>4, <4>1
    <3>3. QED
      BY <3>1, <3>2
  <2>7. Fit(c) /\ Timely(c) => result'.usd[u] = Due(c)
    BY <2>2, <2>3, <2>4, <2>5
  <2>8. QED
    BY <2>6, <2>7 DEF Timely
<1>2. QED
  BY <1>1, InvHolds, PTL DEF Spec, HealthyArePaid
=============================================================================
