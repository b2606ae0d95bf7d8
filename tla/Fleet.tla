------------------------------- MODULE Fleet -------------------------------
(***************************************************************************)
(* From the fleet to the weights: a validator's cycle reads the metagraph, *)
(* then Rancher's clusters, then the nodes of one cluster after another,   *)
(* then the prices, and only then judges and scores what it has read.      *)
(* Meanwhile nodes heartbeat, die and are cordoned, cluster agents         *)
(* disconnect, the operator labels and bans clusters, and uids change      *)
(* hands.                                                                  *)
(*                                                                         *)
(* The fleet and Rancher are external to the repository.  Time runs from   *)
(* StartTime to MaxTime in units longer than the kubelet's heartbeat       *)
(* period and starts long after the nodes were registered (at time 0); one *)
(* cycle takes at most CycleTime; at most MaxEvents things happen to the   *)
(* fleet and at most MaxFailures Rancher reads fail.                       *)
(***************************************************************************)
EXTENDS Readiness, Functions

CONSTANTS
    ClusterIds,     \* the clusters, in the order Rancher lists them
    Hardware,       \* per node: what does not change, its cluster, and by how
                    \* much its clock is ahead of the validator's
    Labels,         \* per cluster: its hotkey and alias labels at the start
    Hotkeys,        \* the hotkeys clusters may be labelled with later
    Metagraphs,     \* what the metagraph may be at the start: uids to hotkeys
    OwnerUid, StagingUid,   \* cfg.owner_uid, cfg.owner_miner_uid
    Card,           \* the effective card of the cycle, USD per GPU and epoch
    Pools,          \* the emission pools the chain may report
    Events,         \* of EventKinds, those a run allows
    StartTime, MaxTime, CycleTime, MaxEvents, MaxFailures

EventKinds == {"die", "cordon", "disconnect", "notice", "ban", "label", "register"}
Clusters   == Range(ClusterIds)
NodeNames  == DOMAIN Hardware

ASSUME FleetAssumption ==
    /\ ClusterIds \in Seq(Clusters) /\ IsInjective(ClusterIds)
    /\ IsFiniteSet(NodeNames)
    /\ \A n \in NodeNames :
            /\ Hardware[n].cluster \in Clusters /\ Hardware[n].skew \in Int
            /\ Hardware[n].gpus \in Nat \cup {Missing}
            /\ Hardware[n].heartbeats \in BOOLEAN
    /\ \A m \in Metagraphs : IsFiniteSet(DOMAIN m)
    /\ Labels \in [Clusters -> [hotkey : Hotkeys \cup {NoLabel},
                                alias : Hotkeys \cup {NoLabel}]]
    /\ Card \in [GpuClasses -> Nat]
    /\ Pools \subseteq Nat \ {0}   \* emission_pool_usd falls back to 1.0
    /\ Events \subseteq EventKinds
    /\ CycleTime \in Nat /\ StartTime \in Nat /\ MaxTime \in Nat
    /\ StartTime > ReadyMaxAge /\ MaxTime >= StartTime
    /\ MaxEvents \in Nat /\ MaxFailures \in Nat

VARIABLES
    now,
    cluster,    \* per cluster: labels, connected, what Rancher says of it
    node,       \* per node: up, what Rancher shows of its Ready condition
    metagraph,  \* uid -> hotkey
    pc,         \* where the cycle is in run_cycle
    view,       \* the cycle's locals, see NoView
    result,     \* what the cycle computed, until the next one starts
    touched,    \* the clusters something happened to during the cycle
    events, failures

world == <<cluster, node, metagraph>>
vars  == <<now, world, pc, view, result, touched, events, failures>>

NoView   == [since |-> 0, uids |-> <<>>, clusters |-> <<>>, nodes |-> <<>>]
NoResult == [weights |-> <<>>, over |-> 0, usd |-> <<>>, pool |-> 0]

Init ==
    /\ now = StartTime
    /\ cluster = [c \in Clusters |->
                    [id |-> c, hotkey |-> Labels[c].hotkey, alias |-> Labels[c].alias,
                     banned |-> FALSE, condition |-> "up", connected |-> TRUE]]
    /\ node = [n \in NodeNames |->
                    [up |-> TRUE, ready |-> TRUE, beat |-> StartTime,
                     schedulable |-> TRUE]]
    /\ metagraph \in Metagraphs
    /\ pc = "idle" /\ view = NoView /\ result = NoResult
    /\ touched = {} /\ events = 0 /\ failures = 0

-----------------------------------------------------------------------------
(* The fleet *)

Heard(n) == node[n].up /\ cluster[Hardware[n].cluster].connected

\* Time passes; every node Rancher still hears has sent a heartbeat.
Tick ==
    /\ now < MaxTime
    /\ pc # "idle" => now - view.since < CycleTime
    /\ now' = now + 1
    /\ node' = [n \in NodeNames |->
                    IF Heard(n) THEN [node[n] EXCEPT !.beat = now + 1] ELSE node[n]]
    /\ UNCHANGED <<cluster, metagraph, pc, view, result, touched, events, failures>>

Event(kind, cs) ==
    /\ kind \in Events
    /\ events < MaxEvents /\ events' = events + 1
    /\ touched' = touched \cup cs
    /\ UNCHANGED <<now, pc, view, result, failures>>

NodeEvent(n) ==
    /\ UNCHANGED <<cluster, metagraph>>
    /\ \/ /\ Event("die", {Hardware[n].cluster})
          /\ node' = [node EXCEPT ![n].up = FALSE]
       \* Kubernetes notices, and Rancher is there to be told.
       \/ /\ Event("notice", {Hardware[n].cluster})
          /\ ~node[n].up /\ cluster[Hardware[n].cluster].connected
          /\ node' = [node EXCEPT ![n].ready = FALSE]
       \/ /\ Event("cordon", {Hardware[n].cluster})
          /\ node' = [node EXCEPT ![n].schedulable = ~@]

ClusterEvent(c) ==
    /\ UNCHANGED <<node, metagraph>>
    /\ \/ /\ Event("disconnect", {c})
          /\ cluster' = [cluster EXCEPT ![c].connected = FALSE]
       \/ /\ Event("notice", {c})
          /\ ~cluster[c].connected
          /\ cluster' = [cluster EXCEPT ![c].condition = "down"]
       \/ /\ Event("ban", {c})
          /\ cluster' = [cluster EXCEPT ![c].banned = ~@]
       \/ /\ Event("label", {c})
          /\ \E h \in (Hotkeys \cup {NoLabel}) \ {cluster[c].hotkey} :
                cluster' = [cluster EXCEPT ![c].hotkey = h]

\* A uid is taken over by a newly registered hotkey.
Register(u) ==
    /\ Event("register", {})
    /\ \E h \in Hotkeys \ Range(metagraph) :
            metagraph' = [metagraph EXCEPT ![u] = h]
    /\ UNCHANGED <<cluster, node>>

-----------------------------------------------------------------------------
(* The cycle *)

ReadMetagraph ==
    /\ pc = "idle"
    /\ view' = [NoView EXCEPT !.since = now, !.uids = metagraph]
    /\ touched' = {} /\ result' = NoResult
    /\ pc' = "clusters"
    /\ UNCHANGED <<now, world, events, failures>>

ListClusters ==
    /\ pc = "clusters"
    /\ view' = [view EXCEPT !.clusters = [i \in DOMAIN ClusterIds |->
                                            cluster[ClusterIds[i]]]]
    /\ pc' = "nodes"
    /\ UNCHANGED <<now, world, result, touched, events, failures>>

\* What Rancher shows of a node: the Ready condition the node keeps up, stamped
\* by the node's own clock, and the legacy copy that carries the time of the
\* registration.
Shown(n) ==
    LET hw == Hardware[n]
    IN  [conditions |->
            {[ready |-> node[n].ready, transition |-> NoTime,
              heartbeat |-> IF hw.heartbeats THEN node[n].beat + hw.skew ELSE NoTime],
             [ready |-> node[n].ready, heartbeat |-> NoTime,
              transition |-> IF hw.heartbeats THEN 0 ELSE NoTime]},
         roles |-> hw.roles, large |-> hw.large, klass |-> hw.klass, gpus |-> hw.gpus,
         passthrough |-> hw.passthrough, kata |-> hw.kata, tdx |-> hw.tdx,
         schedulable |-> node[n].schedulable]

ListNodes ==
    /\ pc = "nodes"
    /\ Cardinality(DOMAIN view.nodes) < Len(ClusterIds)
    /\ LET c     == ClusterIds[Cardinality(DOMAIN view.nodes) + 1]
           nodes == [n \in {m \in NodeNames : Hardware[m].cluster = c} |-> Shown(n)]
       IN  view' = [view EXCEPT !.nodes = [d \in DOMAIN @ \cup {c} |->
                                              IF d = c THEN nodes ELSE @[d]]]
    /\ UNCHANGED <<now, world, pc, result, touched, events, failures>>

\* RancherEvidenceError: the cycle is skipped and the weights stay.
ReadFails ==
    /\ pc \in {"clusters", "nodes"}
    /\ failures < MaxFailures /\ failures' = failures + 1
    /\ pc' = "idle" /\ view' = NoView
    /\ UNCHANGED <<now, world, result, touched, events>>

\* The clusters whose label is a registered hotkey.
MetagraphClusters ==
    Restrict(view.clusters, {i \in DOMAIN view.clusters :
                                HotkeyOf(view.clusters[i]) \in Range(view.uids)})

\* The staging miner's verdict is overridden.
MinerReady(u) ==
    \/ ValidateMiner(view.uids[u], MetagraphClusters, view.nodes, now)
    \/ u = StagingUid

MinerUsd(u) ==
    IF MinerReady(u)
    THEN UsdFromBreakdown(
            MinerGpus(view.uids[u], view.clusters, view.nodes, now, u = StagingUid), Card)
    ELSE 0

\* Everything is judged by the clock of this moment, not of the reads.
Score ==
    /\ pc = "nodes"
    /\ DOMAIN view.nodes = Clusters
    /\ DOMAIN view.uids # {}
    /\ \E pool \in Pools :
        LET usd    == [u \in DOMAIN view.uids |-> MinerUsd(u)]
            scores == ComputeWeights(usd, OwnerUid, pool)
        IN  result' = [weights |-> PadToMetagraph(scores.weights, DOMAIN view.uids),
                       over |-> scores.over, usd |-> usd, pool |-> pool]
    /\ pc' = "idle" /\ view' = NoView
    /\ UNCHANGED <<now, world, touched, events, failures>>

Next ==
    \/ Tick
    \/ \E n \in NodeNames : NodeEvent(n)
    \/ \E c \in Clusters : ClusterEvent(c)
    \/ \E u \in DOMAIN metagraph : Register(u)
    \/ ReadMetagraph \/ ListClusters \/ ListNodes \/ ReadFails \/ Score

Spec == Init /\ [][Next]_vars

-----------------------------------------------------------------------------
(* Properties *)

\* Every variable has its type; a view grows in the order of the reads and a
\* cycle never judges a cluster whose nodes it has not read.
TypeOK ==
    /\ now \in StartTime..MaxTime
    /\ \A n \in NodeNames : node[n].beat \in StartTime..now
    /\ \A c \in Clusters : cluster[c].condition \in {"up", "down"}
    /\ pc \in {"idle", "clusters", "nodes"}
    /\ view.nodes # <<>> => pc = "nodes" /\ Len(view.clusters) = Len(ClusterIds)
    /\ DOMAIN view.nodes \subseteq Clusters
    /\ \A u \in DOMAIN result.weights : result.weights[u] \in 0..result.over

\* The step that scored, seen from its outcome.
Scored == pc = "nodes" /\ result' # result

ViewOf(hotkey) == {c \in Range(view.clusters) : HotkeyOf(c) = hotkey}

NodesOf(c) == {n \in NodeNames : Hardware[n].cluster = c}

\* What an undisturbed, healthy cluster earns per epoch.
Counts(n) ==
    /\ Hardware[n].heartbeats /\ Hardware[n].klass \in GpuClasses
    /\ Hardware[n].passthrough /\ Hardware[n].kata /\ GpuCount(Hardware[n]) >= 8

Due(c) == Total([n \in NodeNames |-> Card[Hardware[n].klass] * GpuCount(Hardware[n])],
                {n \in NodesOf(c) : Counts(n)})

Healthy(c) ==
    /\ c \notin touched
    /\ cluster[c].connected /\ cluster[c].condition = "up" /\ ~cluster[c].banned
    /\ \A n \in NodesOf(c) : node[n].up /\ node[n].ready /\ node[n].schedulable

\* Hardware that passes the policy while it is alive.
Fit(c) ==
    LET active == {n \in NodesOf(c) : Hardware[n].heartbeats}
    IN  /\ \A r \in {"etcd", "control-plane", "worker"} :
                \E n \in active : r \in Hardware[n].roles
        /\ \A n \in active : Hardware[n].large
        /\ \E n \in active : Confidential(Hardware[n]) /\ Hardware[n].klass \in GpuClasses

\* "an outage never blames miners": a fit cluster to which nothing happened during
\* the whole cycle is credited with exactly its qualifying GPUs, whatever happens
\* to other clusters, however the reads are spread over time and although each
\* node also shows a Ready condition as old as its registration.  Only a cycle
\* that, with a clock behind the validator's, outlasts the 15 minutes may judge
\* its nodes as stale, and it never credits more.
Lag(c) == -Min({0} \cup {Hardware[n].skew : n \in NodesOf(c)})

HealthyArePaid ==
    [][Scored => \A u \in DOMAIN view.uids \ {StagingUid}, c \in Clusters :
        Healthy(c) /\ ViewOf(view.uids[u]) = {cluster[c]} =>
            /\ result'.usd[u] <= Due(c)
            /\ Fit(c) /\ now - view.since + Lag(c) <= ReadyMaxAge
                    => result'.usd[u] = Due(c)]_vars

\* "a dead cluster [must not keep] scoring off frozen evidence": a miner is
\* credited, the owner's staging miner too, only if at least one of its nodes was
\* heard of in the last 15 minutes before the weights were computed; a node whose
\* clock is ahead is believed that much longer, and no longer.
DarkEarnNothing ==
    [][Scored => \A u \in DOMAIN view.uids :
        result'.usd[u] > 0 =>
            \E c \in ViewOf(view.uids[u]) : \E n \in NodesOf(c.id) :
                now - node[n].beat <= ReadyMaxAge + Hardware[n].skew]_vars

\* "malformed, ambiguous, or unhealthy evidence scores 0": a miner whose clusters
\* were, throughout the cycle, banned, reported down or more than one, gets no
\* weight; only when nobody earned and the owner is not registered is everyone
\* weighed alike.
Unfit(c) ==
    \/ cluster[c].banned \/ cluster[c].condition = "down"
    \/ \E d \in Clusters \ ({c} \cup touched) :
            HotkeyOf(cluster[d]) = HotkeyOf(cluster[c])

UnfitEarnNothing ==
    [][Scored => \A u \in DOMAIN view.uids \ {StagingUid, OwnerUid},
                   c \in Clusters \ touched :
        HotkeyOf(cluster[c]) = view.uids[u] /\ Unfit(c) =>
            \/ result'.weights[u] = 0
            \/ OwnerUid \notin DOMAIN view.uids
               /\ \A v \in DOMAIN view.uids : result'.usd[v] = 0]_vars

\* The split is a split: the weights add up to the whole, two miners are weighed
\* as they earned, and while the pool suffices a weight is worth exactly what was
\* earned, the owner getting the rest.
SplitIsFair ==
    LET uids  == DOMAIN result.weights
        total == Total(result.usd, uids)
        w(u)  == result.weights[u]
    IN  /\ Total(result.weights, uids) = result.over
        /\ \A u, v \in uids \ {OwnerUid} :
                total > 0 => w(u) * result.usd[v] = w(v) * result.usd[u]
        /\ OwnerUid \in uids /\ total <= result.pool => \A u \in uids \ {OwnerUid} :
                w(u) * result.pool = result.usd[u] * result.over
=============================================================================
