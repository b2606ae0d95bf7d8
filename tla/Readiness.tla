------------------------------ MODULE Readiness ------------------------------
(***************************************************************************)
(* The readiness policy and the scoring of one cycle, as pure operators:   *)
(* infrastructure_validation.py (may a miner earn), the GPU inventory of   *)
(* validator.py (for what) and miner_scoring.py (which weight that is).    *)
(*                                                                         *)
(* A cluster and its nodes are what the Rancher API showed of them.  A     *)
(* timestamp is a natural number, or NoTime when it is absent or cannot be *)
(* parsed; labels are the booleans the code distils from them.             *)
(***************************************************************************)
EXTENDS Integers, Sequences, FiniteSets, FiniteSetsExt

CONSTANTS
    GpuClasses,     \* the classes the policy knows
    ReadyMaxAge     \* _READY_MAX_AGE_SECONDS, in the unit of the timestamps

NoTime  == -1
NoClass == "no class"
NoLabel == ""
Missing == -1       \* nvidia.com/gpu.count is absent

ASSUME PolicyAssumption ==
    /\ IsFiniteSet(GpuClasses) /\ NoClass \notin GpuClasses
    /\ ReadyMaxAge \in Nat

\* The sum of f over the keys S.
Total(f, S) == MapThenSumSet(LAMBDA x : f[x], S)

-----------------------------------------------------------------------------
(* What one node shows *)

ConditionTimestamp(c) == IF c.heartbeat # NoTime THEN c.heartbeat ELSE c.transition

\* A node carries several Ready conditions (a legacy copy keeps the node's
\* registration time): the newest stamp of those that say True is its age.
ReadyConditions(node) == {c \in node.conditions : c.ready}

ReadyStamps(node) ==
    {ConditionTimestamp(c) : c \in ReadyConditions(node)} \ {NoTime}

\* Mutant: the oldest Ready condition dates the node.
OldestStamp(node) == Min(ReadyStamps(node))

ReadyStamp(node) == Max(ReadyStamps(node))

\* Mutant: a Ready condition counts however old it is.
ReadyOnce(node, now) == ReadyStamps(node) # {}

\* Ready, and heard of within ReadyMaxAge; no usable stamp fails closed.
Ready(node, now) ==
    /\ ReadyStamps(node) # {}
    /\ now - ReadyStamp(node) <= ReadyMaxAge

Confidential(node) == node.passthrough /\ node.kata

GpuCount(node) == IF node.gpus = Missing THEN 8 ELSE node.gpus

-----------------------------------------------------------------------------
(* The verdict on one miner *)

HotkeyOf(cluster) == IF cluster.hotkey # NoLabel THEN cluster.hotkey ELSE cluster.alias

\* The places of a miner's clusters in the list.
Bound(hotkey, clusters) == {i \in DOMAIN clusters : HotkeyOf(clusters[i]) = hotkey}

\* Mutant: what Rancher says of the cluster is not asked.
NodesDecide(cluster) == TRUE

\* An explicit Ready condition that is not True; none at all is healthy.
ClusterHealthy(cluster) == cluster.condition # "down"

Active(nodes, now) == {n \in DOMAIN nodes : Ready(nodes[n], now)}

ValidateMiner(hotkey, clusters, nodesBy, now) ==
    \E i \in DOMAIN clusters :
        LET nodes   == nodesBy[clusters[i].id]
            active  == Active(nodes, now)
            with(r) == {n \in active : r \in nodes[n].roles}
        IN  /\ Bound(hotkey, clusters) = {i}
            /\ ~clusters[i].banned
            /\ ClusterHealthy(clusters[i])
            /\ with("etcd") # {} /\ with("control-plane") # {}
            /\ \A n \in active : nodes[n].large
            /\ \E n \in with("worker") : nodes[n].schedulable
            /\ \E n \in active : /\ nodes[n].schedulable
                                 /\ Confidential(nodes[n])
                                 /\ nodes[n].klass \in GpuClasses

\* _miner_gpu_breakdown of one class: GPUs of the nodes that count, in whole
\* eights or more; the owner's staging miner counts TDX nodes that are not
\* confidential too.
Qualifies(node, now, includeTdx) ==
    /\ Ready(node, now) /\ node.schedulable /\ node.klass # NoClass
    /\ GpuCount(node) >= 8
    /\ Confidential(node) \/ (includeTdx /\ node.tdx)

MinerGpus(hotkey, clusters, nodesBy, now, includeTdx) ==
    LET bound == Bound(hotkey, clusters)
        nodes == IF bound = {} THEN <<>> ELSE nodesBy[clusters[Min(bound)].id]
        gpus  == [n \in DOMAIN nodes |-> GpuCount(nodes[n])]
    IN  [k \in GpuClasses |->
            Total(gpus, {n \in DOMAIN nodes : /\ nodes[n].klass = k
                                              /\ Qualifies(nodes[n], now, includeTdx)})]

-----------------------------------------------------------------------------
(* Scoring *)

UsdFromBreakdown(gpus, card) ==
    Total([k \in DOMAIN gpus |-> card[k] * gpus[k]], DOMAIN gpus)

\* Weights are kept as integers that stand over a common denominator.
Even(uids) == [weights |-> [u \in uids |-> 1], over |-> Cardinality(uids)]

\* Mutant: weights beyond the pool are not normalised.
Unnormalised(usd, owner, pool) == [weights |-> usd, over |-> pool]

\* Mutant: what nobody earned is left out of the vector.
NoRemainder(usd, owner, pool) ==
    LET total == Total(usd, DOMAIN usd)
    IN  [weights |-> usd, over |-> IF total > pool THEN total ELSE pool]

\* compute_weights: `usd` is what each registered uid earned, 0 for a miner that
\* is not ready.  The pot is the pool, or all that was earned when that is more.
ComputeWeights(usd, owner, pool) ==
    LET earners == {u \in DOMAIN usd : usd[u] > 0}
        total   == Total(usd, earners)
        pot     == IF total > pool THEN total ELSE pool
    IN  IF earners = {} THEN
            IF owner \in DOMAIN usd
            THEN [weights |-> [u \in {owner} |-> 1], over |-> 1]
            ELSE Even(DOMAIN usd)
        ELSE IF owner \in DOMAIN usd THEN
            [weights |-> [u \in earners \cup {owner} |->
                            IF u = owner THEN usd[u] + (pot - total) ELSE usd[u]],
             over |-> pot]
        ELSE [weights |-> [u \in earners |-> usd[u]], over |-> total]

PadToMetagraph(weights, uids) ==
    [u \in uids |-> IF u \in DOMAIN weights THEN weights[u] ELSE 0]
=============================================================================
