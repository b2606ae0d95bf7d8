------------------------------ MODULE MCFleet ------------------------------
(* Constants for the runs of Fleet. *)
EXTENDS Fleet

MCGpu  == {"H100", "B200"}
MCCard == [k \in MCGpu |-> IF k = "H100" THEN 2 ELSE 3]

All == {"etcd", "control-plane", "worker"}

Node(c, roles, klass, gpus) ==
    [cluster |-> c, roles |-> roles, klass |-> klass, gpus |-> gpus, large |-> TRUE,
     heartbeats |-> TRUE, skew |-> 0, passthrough |-> klass # NoClass, kata |-> klass # NoClass,
     tdx |-> FALSE]

\* c1: one node that is everything and is confidential by TDX alone, as only the
\* staging miner's may be.  c2: a control plane with half a node's GPUs, a worker
\* without a GPU count, and a worker whose condition has no usable stamp.
MCHardware ==
    [n \in {"a1", "b1", "b2", "b3"} |->
        CASE n = "a1" -> [Node("c1", All, "H100", 16)
                            EXCEPT !.kata = FALSE, !.tdx = TRUE, !.skew = 1]
          [] n = "b1" -> [Node("c2", {"etcd", "control-plane"}, "B200", 4)
                            EXCEPT !.skew = 1]
          [] n = "b2" -> [Node("c2", {"worker"}, "B200", Missing)
                            EXCEPT !.skew = -1]
          [] n = "b3" -> [Node("c2", {"worker"}, "H100", 8)
                            EXCEPT !.heartbeats = FALSE]]

MCIds     == <<"c1", "c2">>
MCLabels  == [c \in {"c1", "c2"} |->
                IF c = "c1" THEN [hotkey |-> NoLabel, alias |-> "hk1"]
                ELSE [hotkey |-> "hk2", alias |-> "hk1"]]
MCHotkeys == {"hk1", "hk2", "hk3"}

WithOwner == [u \in {0, 1, 56} |-> CASE u = 0 -> "hk0" [] u = 1 -> "hk1"
                                      [] u = 56 -> "hk2"]
NoOwner   == [u \in {1, 56} |-> IF u = 1 THEN "hk1" ELSE "hk2"]
MCGraphs  == {WithOwner, NoOwner}
\* What emission_pool_usd answers when a factor is missing, and an ample pool.
MCPools   == {1, 200}
==============================================================================
