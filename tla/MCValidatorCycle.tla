-------------------------- MODULE MCValidatorCycle --------------------------
(* Constants for the runs of ValidatorCycle. *)
EXTENDS ValidatorCycle

\* One miner; the other may register as a new uid, and later be trimmed or take
\* the first one over.
MCGraphs == {[u \in {1} |-> "hk1"]}
=============================================================================
