----------------------------- MODULE VoteLedger -----------------------------
(***************************************************************************)
(* What the epoch loop promises of the weight vectors of one validator:    *)
(* they are written to the chain one per epoch, epochs in ascending order, *)
(* and what was written is never taken back.                               *)
(***************************************************************************)
EXTENDS Integers, Sequences

VARIABLE votes      \* the epochs whose weight vector reached the chain

Init == votes = <<>>

\* One more vote, for an epoch later than every epoch already voted.
Vote ==
    /\ votes' \in Seq(Nat)
    /\ Len(votes') = Len(votes) + 1
    /\ \A i \in 1..Len(votes) :
            votes'[i] = votes[i] /\ votes[i] < votes'[Len(votes')]

Spec == Init /\ [][Vote]_votes
=============================================================================
