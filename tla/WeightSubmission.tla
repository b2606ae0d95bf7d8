-------------------------- MODULE WeightSubmission --------------------------
(***************************************************************************)
(* One validator process and its once-per-epoch `set_weights`.             *)
(*                                                                         *)
(* Validator._set_weights_once_per_epoch reads the tempo (kept from the    *)
(* metagraph of the cycle), then the block, then the weights rate limit,   *)
(* and only then submits; the chain keeps producing blocks between those   *)
(* reads, and each of them has a fallback of its own.  What the process    *)
(* remembers of its last submission (_last_submitted_epoch,                *)
(* _last_set_block) lives in memory only.                                  *)
(*                                                                         *)
(* The chain itself (blocks, tempo, its own check of the rate limit) is    *)
(* external to the repository.  Blocks are bounded by MaxBlock, and what   *)
(* may go wrong is the set Faults, at most MaxFaults times.                *)
(***************************************************************************)
EXTENDS Integers, Sequences, FiniteSets

CONSTANTS
    StartBlock,        \* block at which the validator starts
    MaxBlock,          \* bound on the chain's height
    InitTempo,         \* blocks per epoch when the validator starts
    Tempos,            \* tempos the subnet owner may choose later
    DefaultTempo,      \* 360 in the code: the tempo when it cannot be read
    RateLimit,         \* the chain's weights_rate_limit
    DefaultRateLimit,  \* 100 in the code: the limit when it cannot be read
    CycleBlocks,       \* a cycle ends at most this many blocks after another
    Faults,            \* the faults a run allows, see FaultKinds
    MaxFaults          \* bound on the number of faults of a behaviour

FaultKinds == {"skip", "tempoRead", "blockRead", "rateRead", "reject",
               "lostAck", "restart", "setTempo"}

ASSUME ConstantsAssumption ==
    /\ StartBlock \in Nat /\ MaxBlock \in Nat /\ StartBlock <= MaxBlock
    /\ InitTempo \in Nat \ {0} /\ DefaultTempo \in Nat \ {0}
    /\ Tempos \subseteq Nat \ {0}
    /\ RateLimit \in Nat /\ DefaultRateLimit \in Nat
    /\ CycleBlocks \in Nat \ {0}
    /\ Faults \subseteq FaultKinds /\ MaxFaults \in Nat

Never == -1         \* Python's None for a block, and the initial epoch

VARIABLES
    block,              \* chain: current height
    tempo,              \* chain: blocks per epoch
    landed,             \* chain: the weight vectors it accepted, in order
    lastSubmittedEpoch, \* Validator._last_submitted_epoch
    lastSetBlock,       \* Validator._last_set_block
    pc,                 \* where the cycle is in _set_weights_once_per_epoch
    cyc,                \* that call's locals, and the true height it decided at
    idleFor,            \* blocks since the last cycle ended
    faults              \* faults so far

chainVars == <<block, tempo, landed>>
memory    == <<lastSubmittedEpoch, lastSetBlock>>
vars      == <<chainVars, memory, pc, cyc, idleFor, faults>>

NoCycle == [tempo |-> 1, block |-> 0, decided |-> 0, epoch |-> 0]

Fault(kind) ==
    /\ kind \in Faults
    /\ faults < MaxFaults
    /\ faults' = faults + 1

Init ==
    /\ block = StartBlock /\ tempo = InitTempo /\ landed = <<>>
    /\ lastSubmittedEpoch = Never /\ lastSetBlock = Never
    /\ pc = "idle" /\ cyc = NoCycle
    /\ idleFor = 0 /\ faults = 0

-----------------------------------------------------------------------------
(* The chain *)

\* A block.  Cycles follow one another within CycleBlocks blocks: run_forever
\* sleeps what is left of cycle_seconds and every remote read has a timeout.
Tick ==
    /\ block < MaxBlock
    /\ idleFor < CycleBlocks
    /\ block' = block + 1
    /\ idleFor' = idleFor + 1
    /\ UNCHANGED <<tempo, landed, memory, pc, cyc, faults>>

\* The subnet owner changes the tempo hyperparameter.
SetTempo ==
    /\ Fault("setTempo")
    /\ tempo' \in Tempos \ {tempo}
    /\ UNCHANGED <<block, landed, memory, pc, cyc, idleFor>>

\* The chain's own cooldown counts from the block that included a vector.
ChainAccepts == \A i \in 1..Len(landed) : block - landed[i].at >= RateLimit

-----------------------------------------------------------------------------
(* The validator *)

EndCycle ==
    /\ pc' = "idle"
    /\ cyc' = NoCycle
    /\ idleFor' = 0

\* run_cycle returns or raises before it reaches set_weights.
SkipCycle ==
    /\ pc = "idle"
    /\ Fault("skip")
    /\ EndCycle
    /\ UNCHANGED <<chainVars, memory>>

\* Mutant: the fallback of the tempo is missing, so it is 0.
TempoOrZero ==
    /\ pc = "idle"
    /\ \/ cyc' = [NoCycle EXCEPT !.tempo = tempo] /\ UNCHANGED faults
       \/ cyc' = [NoCycle EXCEPT !.tempo = 0] /\ Fault("tempoRead")
    /\ pc' = "block"
    /\ UNCHANGED <<chainVars, memory, idleFor>>

\* The metagraph is read; its tempo is the tempo of the rest of the cycle.
TempoFromChain ==
    /\ pc = "idle"
    /\ \E t \in {tempo, DefaultTempo} :
        /\ cyc' = [NoCycle EXCEPT !.tempo = t]
        /\ \/ t = tempo /\ UNCHANGED faults
           \/ t = DefaultTempo /\ Fault("tempoRead")
    /\ pc' = "block"
    /\ UNCHANGED <<chainVars, memory, idleFor>>

\* _epoch(): the height, or 0 when it cannot be read.
BlockRead(b) ==
    \/ b = block /\ UNCHANGED faults
    \/ b = 0 /\ Fault("blockRead")

\* Mutant: an off-by-one in the comparison of the epochs.
RepeatsTheEpoch(b) == lastSubmittedEpoch > b \div cyc.tempo

\* Mutant: any epoch but the last one is open, an earlier one too.
OtherEpochIsOpen(b) == lastSubmittedEpoch = b \div cyc.tempo

AlreadyAttempted(b) == lastSubmittedEpoch >= b \div cyc.tempo

SkipEpoch(b) ==
    /\ pc = "block"
    /\ BlockRead(b)
    /\ AlreadyAttempted(b)
    /\ EndCycle
    /\ UNCHANGED <<chainVars, memory>>

OpenEpoch(b) ==
    /\ pc = "block"
    /\ BlockRead(b)
    /\ ~AlreadyAttempted(b)
    /\ cyc' = [tempo |-> cyc.tempo, block |-> b, decided |-> block,
                epoch |-> b \div cyc.tempo]
    /\ pc' = "limit"
    /\ UNCHANGED <<chainVars, memory, idleFor>>

\* The limit, or 100 when the read fails or says nothing positive.
RateLimitRead(limit) ==
    \/ limit = (IF RateLimit > 0 THEN RateLimit ELSE DefaultRateLimit)
       /\ UNCHANGED faults
    \/ limit = DefaultRateLimit /\ Fault("rateRead")

CoolingDown(limit) ==
    lastSetBlock # Never /\ cyc.block - lastSetBlock < limit

SkipCooldown(limit) ==
    /\ pc = "limit"
    /\ RateLimitRead(limit)
    /\ CoolingDown(limit)
    /\ EndCycle
    /\ UNCHANGED <<chainVars, memory>>

Attempt(limit) ==
    /\ pc = "limit"
    /\ RateLimitRead(limit)
    /\ ~CoolingDown(limit)
    /\ pc' = "submit"
    /\ UNCHANGED <<chainVars, memory, cyc, idleFor>>

\* The chain includes the extrinsic (at whatever height it has by now).
Include ==
    /\ pc = "submit"
    /\ ChainAccepts
    /\ landed' = Append(landed, [at |-> block, decided |-> cyc.decided,
                                 epoch |-> cyc.epoch])
    /\ pc' = "included"
    /\ UNCHANGED <<block, tempo, memory, cyc, idleFor, faults>>

\* Mutant: a rejected call closes the epoch and starts the cooldown anew.
RejectedIsFinal ==
    /\ pc = "submit"
    /\ (~ChainAccepts /\ UNCHANGED faults) \/ Fault("reject")
    /\ lastSubmittedEpoch' = cyc.epoch + 1
    /\ lastSetBlock' = cyc.block
    /\ EndCycle
    /\ UNCHANGED chainVars

\* ChainState.set_weights raises: the chain found the call too early, or it was
\* lost, with its retries, on the way.  The epoch stays open.
Rejected ==
    /\ pc = "submit"
    /\ \/ ~ChainAccepts /\ UNCHANGED faults
       \/ Fault("reject")
    /\ EndCycle
    /\ UNCHANGED <<chainVars, memory>>

\* Mutant: the submitted epoch is not remembered.
AcknowledgedForgotten ==
    /\ pc = "included"
    /\ lastSetBlock' = cyc.block
    /\ EndCycle
    /\ UNCHANGED <<chainVars, lastSubmittedEpoch, faults>>

\* set_weights returns: only now is the submission remembered.
Acknowledged ==
    /\ pc = "included"
    /\ lastSubmittedEpoch' = cyc.epoch
    /\ lastSetBlock' = cyc.block
    /\ EndCycle
    /\ UNCHANGED <<chainVars, faults>>

\* The chain included the extrinsic but the answer was an error.
LostAck ==
    /\ pc = "included"
    /\ Fault("lostAck")
    /\ EndCycle
    /\ UNCHANGED <<chainVars, memory>>

\* The container is restarted: Validator.__init__ runs again.
Restart ==
    /\ Fault("restart")
    /\ lastSubmittedEpoch' = Never
    /\ lastSetBlock' = Never
    /\ EndCycle
    /\ UNCHANGED chainVars

SetWeights ==
    \/ \E b \in {block, 0} : SkipEpoch(b) \/ OpenEpoch(b)
    \/ \E limit \in {RateLimit, DefaultRateLimit} :
            SkipCooldown(limit) \/ Attempt(limit)
    \/ Include \/ Rejected \/ Acknowledged \/ LostAck

Next == Tick \/ SetTempo \/ SkipCycle \/ TempoFromChain \/ SetWeights \/ Restart

Spec == Init /\ [][Next]_vars

-----------------------------------------------------------------------------
(* Properties *)

Inclusion == [at : Nat, decided : Nat, epoch : Nat]
Locals    == [tempo : Nat \ {0}, block : Nat, decided : Nat, epoch : Nat]

\* Every variable has its type: an epoch or a block the process remembers is a
\* natural number or the initial -1 / None of Validator.__init__.
TypeOK ==
    /\ block \in Nat /\ tempo \in Nat \ {0}
    /\ landed \in Seq(Inclusion)
    /\ lastSubmittedEpoch \in Nat \cup {Never}
    /\ lastSetBlock \in Nat \cup {Never}
    /\ pc \in {"idle", "block", "limit", "submit", "included"}
    /\ cyc \in Locals
    /\ idleFor \in Nat /\ faults \in Nat

\* README "one set_weights per epoch": no two weight vectors that reached the
\* chain were decided in the same chain epoch, however reads, blocks and
\* rejections interleave.  Relates what the chain holds to what the process
\* remembers of it, so it breaks when that memory is lost or late.
OncePerEpoch ==
    \A i, j \in 1..Len(landed) :
        i # j => landed[i].decided \div InitTempo # landed[j].decided \div InitTempo

FreshFrom == IF landed = <<>> THEN StartBlock ELSE landed[Len(landed)].at

\* The epoch loop never falls silent: the weights on chain are never older than
\* two epochs of the longest tempo while cycles keep running, whatever the
\* cooldown, a lost answer, a restart or a rejected call cost on the way.
FreshWeights ==
    \E t \in {InitTempo} \cup Tempos : block - FreshFrom <= 2 * t

\* Every weight vector beyond the first of an epoch is paid for by a fault: the
\* loop by itself (comment "Do NOT advance _last_submitted_epoch on rejection")
\* retries, but never repeats a submission that went through.
RepeatsAreFaults ==
    Len(landed) - Cardinality({landed[i].epoch : i \in 1..Len(landed)}) <= faults

\* The process writes to the chain what VoteLedger promises: its vectors carry
\* strictly increasing epochs, even while blocks and tempos cannot be read or
\* the tempo changes under it.
Epochs == [i \in 1..Len(landed) |-> landed[i].epoch]

Ledger == INSTANCE VoteLedger WITH votes <- Epochs

LedgerSpec == Ledger!Spec

\* Why it does: as long as no answer is lost and no restart forgets, every
\* landed epoch is one the process remembers or is about to be told of, and a
\* cycle past the "already attempted" return holds a later one.
LedgerInv ==
    /\ \A i \in 1..Len(landed) :
            \/ landed[i].epoch <= lastSubmittedEpoch
            \/ pc = "included" /\ i = Len(landed) /\ landed[i].epoch = cyc.epoch
    /\ \A i, j \in 1..Len(landed) : i < j => landed[i].epoch < landed[j].epoch
    /\ pc \in {"limit", "submit", "included"} => lastSubmittedEpoch < cyc.epoch
    /\ pc = "included" =>
            landed # <<>> /\ landed[Len(landed)].epoch = cyc.epoch

\* With every read answered and a constant tempo, the epoch a cycle computes is
\* the epoch of the chain at the height it decided at.
EpochIsTheChains ==
    /\ tempo = InitTempo
    /\ pc # "idle" => cyc.tempo = InitTempo
    /\ pc \in {"limit", "submit", "included"} =>
            cyc.epoch = cyc.decided \div InitTempo
    /\ \A i \in 1..Len(landed) :
            landed[i].epoch = landed[i].decided \div InitTempo
=============================================================================
