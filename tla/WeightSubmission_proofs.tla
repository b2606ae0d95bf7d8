----------------------- MODULE WeightSubmission_proofs -----------------------
(***************************************************************************)
(* Proofs about WeightSubmission, for every tempo, rate limit and height.  *)
(***************************************************************************)
EXTENDS WeightSubmission, FiniteSetTheorems, TLAPS

USE DEF Never

\* A fault does not change anything but the fault counter, which stays a number.
LEMMA FaultCounts ==
    ASSUME NEW kind, faults \in Nat, Fault(kind)
    PROVE  kind \in Faults /\ faults' \in Nat
BY DEF Fault

\* A height divided by a positive tempo is an epoch number.
LEMMA EpochIsNat ==
    ASSUME NEW b \in Nat, NEW t \in Nat \ {0}
    PROVE  b \div t \in Nat
OBVIOUS

\* What landed is a vector with an epoch number.
LEMMA LandedEpochs ==
    ASSUME NEW s \in Seq(Inclusion)
    PROVE  \A i \in 1..Len(s) : s[i].epoch \in Nat
<1>1. \A i \in 1..Len(s) : s[i] \in Inclusion
  OBVIOUS
<1>2. \A v \in Inclusion : v.epoch \in Nat
  BY DEF Inclusion
<1>3. QED
  BY <1>1, <1>2

\* Every variable keeps its type: the epochs and blocks remembered by the
\* process are natural numbers or the initial -1 / None.
THEOREM TypeCorrect == Spec => []TypeOK
<1>1. Init => TypeOK
  BY ConstantsAssumption DEF Init, TypeOK, NoCycle, Locals, Inclusion
<1>2. TypeOK /\ [Next]_vars => TypeOK'
  <2> SUFFICES ASSUME TypeOK, [Next]_vars PROVE TypeOK'
    OBVIOUS
  <2> USE ConstantsAssumption DEF TypeOK, chainVars, memory, Inclusion, Locals
  <2>1. CASE Tick
    BY <2>1 DEF Tick
  <2>2. CASE SetTempo
    BY <2>2, FaultCounts DEF SetTempo
  <2>3. CASE SkipCycle
    BY <2>3, FaultCounts DEF SkipCycle, EndCycle, NoCycle
  <2>4. CASE TempoFromChain
    <3>1. PICK t \in {tempo, DefaultTempo} :
               /\ cyc' = [NoCycle EXCEPT !.tempo = t]
               /\ \/ t = tempo /\ UNCHANGED faults
                  \/ t = DefaultTempo /\ Fault("tempoRead")
      BY <2>4 DEF TempoFromChain
    <3>2. cyc' \in Locals
      BY <3>1 DEF NoCycle
    <3>3. faults' \in Nat
      BY <3>1, FaultCounts
    <3>4. QED
      BY <2>4, <3>2, <3>3 DEF TempoFromChain
  <2>5. ASSUME NEW b \in {block, 0}, SkipEpoch(b) PROVE TypeOK'
    BY <2>5, FaultCounts DEF SkipEpoch, BlockRead, EndCycle, NoCycle
  <2>6. ASSUME NEW b \in {block, 0}, OpenEpoch(b) PROVE TypeOK'
    <3>1. b \div cyc.tempo \in Nat
      BY EpochIsNat
    <3>2. cyc' \in Locals
      BY <2>6, <3>1 DEF OpenEpoch
    <3>3. faults' \in Nat
      BY <2>6, FaultCounts DEF OpenEpoch, BlockRead
    <3>4. QED
      BY <2>6, <3>2, <3>3 DEF OpenEpoch
  <2>7. ASSUME NEW limit, SkipCooldown(limit) PROVE TypeOK'
    BY <2>7, FaultCounts DEF SkipCooldown, RateLimitRead, EndCycle, NoCycle
  <2>8. ASSUME NEW limit, Attempt(limit) PROVE TypeOK'
    BY <2>8, FaultCounts DEF Attempt, RateLimitRead
  <2>9. CASE Include
    <3>1. [at |-> block, decided |-> cyc.decided, epoch |-> cyc.epoch] \in Inclusion
      OBVIOUS
    <3>2. landed' \in Seq(Inclusion)
      BY <2>9, <3>1 DEF Include
    <3>3. QED
      BY <2>9, <3>2 DEF Include
  <2>10. CASE Rejected
    BY <2>10, FaultCounts DEF Rejected, EndCycle, NoCycle
  <2>11. CASE Acknowledged
    BY <2>11 DEF Acknowledged, EndCycle, NoCycle
  <2>12. CASE LostAck
    BY <2>12, FaultCounts DEF LostAck, EndCycle, NoCycle
  <2>13. CASE Restart
    BY <2>13, FaultCounts DEF Restart, EndCycle, NoCycle
  <2>14. CASE UNCHANGED vars
    BY <2>14 DEF vars
  <2>15. QED
    BY <2>1, <2>2, <2>3, <2>4, <2>5, <2>6, <2>7, <2>8, <2>9, <2>10, <2>11,
       <2>12, <2>13, <2>14 DEF Next, SetWeights
<1>3. QED
  BY <1>1, <1>2, PTL DEF Spec

-----------------------------------------------------------------------------
\* The answers that make a process forget: without them its memory covers every
\* vector it landed.
NothingForgotten == "restart" \notin Faults /\ "lostAck" \notin Faults

LEMMA LedgerInvInit == Init => LedgerInv
BY DEF Init, LedgerInv

LEMMA LedgerInvStep ==
    ASSUME NothingForgotten, TypeOK, LedgerInv, [Next]_vars
    PROVE  LedgerInv'
<1> USE DEF LedgerInv, chainVars, memory
<1>1. CASE Tick
  BY <1>1 DEF Tick
<1>2. CASE SetTempo
  BY <1>2 DEF SetTempo
<1>3. CASE SkipCycle
  BY <1>3 DEF SkipCycle, EndCycle
<1>4. CASE TempoFromChain
  BY <1>4 DEF TempoFromChain
<1>5. ASSUME NEW b, SkipEpoch(b) PROVE LedgerInv'
  BY <1>5 DEF SkipEpoch, EndCycle
<1>6. ASSUME NEW b \in {block, 0}, OpenEpoch(b) PROVE LedgerInv'
  <2>1. b \div cyc.tempo \in Nat
    BY EpochIsNat DEF TypeOK, Locals
  <2>2. lastSubmittedEpoch < b \div cyc.tempo
    BY <1>6, <2>1 DEF OpenEpoch, AlreadyAttempted, TypeOK
  <2>3. cyc'.epoch = b \div cyc.tempo
    BY <1>6 DEF OpenEpoch
  <2>4. QED
    BY <1>6, <2>2, <2>3 DEF OpenEpoch
<1>7. ASSUME NEW limit, SkipCooldown(limit) PROVE LedgerInv'
  BY <1>7 DEF SkipCooldown, EndCycle
<1>8. ASSUME NEW limit, Attempt(limit) PROVE LedgerInv'
  BY <1>8 DEF Attempt
<1>9. CASE Include
  <2> DEFINE new == [at |-> block, decided |-> cyc.decided, epoch |-> cyc.epoch]
  <2>1. /\ Len(landed') = Len(landed) + 1
        /\ landed'[Len(landed) + 1] = new
        /\ \A i \in 1..Len(landed) : landed'[i] = landed[i]
    BY <1>9 DEF Include, TypeOK
  <2>2. \A i \in 1..Len(landed) : landed[i].epoch <= lastSubmittedEpoch
    BY <1>9 DEF Include
  <2>3. \A i \in 1..Len(landed) : landed[i].epoch < cyc.epoch
    <3>1. \A i \in 1..Len(landed) : landed[i].epoch \in Nat
      BY LandedEpochs DEF TypeOK
    <3>2. lastSubmittedEpoch < cyc.epoch
      BY <1>9 DEF Include
    <3>3. QED
      BY <2>2, <3>1, <3>2 DEF TypeOK, Locals
  <2>4. /\ pc' = "included" /\ cyc' = cyc
        /\ lastSubmittedEpoch' = lastSubmittedEpoch
        /\ lastSubmittedEpoch < cyc.epoch
    BY <1>9 DEF Include
  <2>5. landed' # <<>>
    BY <2>1 DEF TypeOK
  <2> HIDE DEF LedgerInv
  <2>6. Len(landed) \in Nat
    BY DEF TypeOK
  <2>7. \A i \in 1..Len(landed') :
            \/ landed'[i].epoch <= lastSubmittedEpoch'
            \/ pc' = "included" /\ i = Len(landed') /\ landed'[i].epoch = cyc'.epoch
    BY <2>1, <2>2, <2>4, <2>6
  <2>8. \A i, j \in 1..Len(landed') :
            i < j => landed'[i].epoch < landed'[j].epoch
    <3>1. \A i, j \in 1..Len(landed) : i < j => landed[i].epoch < landed[j].epoch
      BY DEF LedgerInv
    <3>2. QED
      BY <2>1, <2>3, <2>6, <3>1
  <2>9. QED
    BY <2>1, <2>4, <2>5, <2>6, <2>7, <2>8 DEF LedgerInv
<1>10. CASE Rejected
  BY <1>10 DEF Rejected, EndCycle
<1>11. CASE Acknowledged
  <2>1. \A i \in 1..Len(landed) : landed[i].epoch \in Nat
    BY LandedEpochs DEF TypeOK
  <2>2. \A i \in 1..Len(landed) : landed[i].epoch <= cyc.epoch
    BY <1>11, <2>1 DEF Acknowledged, TypeOK, Locals
  <2>3. QED
    BY <1>11, <2>2 DEF Acknowledged, EndCycle
<1>12. CASE LostAck
  BY <1>12, FaultCounts DEF LostAck, NothingForgotten, Fault
<1>13. CASE Restart
  BY <1>13, FaultCounts DEF Restart, NothingForgotten, Fault
<1>14. CASE UNCHANGED vars
  BY <1>14 DEF vars
<1>15. QED
  BY <1>1, <1>2, <1>3, <1>4, <1>5, <1>6, <1>7, <1>8, <1>9, <1>10, <1>11,
     <1>12, <1>13, <1>14 DEF Next, SetWeights

\* A step of the epoch loop is one vote of the ledger, or none.
LEMMA LedgerStep ==
    ASSUME TypeOK, TypeOK', LedgerInv', [Next]_vars
    PROVE  [Ledger!Vote]_Epochs
<1>1. CASE Include
  <2>1. /\ Len(landed') = Len(landed) + 1
        /\ \A i \in 1..Len(landed) : landed'[i] = landed[i]
        /\ Len(landed) \in Nat
    BY <1>1 DEF Include, TypeOK
  <2>2. \A i \in 1..Len(landed') : landed'[i].epoch \in Nat
    BY LandedEpochs DEF TypeOK
  <2>3. Epochs' = [i \in 1..Len(landed') |-> landed'[i].epoch]
    BY DEF Epochs
  <2>4. Epochs' \in Seq(Nat) /\ Len(Epochs') = Len(landed')
    BY <2>1, <2>2, <2>3
  <2>5. Len(Epochs) = Len(landed)
    BY <2>1 DEF Epochs
  <2>6. \A i \in 1..Len(Epochs) :
            Epochs'[i] = Epochs[i] /\ Epochs[i] < Epochs'[Len(Epochs')]
    <3>1. \A i \in 1..Len(landed) : landed'[i].epoch < landed'[Len(landed')].epoch
      BY <2>1 DEF LedgerInv
    <3>2. QED
      BY <2>1, <2>3, <2>4, <2>5, <3>1 DEF Epochs
  <2>7. QED
    BY <2>1, <2>4, <2>5, <2>6 DEF Ledger!Vote
<1>2. CASE UNCHANGED landed
  BY <1>2 DEF Epochs
<1>3. [Next]_vars /\ ~Include => UNCHANGED landed
  BY DEF Next, SetWeights, Tick, SetTempo, SkipCycle, TempoFromChain, SkipEpoch,
         OpenEpoch, SkipCooldown, Attempt, Rejected, Acknowledged, LostAck,
         Restart, vars, chainVars
<1>4. QED
  BY <1>1, <1>2, <1>3

\* Unless an answer is lost or the process restarts, the weight vectors it
\* lands carry strictly increasing epochs, whatever reads fail, whatever the
\* chain rejects and however often the tempo changes.
THEOREM LedgerImplemented ==
    ASSUME NothingForgotten
    PROVE  Spec => LedgerSpec
<1>1. Init => Ledger!Init
  BY DEF Init, Epochs, Ledger!Init
<1>2. NothingForgotten /\ TypeOK /\ LedgerInv /\ [Next]_vars => LedgerInv'
  BY LedgerInvStep
<1>3. TypeOK /\ TypeOK' /\ LedgerInv' /\ [Next]_vars => [Ledger!Vote]_Epochs
  BY LedgerStep
<1>4. QED
  BY <1>1, <1>2, <1>3, TypeCorrect, LedgerInvInit, PTL
     DEF Spec, LedgerSpec, Ledger!Spec

-----------------------------------------------------------------------------
\* Every read answered, nothing forgotten, and the tempo left alone.
ReliableChain == Faults \subseteq {"skip", "reject", "rateRead"}

LEMMA EpochIsTheChainsStep ==
    ASSUME ReliableChain, TypeOK, EpochIsTheChains, [Next]_vars
    PROVE  EpochIsTheChains'
<1> USE DEF EpochIsTheChains, chainVars, memory
<1>1. CASE Tick
  BY <1>1 DEF Tick
<1>2. CASE SetTempo
  BY <1>2 DEF SetTempo, Fault, ReliableChain
<1>3. CASE SkipCycle
  BY <1>3 DEF SkipCycle, EndCycle
<1>4. CASE TempoFromChain
  <2>1. cyc' = [NoCycle EXCEPT !.tempo = InitTempo]
    BY <1>4 DEF TempoFromChain, Fault, ReliableChain
  <2>2. cyc'.tempo = InitTempo
    BY <2>1 DEF NoCycle
  <2>3. QED
    BY <1>4, <2>2 DEF TempoFromChain
<1>5. ASSUME NEW b, SkipEpoch(b) PROVE EpochIsTheChains'
  BY <1>5 DEF SkipEpoch, EndCycle
<1>6. ASSUME NEW b, OpenEpoch(b) PROVE EpochIsTheChains'
  <2>1. b = block
    BY <1>6 DEF OpenEpoch, BlockRead, Fault, ReliableChain
  <2>2. QED
    BY <1>6, <2>1 DEF OpenEpoch
<1>7. ASSUME NEW limit, SkipCooldown(limit) PROVE EpochIsTheChains'
  BY <1>7 DEF SkipCooldown, EndCycle
<1>8. ASSUME NEW limit, Attempt(limit) PROVE EpochIsTheChains'
  BY <1>8 DEF Attempt
<1>9. CASE Include
  <2>1. \A i \in 1..Len(landed') :
            landed'[i] = IF i \in 1..Len(landed) THEN landed[i]
                         ELSE [at |-> block, decided |-> cyc.decided,
                               epoch |-> cyc.epoch]
    BY <1>9 DEF Include, TypeOK
  <2>2. QED
    BY <1>9, <2>1 DEF Include
<1>10. CASE Rejected
  BY <1>10 DEF Rejected, EndCycle
<1>11. CASE Acknowledged
  BY <1>11 DEF Acknowledged, EndCycle
<1>12. CASE LostAck
  BY <1>12 DEF LostAck, EndCycle
<1>13. CASE Restart
  BY <1>13 DEF Restart, EndCycle
<1>14. CASE UNCHANGED vars
  BY <1>14 DEF vars
<1>15. QED
  BY <1>1, <1>2, <1>3, <1>4, <1>5, <1>6, <1>7, <1>8, <1>9, <1>10, <1>11,
     <1>12, <1>13, <1>14 DEF Next, SetWeights

\* On a reliable chain one process lands at most one weight vector per chain
\* epoch, for every tempo, rate limit and interleaving with the blocks.
THEOREM OnceEachEpoch ==
    ASSUME ReliableChain
    PROVE  Spec => []OncePerEpoch
<1>1. NothingForgotten
  BY DEF ReliableChain, NothingForgotten
<1>2. NothingForgotten /\ TypeOK /\ LedgerInv /\ [Next]_vars => LedgerInv'
  BY LedgerInvStep
<1>3. Init => EpochIsTheChains
  BY DEF Init, EpochIsTheChains
<1>4. ReliableChain /\ TypeOK /\ EpochIsTheChains /\ [Next]_vars => EpochIsTheChains'
  BY EpochIsTheChainsStep
<1>5. TypeOK /\ LedgerInv /\ EpochIsTheChains => OncePerEpoch
  <2> SUFFICES ASSUME TypeOK, LedgerInv, EpochIsTheChains,
                      NEW i \in 1..Len(landed), NEW j \in 1..Len(landed), i # j
               PROVE  landed[i].epoch # landed[j].epoch
    BY DEF EpochIsTheChains, OncePerEpoch
  <2>1. i < j \/ j < i
    BY DEF TypeOK
  <2>2. landed[i].epoch \in Nat /\ landed[j].epoch \in Nat
    BY LandedEpochs DEF TypeOK
  <2>3. QED
    BY <2>1, <2>2 DEF LedgerInv
<1>6. QED
  BY <1>1, <1>2, <1>3, <1>4, <1>5, TypeCorrect, LedgerInvInit, PTL DEF Spec

-----------------------------------------------------------------------------
\* The tempo stays what it is and can be read.
SteadyTempo == "setTempo" \notin Faults /\ "tempoRead" \notin Faults

Voted == {landed[i].epoch : i \in 1..Len(landed)}

\* A later epoch landed than the one remembered, and its answer is not on the way.
Forgotten ==
    \E e \in Voted : e > lastSubmittedEpoch /\ ~(pc = "included" /\ e <= cyc.epoch)

\* The cycle is about to submit for an epoch that is not the chain's.
Misread == pc \in {"limit", "submit"} /\ cyc.epoch # cyc.decided \div InitTempo

\* The repeats that faults of the past may still lead to.
OwedToPast  == IF Forgotten THEN 1 ELSE 0
OwedToCycle == IF Misread THEN 1 ELSE 0
Owed        == OwedToPast + OwedToCycle

\* With a steady tempo no epoch of the future has landed, and a cycle submits for the
\* chain's epoch or for epoch 0.
EpochsSoFar ==
    /\ tempo = InitTempo
    /\ pc # "idle" => cyc.tempo = InitTempo
    /\ cyc.decided <= block
    /\ \A e \in Voted : e \in Nat /\ e <= block \div InitTempo
    /\ pc \in {"limit", "submit", "included"} => lastSubmittedEpoch < cyc.epoch
    /\ pc \in {"limit", "submit"} =>
          /\ cyc.epoch \in {0, cyc.decided \div InitTempo}
          /\ \A e \in Voted : e <= cyc.decided \div InitTempo

RepeatInv ==
    /\ EpochsSoFar
    /\ IsFiniteSet(Voted)
    /\ Len(landed) - Cardinality(Voted) + Owed <= faults

\* A later height is not in an earlier epoch.
LEMMA EpochsGrow ==
    ASSUME NEW a \in Nat, NEW b \in Nat, a <= b, NEW t \in Nat \ {0}
    PROVE  a \div t <= b \div t
OBVIOUS

\* A step that lands nothing and forgets nothing may only misread, for a fault.
LEMMA QuietRepeats ==
    ASSUME TypeOK, RepeatInv, EpochsSoFar', UNCHANGED <<landed, lastSubmittedEpoch>>,
           pc # "included", pc' # "included", faults' \in Nat, faults <= faults',
           Misread' => Misread \/ faults < faults'
    PROVE  RepeatInv'
<1>1. Voted' = Voted /\ landed' = landed
  BY DEF Voted
<1>2. OwedToPast' = OwedToPast
  <2>1. Forgotten' <=> Forgotten
    BY <1>1 DEF Forgotten
  <2>2. QED
    BY <2>1 DEF OwedToPast
<1>3. OwedToCycle' \in {0, 1} /\ OwedToCycle \in {0, 1} /\ OwedToPast \in {0, 1}
  BY DEF OwedToCycle, OwedToPast
<1>4. OwedToCycle' <= OwedToCycle \/ faults < faults'
  <2>1. CASE Misread'
    BY <2>1, <1>3 DEF OwedToCycle
  <2>2. CASE ~Misread'
    BY <2>2, <1>3 DEF OwedToCycle
  <2>3. QED
    BY <2>1, <2>2
<1>5. IsFiniteSet(Voted)
      /\ Len(landed) - Cardinality(Voted) + (OwedToPast + OwedToCycle) <= faults
  BY DEF RepeatInv, Owed
<1>6. Len(landed) \in Int /\ Cardinality(Voted) \in Int /\ faults \in Nat
  BY <1>5, FS_CardinalityType DEF TypeOK
<1>7. Len(landed) - Cardinality(Voted) + (OwedToPast' + OwedToCycle') <= faults'
  BY <1>2, <1>3, <1>4, <1>5, <1>6
<1>8. QED
  BY <1>1, <1>5, <1>7 DEF RepeatInv, Owed

LEMMA IncludeAddsItsEpoch ==
    ASSUME TypeOK, Include
    PROVE  Len(landed') = Len(landed) + 1 /\ Voted' = Voted \cup {cyc.epoch}
<1> DEFINE new == [at |-> block, decided |-> cyc.decided, epoch |-> cyc.epoch]
<1>1. /\ Len(landed') = Len(landed) + 1 /\ Len(landed) \in Nat
      /\ landed'[Len(landed) + 1] = new
      /\ \A i \in 1..Len(landed) : landed'[i] = landed[i]
  BY DEF Include, TypeOK
<1>2. Voted' = {landed'[i].epoch : i \in 1..Len(landed')}
  BY DEF Voted
<1>3. 1..Len(landed') = 1..Len(landed) \cup {Len(landed) + 1}
  BY <1>1
<1>4. new.epoch = cyc.epoch
  OBVIOUS
<1> HIDE DEF new
<1>5. QED
  BY <1>1, <1>2, <1>3, <1>4 DEF Voted

\* Quiet steps keep an invariant of what has landed and of the cycle's locals.
LEMMA SameLandedKeepsEpochs ==
    ASSUME TypeOK, EpochsSoFar, block' \in Nat, block <= block', tempo' = tempo,
           landed' = landed,
           \/ pc' = "idle" /\ cyc' = NoCycle
           \/ pc' = pc /\ cyc' = cyc /\ UNCHANGED lastSubmittedEpoch
    PROVE  EpochsSoFar'
<1>1. Voted' = Voted
  BY DEF Voted
<1>2. InitTempo \in Nat \ {0} /\ block \in Nat
  BY ConstantsAssumption DEF TypeOK
<1>3. block \div InitTempo \in Nat /\ block' \div InitTempo \in Nat
      /\ block \div InitTempo <= block' \div InitTempo
  BY <1>2, EpochIsNat, EpochsGrow
<1>4. \A e \in Voted' : e \in Nat /\ e <= block' \div InitTempo
  BY <1>1, <1>3 DEF EpochsSoFar
<1>5. CASE pc' = "idle" /\ cyc' = NoCycle
  BY <1>2, <1>4, <1>5 DEF EpochsSoFar, NoCycle
<1>6. CASE pc' = pc /\ cyc' = cyc /\ UNCHANGED lastSubmittedEpoch
  BY <1>1, <1>2, <1>4, <1>6 DEF EpochsSoFar, TypeOK, Locals
<1>7. QED
  BY <1>5, <1>6

LEMMA EpochsSoFarStep ==
    ASSUME SteadyTempo, TypeOK, EpochsSoFar, [Next]_vars
    PROVE  EpochsSoFar'
<1> USE DEF chainVars, memory
<1>0. /\ InitTempo \in Nat \ {0} /\ block \in Nat /\ block + 1 \in Nat
      /\ block <= block + 1 /\ block <= block
  BY ConstantsAssumption DEF TypeOK
<1>1. CASE Tick
  BY <1>0, <1>1, SameLandedKeepsEpochs DEF Tick
<1>2. CASE SetTempo
  BY <1>2 DEF SetTempo, Fault, SteadyTempo
<1>3. CASE SkipCycle
  BY <1>0, <1>3, SameLandedKeepsEpochs DEF SkipCycle, EndCycle
<1>4. CASE TempoFromChain
  <2>1. cyc' = [NoCycle EXCEPT !.tempo = InitTempo]
    BY <1>4 DEF TempoFromChain, Fault, SteadyTempo, EpochsSoFar
  <2>2. cyc'.tempo = InitTempo /\ cyc'.decided = 0
    BY <2>1 DEF NoCycle
  <2>3. Voted' = Voted
    BY <1>4 DEF TempoFromChain, Voted
  <2>4. QED
    BY <1>0, <1>4, <2>2, <2>3 DEF TempoFromChain, EpochsSoFar
<1>5. ASSUME NEW b, SkipEpoch(b) PROVE EpochsSoFar'
  BY <1>0, <1>5, SameLandedKeepsEpochs DEF SkipEpoch, EndCycle
<1>6. ASSUME NEW b \in {block, 0}, OpenEpoch(b) PROVE EpochsSoFar'
  <2>1. cyc.tempo = InitTempo /\ Voted' = Voted
    BY <1>6 DEF OpenEpoch, EpochsSoFar, Voted
  <2>2. /\ cyc' = [tempo |-> InitTempo, block |-> b, decided |-> block,
                   epoch |-> b \div InitTempo]
        /\ pc' = "limit" /\ UNCHANGED <<block, tempo, lastSubmittedEpoch>>
        /\ ~(lastSubmittedEpoch >= b \div InitTempo)
    BY <1>6, <2>1 DEF OpenEpoch, AlreadyAttempted
  <2>3. b \div InitTempo \in Nat /\ (b = 0 => b \div InitTempo = 0)
    BY <1>0, EpochIsNat
  <2>4. lastSubmittedEpoch < b \div InitTempo
    BY <2>2, <2>3 DEF TypeOK
  <2>5. cyc'.epoch \in {0, block \div InitTempo}
    BY <2>2, <2>3
  <2>6. QED
    BY <1>0, <2>1, <2>2, <2>4, <2>5 DEF EpochsSoFar
<1>7. ASSUME NEW limit, SkipCooldown(limit) PROVE EpochsSoFar'
  BY <1>0, <1>7, SameLandedKeepsEpochs DEF SkipCooldown, EndCycle
<1>8. ASSUME NEW limit, Attempt(limit) PROVE EpochsSoFar'
  <2>1. Voted' = Voted
    BY <1>8 DEF Attempt, Voted
  <2>2. QED
    BY <1>8, <2>1 DEF Attempt, EpochsSoFar
<1>9. CASE Include
  <2>1. Voted' = Voted \cup {cyc.epoch}
    BY <1>9, IncludeAddsItsEpoch
  <2>2. cyc.epoch \in Nat /\ cyc.epoch <= block \div InitTempo
    <3>1. cyc.decided \in Nat /\ cyc.epoch \in Nat
      BY DEF TypeOK, Locals
    <3>2. cyc.decided \div InitTempo \in Nat /\ block \div InitTempo \in Nat
          /\ cyc.decided \div InitTempo <= block \div InitTempo
      BY <1>0, <3>1, EpochIsNat, EpochsGrow DEF EpochsSoFar
    <3>3. cyc.epoch \in {0, cyc.decided \div InitTempo}
      BY <1>9 DEF Include, EpochsSoFar
    <3>4. QED
      BY <3>1, <3>2, <3>3
  <2>3. QED
    BY <1>9, <2>1, <2>2 DEF Include, EpochsSoFar
<1>10. CASE Rejected
  BY <1>0, <1>10, SameLandedKeepsEpochs DEF Rejected, EndCycle
<1>11. CASE Acknowledged
  BY <1>0, <1>11, SameLandedKeepsEpochs DEF Acknowledged, EndCycle
<1>12. CASE LostAck
  BY <1>0, <1>12, SameLandedKeepsEpochs DEF LostAck, EndCycle
<1>13. CASE Restart
  BY <1>0, <1>13, SameLandedKeepsEpochs DEF Restart, EndCycle
<1>14. CASE UNCHANGED vars
  BY <1>0, <1>14, SameLandedKeepsEpochs DEF vars
<1>15. QED
  BY <1>1, <1>2, <1>3, <1>4, <1>5, <1>6, <1>7, <1>8, <1>9, <1>10, <1>11,
     <1>12, <1>13, <1>14 DEF Next, SetWeights

\* What a repeat costs: the epoch that lands again was forgotten, for a fault of the
\* past, or misread, for a fault of this cycle.
LEMMA IncludeRepeats ==
    ASSUME TypeOK, TypeOK', RepeatInv, EpochsSoFar', Include
    PROVE  RepeatInv'
<1>1. /\ pc = "submit" /\ pc' = "included"
      /\ UNCHANGED <<cyc, lastSubmittedEpoch, faults>>
  BY DEF Include, memory
<1>2. Len(landed') = Len(landed) + 1 /\ Voted' = Voted \cup {cyc.epoch}
  BY IncludeAddsItsEpoch
<1>3. /\ EpochsSoFar /\ IsFiniteSet(Voted)
      /\ Len(landed) - Cardinality(Voted) + (OwedToPast + OwedToCycle) <= faults
  BY DEF RepeatInv, Owed
<1>4. /\ Len(landed) \in Int /\ Cardinality(Voted) \in Int /\ faults \in Nat
      /\ OwedToPast \in {0, 1} /\ OwedToCycle \in {0, 1}
      /\ OwedToPast' \in {0, 1} /\ OwedToCycle' = 0
  <2>1. Len(landed) \in Int /\ Cardinality(Voted) \in Int /\ faults \in Nat
    BY <1>3, FS_CardinalityType DEF TypeOK
  <2>2. OwedToPast \in {0, 1} /\ OwedToCycle \in {0, 1} /\ OwedToPast' \in {0, 1}
    BY DEF OwedToPast, OwedToCycle
  <2>3. OwedToCycle' = 0
    BY <1>1 DEF OwedToCycle, Misread
  <2>4. QED
    BY <2>1, <2>2, <2>3
<1>5. /\ IsFiniteSet(Voted')
      /\ cyc.epoch \in Voted => Cardinality(Voted') = Cardinality(Voted)
      /\ cyc.epoch \notin Voted => Cardinality(Voted') = Cardinality(Voted) + 1
  <2>1. cyc.epoch \in Voted => Voted' = Voted
    BY <1>2
  <2>2. QED
    BY <1>2, <1>3, <2>1, FS_AddElement
<1>6. /\ lastSubmittedEpoch < cyc.epoch
      /\ cyc.epoch \in {0, cyc.decided \div InitTempo}
      /\ \A e \in Voted : e \in Nat /\ e <= cyc.decided \div InitTempo
      /\ cyc.epoch \in Nat
  BY <1>1, <1>3 DEF EpochsSoFar, TypeOK, Locals
<1>7. CASE Misread
  <2>1. OwedToCycle = 1
    BY <1>7 DEF OwedToCycle
  <2>2. OwedToPast' <= OwedToPast
    <3>1. ASSUME Forgotten' PROVE Forgotten
      <4>1. PICK e \in Voted' : e > lastSubmittedEpoch /\ ~(e <= cyc.epoch)
        BY <1>1, <3>1 DEF Forgotten
      <4>2. e \in Voted
        BY <1>2, <1>6, <4>1
      <4>3. QED
        BY <1>1, <4>1, <4>2 DEF Forgotten
    <3>2. QED
      BY <1>4, <3>1 DEF OwedToPast
  <2>3. Len(landed') - Cardinality(Voted') + (OwedToPast' + OwedToCycle') <= faults
    BY <1>2, <1>3, <1>4, <1>5, <2>1, <2>2
  <2>4. QED
    BY <1>1, <1>5, <2>3 DEF RepeatInv, Owed
<1>8. CASE ~Misread
  <2>1. cyc.epoch = cyc.decided \div InitTempo
    BY <1>1, <1>8 DEF Misread
  <2>2. OwedToPast' = 0
    <3>1. \A e \in Voted' : e <= cyc.epoch
      BY <1>2, <1>6, <2>1
    <3>2. ~Forgotten'
      BY <1>1, <3>1 DEF Forgotten
    <3>3. QED
      BY <3>2 DEF OwedToPast
  <2>3. cyc.epoch \in Voted => OwedToPast = 1
    <3>1. cyc.epoch \in Voted => Forgotten
      BY <1>1, <1>6 DEF Forgotten, TypeOK
    <3>2. QED
      BY <3>1 DEF OwedToPast
  <2>4. Len(landed') - Cardinality(Voted') + (OwedToPast' + OwedToCycle') <= faults
    BY <1>2, <1>3, <1>4, <1>5, <2>2, <2>3
  <2>5. QED
    BY <1>1, <1>5, <2>4 DEF RepeatInv, Owed
<1>9. QED
  BY <1>7, <1>8

\* A submission whose answer is not remembered, and a restart, forget at most what
\* one more repeat brings back.
LEMMA ForgettingRepeats ==
    ASSUME TypeOK, RepeatInv, EpochsSoFar', landed' = landed, pc' = "idle",
           faults' = faults + 1
    PROVE  RepeatInv'
<1>1. Voted' = Voted
  BY DEF Voted
<1>2. IsFiniteSet(Voted)
      /\ Len(landed) - Cardinality(Voted) + (OwedToPast + OwedToCycle) <= faults
  BY DEF RepeatInv, Owed
<1>3. /\ Len(landed) \in Int /\ Cardinality(Voted) \in Int /\ faults \in Nat
      /\ OwedToPast \in {0, 1} /\ OwedToCycle \in {0, 1}
      /\ OwedToPast' \in {0, 1} /\ OwedToCycle' = 0
  <2>1. Len(landed) \in Int /\ Cardinality(Voted) \in Int /\ faults \in Nat
    BY <1>2, FS_CardinalityType DEF TypeOK
  <2>2. OwedToPast \in {0, 1} /\ OwedToCycle \in {0, 1} /\ OwedToPast' \in {0, 1}
    BY DEF OwedToPast, OwedToCycle
  <2>3. OwedToCycle' = 0
    BY DEF OwedToCycle, Misread
  <2>4. QED
    BY <2>1, <2>2, <2>3
<1>4. Len(landed) - Cardinality(Voted) + (OwedToPast' + OwedToCycle') <= faults'
  BY <1>2, <1>3
<1>5. QED
  BY <1>1, <1>2, <1>4 DEF RepeatInv, Owed

\* An answer that arrives makes the process remember the latest epoch.
LEMMA AcknowledgedRepeats ==
    ASSUME TypeOK, RepeatInv, EpochsSoFar', Acknowledged
    PROVE  RepeatInv'
<1>1. /\ pc = "included" /\ pc' = "idle" /\ lastSubmittedEpoch' = cyc.epoch
      /\ UNCHANGED <<landed, faults>>
  BY DEF Acknowledged, EndCycle, chainVars
<1>2. Voted' = Voted
  BY <1>1 DEF Voted
<1>3. /\ lastSubmittedEpoch < cyc.epoch /\ \A e \in Voted : e \in Nat
      /\ IsFiniteSet(Voted)
      /\ Len(landed) - Cardinality(Voted) + (OwedToPast + OwedToCycle) <= faults
  BY <1>1 DEF RepeatInv, EpochsSoFar, Owed
<1>4. OwedToPast' = OwedToPast
  <2>1. ASSUME NEW e \in Voted
        PROVE  e > cyc.epoch <=> e > lastSubmittedEpoch /\ ~(e <= cyc.epoch)
    BY <1>3 DEF TypeOK, Locals
  <2>2. Forgotten' <=> Forgotten
    BY <1>1, <1>2, <2>1 DEF Forgotten
  <2>3. QED
    BY <2>2 DEF OwedToPast
<1>5. OwedToCycle' = OwedToCycle
  BY <1>1 DEF OwedToCycle, Misread
<1>6. QED
  BY <1>1, <1>2, <1>3, <1>4, <1>5 DEF RepeatInv, Owed

LEMMA RepeatInvStep ==
    ASSUME SteadyTempo, TypeOK, TypeOK', RepeatInv, [Next]_vars
    PROVE  RepeatInv'
<1>0. EpochsSoFar'
  BY EpochsSoFarStep DEF RepeatInv
<1> USE DEF chainVars, memory
<1>1. /\ faults \in Nat /\ faults <= faults
      /\ \A kind : Fault(kind) => faults' \in Nat /\ faults' = faults + 1
  BY DEF TypeOK, Fault
<1>2. ASSUME UNCHANGED <<landed, lastSubmittedEpoch>>, pc # "included",
             pc' # "included", UNCHANGED faults \/ \E kind : Fault(kind),
             Misread' => Misread \/ \E kind : Fault(kind)
      PROVE  RepeatInv'
  <2>1. faults' \in Nat /\ faults <= faults'
        /\ ((\E kind : Fault(kind)) => faults < faults')
    BY <1>1, <1>2
  <2>2. QED
    BY <1>0, <1>2, <2>1, QuietRepeats
<1>3. CASE Tick
  <2>1. CASE pc = "included"
    <3>1. Voted' = Voted /\ (Forgotten' <=> Forgotten) /\ (Misread' <=> Misread)
      BY <1>3 DEF Tick, Voted, Forgotten, Misread
    <3>2. Owed' = Owed
      BY <3>1 DEF Owed, OwedToPast, OwedToCycle
    <3>3. QED
      BY <1>0, <1>3, <3>1, <3>2 DEF Tick, RepeatInv
  <2>2. CASE pc # "included"
    BY <1>2, <1>3, <2>2 DEF Tick, Misread
  <2>3. QED
    BY <2>1, <2>2
<1>4. CASE SetTempo
  BY <1>4 DEF SetTempo, Fault, SteadyTempo
<1>5. CASE SkipCycle
  BY <1>2, <1>5 DEF SkipCycle, EndCycle, Misread
<1>6. CASE TempoFromChain
  BY <1>2, <1>6 DEF TempoFromChain, Misread
<1>7. ASSUME NEW b, SkipEpoch(b) PROVE RepeatInv'
  BY <1>2, <1>7 DEF SkipEpoch, BlockRead, EndCycle, Misread
<1>8. ASSUME NEW b, OpenEpoch(b) PROVE RepeatInv'
  <2>1. ASSUME UNCHANGED faults PROVE ~Misread'
    <3>1. b = block
      BY <1>1, <1>8, <2>1 DEF OpenEpoch, BlockRead
    <3>2. cyc.tempo = InitTempo
      BY <1>8 DEF OpenEpoch, RepeatInv, EpochsSoFar
    <3>3. QED
      BY <1>8, <3>1, <3>2 DEF OpenEpoch, Misread
  <2>2. UNCHANGED faults \/ Fault("blockRead")
    BY <1>8 DEF OpenEpoch, BlockRead
  <2>3. QED
    BY <1>2, <1>8, <2>1, <2>2 DEF OpenEpoch
<1>9. ASSUME NEW limit, SkipCooldown(limit) PROVE RepeatInv'
  BY <1>2, <1>9 DEF SkipCooldown, RateLimitRead, EndCycle, Misread
<1>10. ASSUME NEW limit, Attempt(limit) PROVE RepeatInv'
  BY <1>2, <1>10 DEF Attempt, RateLimitRead, Misread
<1>11. CASE Include
  BY <1>0, <1>11, IncludeRepeats
<1>12. CASE Rejected
  BY <1>2, <1>12 DEF Rejected, EndCycle, Misread
<1>13. CASE Acknowledged
  BY <1>0, <1>13, AcknowledgedRepeats
<1>14. CASE LostAck
  BY <1>0, <1>1, <1>14, ForgettingRepeats DEF LostAck, EndCycle
<1>15. CASE Restart
  BY <1>0, <1>1, <1>15, ForgettingRepeats DEF Restart, EndCycle
<1>16. CASE UNCHANGED vars
  <2>1. Voted' = Voted /\ (Forgotten' <=> Forgotten) /\ (Misread' <=> Misread)
    BY <1>16 DEF vars, Voted, Forgotten, Misread
  <2>2. Owed' = Owed
    BY <2>1 DEF Owed, OwedToPast, OwedToCycle
  <2>3. QED
    BY <1>0, <1>16, <2>1, <2>2 DEF vars, RepeatInv
<1>17. QED
  BY <1>3, <1>4, <1>5, <1>6, <1>7, <1>8, <1>9, <1>10, <1>11, <1>12, <1>13, <1>14,
     <1>15, <1>16 DEF Next, SetWeights

\* The epoch stays open until set_weights returns (validator.py, "Do NOT advance
\* _last_submitted_epoch on rejection"), so a vector may land twice for an epoch; with
\* a steady tempo each such repeat has a fault of its own, for any number of crashes,
\* lost answers, rejections and failed reads.
THEOREM RepeatsHaveCauses ==
    ASSUME SteadyTempo
    PROVE  Spec => []RepeatsAreFaults
<1>1. Init => RepeatInv
  <2> SUFFICES ASSUME Init PROVE RepeatInv
    OBVIOUS
  <2>1. /\ landed = <<>> /\ Len(landed) = 0 /\ pc = "idle" /\ faults = 0
        /\ tempo = InitTempo /\ cyc.decided = 0 /\ block \in Nat
    BY ConstantsAssumption DEF Init, NoCycle
  <2>2. Voted = {} /\ IsFiniteSet(Voted) /\ Cardinality(Voted) = 0
    <3>1. Voted = {}
      BY <2>1 DEF Voted
    <3>2. IsFiniteSet({}) /\ Cardinality({}) = 0
      BY FS_EmptySet
    <3>3. QED
      BY <3>1, <3>2
  <2>3. OwedToPast = 0 /\ OwedToCycle = 0
    BY <2>1, <2>2 DEF OwedToPast, OwedToCycle, Forgotten, Misread
  <2>4. QED
    BY <2>1, <2>2, <2>3 DEF RepeatInv, EpochsSoFar, Owed
<1>2. SteadyTempo /\ TypeOK /\ TypeOK' /\ RepeatInv /\ [Next]_vars => RepeatInv'
  BY RepeatInvStep
<1>3. TypeOK /\ RepeatInv => RepeatsAreFaults
  <2> SUFFICES ASSUME TypeOK, RepeatInv PROVE RepeatsAreFaults
    OBVIOUS
  <2>1. IsFiniteSet(Voted)
        /\ Len(landed) - Cardinality(Voted) + (OwedToPast + OwedToCycle) <= faults
    BY DEF RepeatInv, Owed
  <2>2. OwedToPast \in {0, 1} /\ OwedToCycle \in {0, 1}
    BY DEF OwedToPast, OwedToCycle
  <2>3. Len(landed) \in Int /\ Cardinality(Voted) \in Int /\ faults \in Nat
    BY <2>1, FS_CardinalityType DEF TypeOK
  <2>4. Len(landed) - Cardinality(Voted) <= faults
    BY <2>1, <2>2, <2>3
  <2>5. QED
    BY <2>4 DEF RepeatsAreFaults, Voted
<1>4. QED
  BY <1>1, <1>2, <1>3, TypeCorrect, PTL DEF Spec

-----------------------------------------------------------------------------
\* An epoch outlasts a cooldown and a cycle, and one cycle more than there are faults.
EpochsOutlastFaults ==
    /\ RateLimit + CycleBlocks <= InitTempo
    /\ DefaultRateLimit + CycleBlocks <= InitTempo
    /\ CycleBlocks < InitTempo
    /\ CycleBlocks * (MaxFaults + 1) <= InitTempo + 1

\* The height at which the last cycle ended.
CycleStart == block - idleFor

\* Nothing the process remembers lies after the vector the chain holds.
RemembersThePast ==
    /\ \A i \in 1..Len(landed) : landed[i].at <= FreshFrom
    /\ lastSubmittedEpoch <= FreshFrom \div InitTempo
    /\ lastSetBlock <= FreshFrom
    /\ lastSubmittedEpoch = Never => lastSetBlock = Never

\* Where a cycle past the "already attempted" return stands.
Decided ==
    /\ pc \in {"limit", "submit", "included"} =>
          /\ cyc.block \in {0, cyc.decided}
          /\ cyc.epoch = cyc.block \div InitTempo
          /\ CycleStart <= cyc.decided /\ cyc.decided <= block
    /\ pc = "included" => cyc.decided <= FreshFrom

\* A cycle that starts an epoch after the last vector or later, is late for a fault.
LateForFaults == CycleStart <= FreshFrom + InitTempo - 1 + CycleBlocks * faults

FreshInv ==
    /\ FreshFrom <= block /\ idleFor <= CycleBlocks /\ faults <= MaxFaults
    /\ RemembersThePast /\ Decided /\ LateForFaults

LEMMA FreshFromIsHeight ==
    ASSUME TypeOK
    PROVE  FreshFrom \in Nat
<1>1. CASE landed = <<>>
  BY <1>1, ConstantsAssumption DEF FreshFrom
<1>2. CASE landed # <<>>
  <2>1. landed[Len(landed)] \in Inclusion
    BY <1>2 DEF TypeOK
  <2>2. QED
    BY <1>2, <2>1 DEF FreshFrom, Inclusion
<1>3. QED
  BY <1>1, <1>2

\* One epoch after a height the next epoch has begun.
LEMMA NextEpochBegins ==
    ASSUME NEW a \in Nat, NEW b \in Nat, NEW t \in Nat \ {0}, a + t <= b
    PROVE  a \div t < b \div t
<1>1. (a + t) \div t = a \div t + 1 /\ a \div t \in Nat
  OBVIOUS
<1>2. (a + t) \div t <= b \div t
  BY EpochsGrow
<1>3. b \div t \in Nat
  BY EpochIsNat
<1>4. QED
  BY <1>1, <1>2, <1>3

\* The blocks the faults so far may have cost.
LEMMA FaultBlocks ==
    ASSUME NEW c \in Nat, NEW f \in Nat, NEW m \in Nat, f <= m
    PROVE  /\ c * f \in Nat /\ c * (f + 1) = c * f + c
           /\ c * (f + 1) <= c * (m + 1)
<1>1. c * f \in Nat /\ c * (f + 1) = c * f + c
  OBVIOUS
<1>2. PICK d \in Nat : m = f + d
  <2>1. m - f \in Nat /\ m = f + (m - f)
    OBVIOUS
  <2>2. QED
    BY <2>1
<1>3. c * (m + 1) = c * (f + 1) + c * d /\ c * d \in Nat
  BY <1>2
<1>4. c * (f + 1) \in Nat
  OBVIOUS
<1>5. QED
  BY <1>1, <1>3, <1>4

\* A cycle that ends without a fault must end within an epoch of the last vector.
LEMMA CycleEnds ==
    ASSUME TypeOK, FreshInv, UNCHANGED <<landed, block>>, pc' = "idle", idleFor' = 0,
           RemembersThePast',
           \/ \E kind : Fault(kind)
           \/ UNCHANGED faults /\ block <= FreshFrom + InitTempo - 1
    PROVE  FreshInv'
<1>1. /\ FreshFrom \in Nat /\ FreshFrom' = FreshFrom
      /\ block \in Nat /\ block' = block /\ idleFor \in Nat /\ faults \in Nat
      /\ InitTempo \in Nat \ {0} /\ CycleBlocks \in Nat /\ MaxFaults \in Nat
  BY FreshFromIsHeight, ConstantsAssumption DEF TypeOK, FreshFrom
<1>2. /\ CycleStart' = block /\ block <= CycleStart + CycleBlocks
      /\ CycleStart \in Int
      /\ CycleStart <= FreshFrom + InitTempo - 1 + CycleBlocks * faults
  BY <1>1 DEF CycleStart, FreshInv, LateForFaults
<1>3. /\ CycleBlocks * faults \in Nat
      /\ CycleBlocks * (faults + 1) = CycleBlocks * faults + CycleBlocks
  BY <1>1, FaultBlocks DEF FreshInv
<1>4. LateForFaults' /\ faults' <= MaxFaults
  <2>1. CASE \E kind : Fault(kind)
    <3>1. faults' = faults + 1 /\ faults' <= MaxFaults
      BY <1>1, <2>1 DEF Fault
    <3>2. CycleStart' <= FreshFrom + InitTempo - 1 + CycleBlocks * faults'
      BY <1>1, <1>2, <1>3, <3>1
    <3>3. QED
      BY <1>1, <3>1, <3>2 DEF LateForFaults
  <2>2. CASE UNCHANGED faults /\ block <= FreshFrom + InitTempo - 1
    BY <1>1, <1>2, <1>3, <2>2 DEF LateForFaults, FreshInv
  <2>3. QED
    BY <2>1, <2>2
<1>5. QED
  BY <1>1, <1>4 DEF FreshInv, Decided

\* A cycle that goes on has lost nothing yet.
LEMMA CycleGoesOn ==
    ASSUME TypeOK, FreshInv, UNCHANGED <<landed, block, idleFor, memory>>, Decided',
           UNCHANGED faults \/ \E kind : Fault(kind)
    PROVE  FreshInv'
<1>1. /\ FreshFrom \in Nat /\ FreshFrom' = FreshFrom
      /\ block \in Nat /\ idleFor \in Nat /\ faults \in Nat
      /\ InitTempo \in Nat \ {0} /\ CycleBlocks \in Nat /\ MaxFaults \in Nat
  BY FreshFromIsHeight, ConstantsAssumption DEF TypeOK, FreshFrom
<1>2. faults' \in {faults, faults + 1} /\ faults' <= MaxFaults
  BY <1>1 DEF Fault, FreshInv
<1>3. /\ CycleBlocks * faults \in Nat
      /\ CycleBlocks * (faults + 1) = CycleBlocks * faults + CycleBlocks
  BY <1>1, FaultBlocks DEF FreshInv
<1>4. CycleStart' = CycleStart /\ CycleStart \in Int
  BY <1>1 DEF CycleStart
<1>5. CycleBlocks * faults' >= CycleBlocks * faults /\ CycleBlocks * faults' \in Nat
  <2>1. CASE faults' = faults
    BY <1>3, <2>1
  <2>2. CASE faults' = faults + 1
    <3>1. CycleBlocks * faults' = CycleBlocks * faults + CycleBlocks
      BY <1>3, <2>2
    <3>2. QED
      BY <1>1, <1>3, <3>1
  <2>3. QED
    BY <1>2, <2>1, <2>2
<1>6. LateForFaults'
  BY <1>1, <1>4, <1>5 DEF FreshInv, LateForFaults
<1>7. RemembersThePast'
  BY <1>1 DEF FreshInv, RemembersThePast, memory
<1>8. QED
  BY <1>1, <1>2, <1>6, <1>7 DEF FreshInv

\* What is forgotten or left as it was does not lie after the vector on the chain.
LEMMA SameMemory ==
    ASSUME TypeOK, RemembersThePast, landed' = landed,
           \/ UNCHANGED memory
           \/ lastSubmittedEpoch' = Never /\ lastSetBlock' = Never
    PROVE  RemembersThePast'
<1>1. FreshFrom' = FreshFrom /\ FreshFrom \in Nat
  BY FreshFromIsHeight DEF FreshFrom
<1>2. FreshFrom \div InitTempo \in Nat
  BY <1>1, EpochIsNat, ConstantsAssumption
<1>3. QED
  BY <1>1, <1>2 DEF RemembersThePast, memory

\* The cooldown ends a cycle only within an epoch of the last vector.
LEMMA CooldownEndsEarly ==
    ASSUME TypeOK, EpochsSoFar, FreshInv, EpochsOutlastFaults,
           NEW limit \in {RateLimit, DefaultRateLimit}, SkipCooldown(limit)
    PROVE  block <= FreshFrom + InitTempo - 1
<1>1. /\ FreshFrom \in Nat /\ block \in Nat /\ idleFor \in Nat
      /\ InitTempo \in Nat \ {0} /\ CycleBlocks \in Nat /\ limit \in Nat
      /\ limit + CycleBlocks <= InitTempo
  BY FreshFromIsHeight, ConstantsAssumption DEF TypeOK, EpochsOutlastFaults
<1>2. /\ pc = "limit" /\ lastSetBlock # Never /\ cyc.block - lastSetBlock < limit
      /\ lastSetBlock <= FreshFrom /\ lastSetBlock \in Nat
  BY DEF SkipCooldown, CoolingDown, FreshInv, RemembersThePast, TypeOK
<1>3. /\ cyc.block \in {0, cyc.decided} /\ cyc.epoch = cyc.block \div InitTempo
      /\ block - idleFor <= cyc.decided /\ idleFor <= CycleBlocks
      /\ cyc.decided \in Nat
  BY <1>2 DEF FreshInv, Decided, CycleStart, TypeOK, Locals
<1>4. cyc.block = cyc.decided
  <2>1. lastSubmittedEpoch \in Nat /\ lastSubmittedEpoch < cyc.epoch
    BY <1>2 DEF FreshInv, RemembersThePast, EpochsSoFar, TypeOK
  <2>2. cyc.block = 0 => cyc.epoch = 0
    BY <1>1, <1>3
  <2>3. QED
    BY <1>3, <2>1, <2>2
<1>5. QED
  BY <1>1, <1>2, <1>3, <1>4

\* With the chain's epoch open, a cycle goes on.
LEMMA SkippedEpochIsRecent ==
    ASSUME TypeOK, EpochsSoFar, FreshInv, SkipEpoch(block)
    PROVE  block <= FreshFrom + InitTempo - 1
<1>1. /\ FreshFrom \in Nat /\ block \in Nat /\ InitTempo \in Nat \ {0}
      /\ lastSubmittedEpoch <= FreshFrom \div InitTempo
  BY FreshFromIsHeight, ConstantsAssumption DEF TypeOK, FreshInv, RemembersThePast
<1>2. lastSubmittedEpoch >= block \div InitTempo
  BY DEF SkipEpoch, AlreadyAttempted, EpochsSoFar
<1>3. FreshFrom \div InitTempo \in Nat /\ block \div InitTempo \in Nat
      /\ lastSubmittedEpoch \in Int
  BY <1>1, EpochIsNat DEF TypeOK
<1>4. ~(FreshFrom + InitTempo <= block)
  BY <1>1, <1>2, <1>3, NextEpochBegins
<1>5. QED
  BY <1>1, <1>4

LEMMA FreshInvStep ==
    ASSUME SteadyTempo, EpochsOutlastFaults, TypeOK, TypeOK', EpochsSoFar, FreshInv,
           [Next]_vars
    PROVE  FreshInv'
<1> USE DEF chainVars, memory
<1>0. /\ FreshFrom \in Nat /\ block \in Nat /\ idleFor \in Nat /\ faults \in Nat
      /\ InitTempo \in Nat \ {0} /\ CycleBlocks \in Nat \ {0} /\ MaxFaults \in Nat
      /\ RateLimit \in Nat /\ DefaultRateLimit \in Nat
  BY FreshFromIsHeight, ConstantsAssumption DEF TypeOK
<1>1. CASE Tick
  <2>1. /\ block' = block + 1 /\ idleFor' = idleFor + 1 /\ idleFor' <= CycleBlocks
        /\ UNCHANGED <<landed, memory, pc, cyc, faults>>
    BY <1>0, <1>1 DEF Tick
  <2>2. CycleStart' = CycleStart /\ FreshFrom' = FreshFrom
    BY <1>0, <2>1 DEF CycleStart, FreshFrom
  <2>3. RemembersThePast' /\ LateForFaults'
    BY <2>1, <2>2, SameMemory DEF FreshInv, LateForFaults
  <2>4. Decided'
    BY <1>0, <2>1, <2>2 DEF FreshInv, Decided, TypeOK, Locals
  <2>5. QED
    BY <1>0, <2>1, <2>2, <2>3, <2>4 DEF FreshInv
<1>2. CASE SetTempo
  BY <1>2 DEF SetTempo, Fault, SteadyTempo
<1>3. ASSUME UNCHANGED <<landed, block>>, EndCycle,
             UNCHANGED memory \/ (lastSubmittedEpoch' = Never /\ lastSetBlock' = Never),
             \/ \E kind : Fault(kind)
             \/ UNCHANGED faults /\ block <= FreshFrom + InitTempo - 1
      PROVE  FreshInv'
  <2>1. RemembersThePast'
    BY <1>3, SameMemory DEF FreshInv
  <2>2. QED
    BY <1>3, <2>1, CycleEnds DEF EndCycle
<1>4. CASE SkipCycle
  BY <1>3, <1>4 DEF SkipCycle
<1>5. CASE TempoFromChain
  <2>1. pc' = "block"
    BY <1>5 DEF TempoFromChain
  <2>2. QED
    BY <1>5, <2>1, CycleGoesOn DEF TempoFromChain, Decided
<1>6. ASSUME NEW b \in {block, 0}, SkipEpoch(b) PROVE FreshInv'
  <2>1. CASE b = block
    BY <1>3, <1>6, <2>1, SkippedEpochIsRecent DEF SkipEpoch, BlockRead
  <2>2. CASE \E kind : Fault(kind)
    BY <1>3, <1>6, <2>2 DEF SkipEpoch
  <2>3. QED
    BY <1>6, <2>1, <2>2 DEF SkipEpoch, BlockRead
<1>7. ASSUME NEW b \in {block, 0}, OpenEpoch(b) PROVE FreshInv'
  <2>1. /\ pc' = "limit" /\ UNCHANGED <<landed, block, idleFor, memory>>
        /\ cyc' = [tempo |-> InitTempo, block |-> b, decided |-> block,
                   epoch |-> b \div InitTempo]
    BY <1>7 DEF OpenEpoch, EpochsSoFar
  <2>2. CycleStart' <= block /\ block' = block
    BY <1>0, <2>1 DEF CycleStart
  <2>3. Decided'
    BY <1>0, <2>1, <2>2 DEF Decided
  <2>4. QED
    BY <1>7, <2>1, <2>3, CycleGoesOn DEF OpenEpoch, BlockRead
<1>8. ASSUME NEW limit \in {RateLimit, DefaultRateLimit}, SkipCooldown(limit)
      PROVE  FreshInv'
  BY <1>3, <1>8, CooldownEndsEarly DEF SkipCooldown, RateLimitRead
<1>9. ASSUME NEW limit, Attempt(limit) PROVE FreshInv'
  <2>1. /\ pc = "limit" /\ pc' = "submit"
        /\ UNCHANGED <<landed, block, idleFor, memory, cyc>>
    BY <1>9 DEF Attempt
  <2>2. Decided'
    BY <2>1 DEF FreshInv, Decided, CycleStart
  <2>3. QED
    BY <1>9, <2>1, <2>2, CycleGoesOn DEF Attempt, RateLimitRead
<1>10. CASE Include
  <2>1. /\ pc = "submit" /\ pc' = "included"
        /\ UNCHANGED <<block, memory, cyc, idleFor, faults>>
        /\ landed' = Append(landed, [at |-> block, decided |-> cyc.decided,
                                     epoch |-> cyc.epoch])
    BY <1>10 DEF Include
  <2>2. FreshFrom' = block /\ FreshFrom <= block
    BY <1>0, <2>1 DEF FreshFrom, FreshInv, TypeOK
  <2>3. \A i \in 1..Len(landed') : landed'[i].at <= block
    <3>1. /\ \A i \in 1..Len(landed) : landed'[i] = landed[i]
          /\ 1..Len(landed') = 1..Len(landed) \cup {Len(landed) + 1}
          /\ landed'[Len(landed) + 1].at = block
      BY <2>1 DEF TypeOK
    <3>2. \A i \in 1..Len(landed) : landed[i].at <= FreshFrom /\ landed[i].at \in Nat
      <4>1. \A i \in 1..Len(landed) : landed[i] \in Inclusion
        BY DEF TypeOK
      <4>2. QED
        BY <4>1 DEF FreshInv, RemembersThePast, Inclusion
    <3>3. QED
      BY <1>0, <2>2, <3>1, <3>2
  <2>4. lastSubmittedEpoch <= block \div InitTempo
    <3>1. /\ FreshFrom \div InitTempo \in Nat /\ block \div InitTempo \in Nat
          /\ FreshFrom \div InitTempo <= block \div InitTempo
      BY <1>0, <2>2, EpochIsNat, EpochsGrow
    <3>2. QED
      BY <3>1 DEF FreshInv, RemembersThePast, TypeOK
  <2>5. RemembersThePast'
    BY <1>0, <2>1, <2>2, <2>3, <2>4 DEF FreshInv, RemembersThePast, TypeOK
  <2>6. Decided'
    BY <2>1, <2>2 DEF FreshInv, Decided, CycleStart
  <2>7. LateForFaults'
    <3>1. CycleStart' = CycleStart /\ CycleStart <= block /\ CycleStart \in Int
      BY <1>0, <2>1 DEF CycleStart
    <3>2. CycleBlocks * faults \in Nat
      BY <1>0, FaultBlocks DEF FreshInv
    <3>3. QED
      BY <1>0, <2>1, <2>2, <3>1, <3>2 DEF LateForFaults
  <2>8. QED
    BY <1>0, <2>1, <2>2, <2>5, <2>6, <2>7 DEF FreshInv
<1>11. CASE Rejected
  <2>1. CASE ~ChainAccepts /\ UNCHANGED faults
    <3>1. PICK i \in 1..Len(landed) : ~(block - landed[i].at >= RateLimit)
      BY <2>1 DEF ChainAccepts
    <3>2. landed[i].at \in Nat /\ landed[i].at <= FreshFrom
      <4>1. landed[i] \in Inclusion
        BY DEF TypeOK
      <4>2. QED
        BY <4>1 DEF FreshInv, RemembersThePast, Inclusion
    <3>3. block <= FreshFrom + InitTempo - 1
      BY <1>0, <3>1, <3>2 DEF EpochsOutlastFaults
    <3>4. QED
      BY <1>3, <1>11, <2>1, <3>3 DEF Rejected
  <2>2. CASE \E kind : Fault(kind)
    BY <1>3, <1>11, <2>2 DEF Rejected
  <2>3. QED
    BY <1>11, <2>1, <2>2 DEF Rejected
<1>12. CASE Acknowledged
  <2>1. /\ pc = "included" /\ lastSubmittedEpoch' = cyc.epoch /\ lastSetBlock' = cyc.block
        /\ EndCycle /\ UNCHANGED <<landed, block, faults>>
    BY <1>12 DEF Acknowledged
  <2>2. /\ cyc.block \in Nat /\ cyc.block <= FreshFrom /\ cyc.decided \in Nat
        /\ cyc.epoch = cyc.block \div InitTempo
        /\ block - idleFor <= cyc.decided /\ cyc.decided <= FreshFrom
    BY <1>0, <2>1 DEF FreshInv, Decided, CycleStart, TypeOK, Locals
  <2>3. cyc.epoch \in Nat /\ cyc.epoch <= FreshFrom \div InitTempo
    BY <1>0, <2>2, EpochIsNat, EpochsGrow
  <2>4. FreshFrom' = FreshFrom
    BY <2>1 DEF FreshFrom
  <2>5. RemembersThePast'
    BY <2>1, <2>2, <2>3, <2>4 DEF FreshInv, RemembersThePast
  <2>6. block <= FreshFrom + InitTempo - 1
    BY <1>0, <2>2 DEF FreshInv, EpochsOutlastFaults
  <2>7. QED
    BY <2>1, <2>5, <2>6, CycleEnds DEF EndCycle
<1>13. CASE LostAck
  BY <1>3, <1>13 DEF LostAck
<1>14. CASE Restart
  BY <1>3, <1>14 DEF Restart
<1>15. CASE UNCHANGED vars
  <2>1. Decided'
    BY <1>15 DEF vars, FreshInv, Decided, CycleStart, FreshFrom
  <2>2. QED
    BY <1>15, <2>1, CycleGoesOn DEF vars
<1>16. QED
  BY <1>1, <1>2, <1>4, <1>5, <1>6, <1>7, <1>8, <1>9, <1>10, <1>11, <1>12, <1>13,
     <1>14, <1>15 DEF Next, SetWeights

\* "set_weights once per chain epoch" (validator.py): with a steady tempo, and epochs
\* longer than what cooldown, cycles and faults cost, the vector on chain never gets
\* older than two epochs, whatever is skipped, rejected, lost, misread or forgotten.
THEOREM WeightsStayFresh ==
    ASSUME SteadyTempo, EpochsOutlastFaults
    PROVE  Spec => []FreshWeights
<1>1. Init => EpochsSoFar /\ FreshInv
  <2> SUFFICES ASSUME Init PROVE EpochsSoFar /\ FreshInv
    OBVIOUS
  <2>1. /\ landed = <<>> /\ pc = "idle" /\ faults = 0 /\ idleFor = 0
        /\ tempo = InitTempo /\ cyc.decided = 0 /\ block = StartBlock
        /\ lastSubmittedEpoch = Never /\ lastSetBlock = Never
        /\ StartBlock \in Nat /\ InitTempo \in Nat \ {0} /\ CycleBlocks \in Nat
        /\ MaxFaults \in Nat
    BY ConstantsAssumption DEF Init, NoCycle
  <2>2. EpochsSoFar
    BY <2>1 DEF EpochsSoFar, Voted
  <2>3. FreshFrom = StartBlock
    BY <2>1 DEF FreshFrom
  <2>4. StartBlock \div InitTempo \in Nat
    BY <2>1, EpochIsNat
  <2>5. RemembersThePast /\ Decided
    BY <2>1, <2>3, <2>4 DEF RemembersThePast, Decided
  <2>6. LateForFaults
    BY <2>1, <2>3 DEF LateForFaults, CycleStart
  <2>7. QED
    BY <2>1, <2>2, <2>3, <2>5, <2>6 DEF FreshInv
<1>2. SteadyTempo /\ TypeOK /\ EpochsSoFar /\ [Next]_vars => EpochsSoFar'
  BY EpochsSoFarStep
<1>3. SteadyTempo /\ EpochsOutlastFaults /\ TypeOK /\ TypeOK' /\ EpochsSoFar
      /\ FreshInv /\ [Next]_vars => FreshInv'
  BY FreshInvStep
<1>4. EpochsOutlastFaults /\ TypeOK /\ FreshInv => FreshWeights
  <2> SUFFICES ASSUME EpochsOutlastFaults, TypeOK, FreshInv PROVE FreshWeights
    OBVIOUS
  <2>1. /\ FreshFrom \in Nat /\ block \in Nat /\ idleFor \in Nat /\ faults \in Nat
        /\ InitTempo \in Nat \ {0} /\ CycleBlocks \in Nat /\ MaxFaults \in Nat
        /\ faults <= MaxFaults /\ idleFor <= CycleBlocks
    BY FreshFromIsHeight, ConstantsAssumption DEF TypeOK, FreshInv
  <2>2. /\ CycleBlocks * faults \in Nat /\ CycleBlocks * (MaxFaults + 1) \in Nat
        /\ CycleBlocks * faults + CycleBlocks <= CycleBlocks * (MaxFaults + 1)
    BY <2>1, FaultBlocks
  <2>3. block - idleFor <= FreshFrom + InitTempo - 1 + CycleBlocks * faults
    BY DEF FreshInv, LateForFaults, CycleStart
  <2>4. block - FreshFrom <= 2 * InitTempo
    BY <2>1, <2>2, <2>3 DEF EpochsOutlastFaults
  <2>5. QED
    BY <2>4 DEF FreshWeights
<1>5. QED
  BY <1>1, <1>2, <1>3, <1>4, TypeCorrect, PTL DEF Spec
=============================================================================
