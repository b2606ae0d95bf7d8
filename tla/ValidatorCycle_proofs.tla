------------------------ MODULE ValidatorCycle_proofs ------------------------
(***************************************************************************)
(* Proofs about ValidatorCycle, for every set of uids and hotkeys, every   *)
(* metagraph to start with, and any number of changes and faults.          *)
(***************************************************************************)
EXTENDS ValidatorCycle, SequenceTheorems, TLAPS

\* What TypeOK leaves out: uids hold hotkeys, locals and pages are records with
\* their fields, and only a publisher writes pages.
ShapeInv ==
    /\ \A u \in DOMAIN graph : graph[u] \in Hotkeys
    /\ \A u \in DOMAIN view.miners : view.miners[u] \in Hotkeys
    /\ view = [miners |-> view.miners, ready |-> view.ready]
    /\ pages = [json |-> pages.json, html |-> pages.html]
    /\ pc \in {"json", "html"} => publisher

TypeInv == TypeOK /\ ShapeInv

\* What a cycle has been counted as, phase by phase.
CountedInv ==
    /\ pc \in {"evidence", "card", "price", "score", "submit"} => outcomes = <<>>
    /\ pc = "record" => outcomes \in {<<>>, <<"set_weights">>}
    /\ pc \in {"json", "html"} => outcomes \in {<<"ok">>, <<"set_weights", "ok">>}

\* What a cycle knows it has seen during this very cycle, and what was the case
\* all the time it knows once it has read it.
SightInv ==
    /\ InCycle =>
        /\ \A u \in DOMAIN view.miners : <<u, view.miners[u]>> \in seen.at
        /\ view.ready \subseteq seen.ready /\ ready \subseteq seen.ready
        /\ seen.always \subseteq Deserving(graph, ready)
        /\ DOMAIN view.miners = {} \/ seen.always \subseteq Pairs(view.miners)
    /\ pc \in {"card", "price", "score", "submit"} =>
        \A p \in seen.always : p[2] \in view.ready
    /\ pc = "submit" => DOMAIN view.miners # {}

-----------------------------------------------------------------------------

LEMMA VectorType ==
    ASSUME ShapeInv
    PROVE  Vector \in [Uids -> Hotkeys \cup {Nobody}]
BY DEF ShapeInv, Vector

LEMMA TypeInvInit == Init => TypeInv
<1> SUFFICES ASSUME Init PROVE TypeInv
  OBVIOUS
<1>1. /\ DOMAIN graph \subseteq Uids
      /\ \A u \in DOMAIN graph : graph[u] \in Hotkeys
  BY CycleAssumption DEF Init
<1>2. Unpaid \in [Uids -> Hotkeys \cup {Nobody}]
  BY DEF Unpaid
<1>3. publisher \in BOOLEAN
  BY CycleAssumption DEF Init
<1>4. TypeOK
  <2>1. \A v \in {weights, shown, pages.json, pages.html} :
            v \in [Uids -> Hotkeys \cup {Nobody}]
    BY <1>2 DEF Init
  <2>2. {cooling, attempted, waits, holdsCard, publisher} \subseteq BOOLEAN
    BY <1>3, Zenon DEF Init
  <2>3. outcomes \in Seq(Skips \cup {"ok"})
    BY DEF Init
  <2>4. ready \subseteq Hotkeys
    BY DEF Init
  <2>5. QED
    BY <1>1, <2>1, <2>2, <2>3, <2>4 DEF Init, TypeOK
<1>5. ShapeInv
  BY <1>1 DEF Init, ShapeInv, NoView
<1>6. QED
  BY <1>4, <1>5 DEF TypeInv

\* Appending to a sequence of one element gives the sequence of two.
LEMMA AppendToOne ==
    ASSUME NEW S, NEW a \in S, NEW b \in S
    PROVE  Append(<<a>>, b) = <<a, b>>
<1>1. <<a>> \in Seq(S)
  OBVIOUS
<1>2. <<a, b>> \in Seq(S)
  OBVIOUS
<1>3. Len(<<a>>) = 1 /\ <<a>>[1] = a
  OBVIOUS
<1>4. Len(<<a, b>>) = 2 /\ <<a, b>>[1] = a /\ <<a, b>>[2] = b
  OBVIOUS
<1>5. Append(<<a>>, b) \in Seq(S) /\ Len(Append(<<a>>, b)) = 2
  BY <1>1, <1>3, AppendProperties
<1>6. Append(<<a>>, b)[1] = a /\ Append(<<a>>, b)[2] = b
  BY <1>1, <1>3, AppendProperties
<1>7. \A i \in 1..Len(<<a, b>>) : <<a, b>>[i] = Append(<<a>>, b)[i]
  BY <1>4, <1>6
<1>8. Len(<<a, b>>) = Len(Append(<<a>>, b))
  BY <1>4, <1>5
<1>9. QED
  BY <1>2, <1>5, <1>7, <1>8, SeqEqual

\* What an empty count and that of a rejected submission become.
LEMMA Counting ==
    ASSUME NEW count, count \in {<<>>, <<"set_weights">>}
    PROVE  Append(count, "ok") \in {<<"ok">>, <<"set_weights", "ok">>}
<1> DEFINE OfTwo(a, b) == Append(<<a>>, b) = <<a, b>>
<1>1. \A S : \A a, b \in S : OfTwo(a, b)
  BY AppendToOne, Zenon
<1>2. \A a, b \in {"set_weights", "ok"} : OfTwo(a, b)
  BY <1>1, Zenon
<1> HIDE DEF OfTwo
<1>3. OfTwo("set_weights", "ok")
  BY <1>2
<1>4. Append(<<"set_weights">>, "ok") = <<"set_weights", "ok">>
  BY <1>3 DEF OfTwo
<1>5. Append(<<>>, "ok") = <<"ok">>
  OBVIOUS
<1>6. QED
  BY <1>4, <1>5

LEMMA CountedInvStep ==
    ASSUME TypeInv, CountedInv, [Next]_vars
    PROVE  CountedInv'
<1> USE DEF CountedInv
<1>1. CASE Banner
  BY <1>1 DEF Banner, Phase
<1>2. CASE ReadMetagraph
  BY <1>2 DEF ReadMetagraph
<1>3. CASE ReadEvidence
  BY <1>3 DEF ReadEvidence, Phase, Skip
<1>4. CASE ResolveCard
  BY <1>4 DEF ResolveCard, Phase, Skip
<1>5. CASE FindPrice
  BY <1>5 DEF FindPrice, Phase, Skip
<1>6. CASE Score
  BY <1>6 DEF Score, Phase, Skip
<1>7. CASE SubmitNothing
  BY <1>7 DEF SubmitNothing, Phase
<1>8. CASE Accepted
  BY <1>8 DEF Accepted, Submits
<1>9. CASE Rejected
  BY <1>9 DEF Rejected, Submits, Phase
<1>10. CASE AnswerLost
  BY <1>10 DEF AnswerLost, Submits
<1>11. CASE Record
  <2>1. outcomes' \in {<<"ok">>, <<"set_weights", "ok">>}
    BY <1>11, Counting DEF Record
  <2>2. pc' \in {"json", "idle"}
    BY <1>11 DEF Record, Phase
  <2>3. QED
    BY <2>1, <2>2
<1>12. CASE PutJson
  BY <1>12 DEF PutJson, Phase
<1>13. CASE PutHtml
  BY <1>13 DEF PutHtml, Phase
<1>14. CASE World
  BY <1>14 DEF World, Register, Trim, ReadinessChanges, Changes
<1>15. CASE NewEpoch \/ CooldownOver
  BY <1>15 DEF NewEpoch, CooldownOver
<1>16. CASE Restart
  BY <1>16 DEF Restart
<1>17. CASE UNCHANGED vars
  BY <1>17 DEF vars
<1>18. QED
  BY <1>1, <1>2, <1>3, <1>4, <1>5, <1>6, <1>7, <1>8, <1>9, <1>10, <1>11, <1>12,
     <1>13, <1>14, <1>15, <1>16, <1>17 DEF Next, Cycle

LEMMA ShapeInvStep ==
    ASSUME TypeOK, ShapeInv, [Next]_vars
    PROVE  ShapeInv'
<1> USE DEF ShapeInv
<1>1. CASE Banner
  BY <1>1 DEF Banner, Phase, world
<1>2. CASE ReadMetagraph
  BY <1>2 DEF ReadMetagraph, Quiet, NoView, world
<1>3. CASE ReadEvidence
  BY <1>3 DEF ReadEvidence, Phase, Skip, Quiet, NoView, world
<1>4. CASE ResolveCard
  BY <1>4 DEF ResolveCard, Phase, Skip, NoView, world
<1>5. CASE FindPrice
  BY <1>5 DEF FindPrice, Phase, Skip, Quiet, NoView, world
<1>6. CASE Score
  BY <1>6 DEF Score, Phase, Skip, Quiet, NoView, world
<1>7. CASE SubmitNothing
  BY <1>7 DEF SubmitNothing, Phase, Quiet, world
<1>8. CASE Accepted
  BY <1>8 DEF Accepted
<1>9. CASE Rejected
  BY <1>9 DEF Rejected, Phase, Quiet, world
<1>10. CASE AnswerLost
  BY <1>10 DEF AnswerLost
<1>11. CASE Record
  BY <1>11 DEF Record, Phase, NoView, world
<1>12. CASE PutJson
  <2>1. pc' = "html" => publisher'
    BY <1>12 DEF PutJson, Phase
  <2>2. pages' = [json |-> pages'.json, html |-> pages'.html]
    BY <1>12 DEF PutJson
  <2>3. view' = view \/ view' = NoView
    BY <1>12 DEF PutJson
  <2>4. UNCHANGED graph /\ pc' \in {"html", "idle"}
    BY <1>12 DEF PutJson, Phase, world
  <2>5. QED
    BY <2>1, <2>2, <2>3, <2>4 DEF NoView
<1>13. CASE PutHtml
  BY <1>13 DEF PutHtml, Phase, NoView, world
<1>14. CASE World
  BY <1>14 DEF World, Register, Trim, ReadinessChanges, Changes
<1>15. CASE NewEpoch
  BY <1>15 DEF NewEpoch, world
<1>16. CASE CooldownOver
  BY <1>16 DEF CooldownOver
<1>17. CASE Restart
  BY <1>17 DEF Restart, NoView, world
<1>18. CASE UNCHANGED vars
  BY <1>18 DEF vars, world
<1>19. QED
  BY <1>1, <1>2, <1>3, <1>4, <1>5, <1>6, <1>7, <1>8, <1>9, <1>10, <1>11, <1>12,
     <1>13, <1>14, <1>15, <1>16, <1>17, <1>18 DEF Next, Cycle

LEMMA SightInvStep ==
    ASSUME TypeInv, SightInv, [Next]_vars
    PROVE  SightInv'
<1> USE DEF SightInv, InCycle, TypeInv
<1>1. CASE Banner
  BY <1>1 DEF Banner, Phase
<1>2. CASE ReadMetagraph
  <2>1. /\ seen'.at = Pairs(graph) /\ seen'.ready = ready
        /\ seen'.always = Deserving(graph, ready)
    BY <1>2 DEF ReadMetagraph, SeenNow
  <2>2. \/ view' = [miners |-> graph, ready |-> {}]
        \/ view' = NoView
    BY <1>2 DEF ReadMetagraph, NoView
  <2>3. /\ pc' \in {"evidence", "idle"}
        /\ UNCHANGED <<graph, ready>>
    BY <1>2 DEF ReadMetagraph, world
  <2>4. QED
    BY <2>1, <2>2, <2>3 DEF NoView, Pairs, Deserving
<1>3. CASE ReadEvidence
  <2>1. CASE pc' = "idle"
    BY <2>1
  <2>2. CASE pc' # "idle"
    <3>1. /\ pc = "evidence" /\ pc' = "card"
          /\ view' = [miners |-> view.miners, ready |-> ready]
          /\ UNCHANGED <<graph, ready, seen>>
      BY <1>3, <2>2 DEF ReadEvidence, Phase, Skip, world, ShapeInv
    <3>2. \A p \in seen.always : p[2] \in ready
      BY <3>1 DEF Deserving
    <3>3. QED
      BY <3>1, <3>2
  <2>3. QED
    BY <2>1, <2>2
<1>4. CASE ResolveCard
  BY <1>4 DEF ResolveCard, Phase, Skip, world
<1>5. CASE FindPrice
  BY <1>5 DEF FindPrice, Phase, Skip, world
<1>6. CASE Score
  BY <1>6 DEF Score, Phase, Skip, world
<1>7. CASE SubmitNothing
  BY <1>7 DEF SubmitNothing, Phase, world
<1>8. CASE Accepted
  BY <1>8 DEF Accepted, Submits
<1>9. CASE Rejected
  BY <1>9 DEF Rejected, Submits, Phase, world
<1>10. CASE AnswerLost
  BY <1>10 DEF AnswerLost, Submits
<1>11. CASE Record
  BY <1>11 DEF Record, Phase, world
<1>12. CASE PutJson
  BY <1>12 DEF PutJson, Phase, world
<1>13. CASE PutHtml
  BY <1>13 DEF PutHtml, Phase
<1>14. CASE World
  <2>1. Observed /\ UNCHANGED <<pc, view>>
    BY <1>14 DEF World, Register, Trim, ReadinessChanges, Changes
  <2>2. CASE ~InCycle
    BY <2>1, <2>2
  <2>3. CASE InCycle
    <3>1. /\ seen'.at = seen.at \cup Pairs(graph')
          /\ seen'.ready = seen.ready \cup ready'
          /\ seen'.always = seen.always \cap Deserving(graph', ready')
      BY <2>1, <2>3 DEF Observed
    <3>2. QED
      BY <2>1, <2>3, <3>1
  <2>4. QED
    BY <2>2, <2>3
<1>15. CASE NewEpoch
  BY <1>15 DEF NewEpoch, world
<1>16. CASE CooldownOver
  BY <1>16 DEF CooldownOver
<1>17. CASE Restart
  BY <1>17 DEF Restart
<1>18. CASE UNCHANGED vars
  BY <1>18 DEF vars, world
<1>19. QED
  BY <1>1, <1>2, <1>3, <1>4, <1>5, <1>6, <1>7, <1>8, <1>9, <1>10, <1>11, <1>12,
     <1>13, <1>14, <1>15, <1>16, <1>17, <1>18 DEF Next, Cycle

LEMMA SkipStep ==
    ASSUME TypeOK, NEW reason \in Skips, Skip(reason), Quiet
    PROVE  TypeOK'
<1>1. outcomes' \in Seq(Skips \cup {"ok"})
  BY AppendProperties DEF TypeOK, Skip
<1>2. /\ pc' = "idle"
      /\ UNCHANGED <<graph, ready, cooling, publisher, weights, attempted, waits,
                     holdsCard, shown, pages>>
  BY DEF Skip, Phase, Quiet, world, memory
<1>3. QED
  BY <1>1, <1>2 DEF TypeOK

LEMMA TypeOKStep ==
    ASSUME TypeOK, ShapeInv, [Next]_vars
    PROVE  TypeOK'
<1> USE VectorType DEF TypeOK, ShapeInv, world, memory
<1>1. CASE Banner
  BY <1>1 DEF Banner, Phase, Unpaid
<1>2. CASE ReadMetagraph
  <2>1. outcomes' \in Seq(Skips \cup {"ok"})
    <3>1. "unexpected" \in Skips \cup {"ok"}
      BY DEF Skips
    <3>2. \A S : \A e \in S : <<>> \in Seq(S) /\ <<e>> \in Seq(S)
      OBVIOUS
    <3>3. outcomes' \in {<<>>, <<"unexpected">>}
      BY <1>2 DEF ReadMetagraph
    <3>4. QED
      BY <3>1, <3>2, <3>3
  <2>2. pc' \in {"evidence", "idle"} /\ UNCHANGED <<world, publisher>> /\ Quiet
    BY <1>2 DEF ReadMetagraph
  <2>3. QED
    BY <2>1, <2>2 DEF Quiet
<1>3. CASE ReadEvidence
  <2>1. \/ Phase("card") /\ UNCHANGED outcomes
        \/ Skip("rancher") \/ Skip("unexpected")
    BY <1>3 DEF ReadEvidence
  <2>2. Quiet
    BY <1>3 DEF ReadEvidence
  <2>3. CASE Phase("card") /\ UNCHANGED outcomes
    BY <2>2, <2>3 DEF Phase, Quiet
  <2>4. QED
    BY <2>1, <2>2, <2>3, SkipStep DEF Skips
<1>4. CASE ResolveCard
  <2>1. CASE Skip("unexpected") /\ UNCHANGED holdsCard
    <3>1. Quiet
      BY <1>4, <2>1 DEF ResolveCard, Quiet
    <3>2. QED
      BY <2>1, <3>1, SkipStep DEF Skips
  <2>2. CASE holdsCard' = TRUE /\ Phase("price") /\ UNCHANGED outcomes
    BY <1>4, <2>2 DEF ResolveCard, Phase
  <2>3. QED
    BY <1>4, <2>1, <2>2 DEF ResolveCard
<1>5. CASE FindPrice
  <2>1. Quiet /\ pc = "price"
    BY <1>5 DEF FindPrice
  <2>2. CASE Phase("score") /\ UNCHANGED outcomes
    BY <2>1, <2>2 DEF Phase, Quiet
  <2>3. CASE Skip("price_feed")
    BY <2>1, <2>3, SkipStep DEF Skips
  <2>4. CASE Skip("unexpected")
    BY <2>1, <2>4, SkipStep DEF Skips
  <2>5. QED
    BY <1>5, <2>2, <2>3, <2>4 DEF FindPrice
<1>6. CASE Score
  <2>1. Quiet /\ pc = "score"
    BY <1>6 DEF Score
  <2>2. CASE Phase("submit") /\ UNCHANGED outcomes
    BY <2>1, <2>2 DEF Phase, Quiet
  <2>3. CASE Skip("scoring")
    BY <2>1, <2>3, SkipStep DEF Skips
  <2>4. QED
    BY <1>6, <2>2, <2>3 DEF Score
<1>7. CASE SubmitNothing
  BY <1>7 DEF SubmitNothing, Phase, Quiet
<1>8. CASE Accepted
  BY <1>8 DEF Accepted, Submits
<1>9. CASE Rejected
  BY <1>9 DEF Rejected, Submits, Phase, Skips, Quiet
<1>10. CASE AnswerLost
  BY <1>10 DEF AnswerLost, Submits, Skips
<1>11. CASE Record
  BY <1>11 DEF Record, Phase
<1>12. CASE PutJson
  BY <1>12 DEF PutJson, Phase
<1>13. CASE PutHtml
  BY <1>13 DEF PutHtml, Phase
<1>14. CASE World
  <2>1. ASSUME NEW u \in Uids, Register(u) PROVE TypeOK'
    <3>1. DOMAIN graph' \subseteq Uids
      BY <2>1 DEF Register
    <3>2. QED
      BY <2>1, <3>1 DEF Register, Changes
  <2>2. ASSUME NEW u \in Uids, Trim(u) PROVE TypeOK'
    <3>1. DOMAIN graph' \subseteq Uids
      BY <2>2 DEF Trim
    <3>2. weights' \in [Uids -> Hotkeys \cup {Nobody}]
      BY <2>2 DEF Trim
    <3>3. QED
      BY <2>2, <3>1, <3>2 DEF Trim, Changes
  <2>3. ASSUME NEW h \in Hotkeys, ReadinessChanges(h) PROVE TypeOK'
    BY <2>3 DEF ReadinessChanges, Changes
  <2>4. QED
    BY <1>14, <2>1, <2>2, <2>3 DEF World
<1>15. CASE NewEpoch
  BY <1>15 DEF NewEpoch
<1>16. CASE CooldownOver
  BY <1>16 DEF CooldownOver
<1>17. CASE Restart
  <2>1. shown' \in [Uids -> Hotkeys \cup {Nobody}]
    BY <1>17 DEF Restart, Unpaid
  <2>2. outcomes' \in Seq(Skips \cup {"ok"})
    BY <1>17 DEF Restart
  <2>3. /\ attempted' \in BOOLEAN /\ waits' \in BOOLEAN /\ holdsCard' \in BOOLEAN
        /\ pc' = "start"
    BY <1>17 DEF Restart
  <2>4. UNCHANGED <<graph, ready, cooling, weights, publisher, pages>>
    BY <1>17 DEF Restart
  <2>5. QED
    BY <2>1, <2>2, <2>3, <2>4
<1>18. CASE UNCHANGED vars
  BY <1>18 DEF vars
<1>19. QED
  BY <1>1, <1>2, <1>3, <1>4, <1>5, <1>6, <1>7, <1>8, <1>9, <1>10, <1>11, <1>12,
     <1>13, <1>14, <1>15, <1>16, <1>17, <1>18 DEF Next, Cycle

-----------------------------------------------------------------------------

LEMMA TypeInvariant == Spec => []TypeInv
<1>1. TypeInv /\ [Next]_vars => TypeInv'
  BY TypeOKStep, ShapeInvStep DEF TypeInv
<1>2. QED
  BY <1>1, TypeInvInit, PTL DEF Spec

LEMMA CountedInvariant == Spec => []CountedInv
<1>1. Init => CountedInv
  BY DEF Init, CountedInv
<1>2. QED
  BY <1>1, TypeInvariant, CountedInvStep, PTL DEF Spec

LEMMA SightInvariant == Spec => []SightInv
<1>1. Init => SightInv
  BY DEF Init, SightInv, InCycle
<1>2. QED
  BY <1>1, TypeInvariant, SightInvStep, PTL DEF Spec

\* Every variable of the cycle keeps its type, and nothing is scored without a
\* card, for every fleet and any number of faults.
THEOREM CycleTypeCorrect == Spec => []TypeOK
<1>1. TypeInv => TypeOK
  BY DEF TypeInv
<1>2. QED
  BY <1>1, TypeInvariant, PTL

\* Every cycle that ends was counted: once, or as a skip and as ok when its
\* submission was rejected.
THEOREM CountedOnce == Spec => EveryCycleCounted
<1> DEFINE Counted ==
        InCycle /\ pc' = "idle" =>
            \/ outcomes' = <<"ok">>
            \/ \E s \in Skips \ {"set_weights"} : outcomes' = <<s>>
            \/ outcomes' = <<"set_weights", "ok">>
<1>1. ASSUME CountedInv, [Next]_vars PROVE Counted
  <2> SUFFICES ASSUME InCycle, pc' = "idle" PROVE Counted
    OBVIOUS
  <2>1. CASE \E s \in Skips \ {"set_weights"} : Skip(s) /\ outcomes = <<>>
    <3>1. PICK s \in Skips \ {"set_weights"} : outcomes' = Append(<<>>, s)
      BY <2>1 DEF Skip
    <3>2. outcomes' = <<s>>
      BY <3>1 DEF Skips
    <3>3. QED
      BY <3>2
  <2>2. CASE Record
    BY <1>1, <2>2, Counting DEF Record, CountedInv
  <2>3. CASE PutJson \/ PutHtml
    BY <1>1, <2>3 DEF PutJson, PutHtml, CountedInv
  <2>4. \/ Record \/ PutJson \/ PutHtml
        \/ \E s \in Skips \ {"set_weights"} : Skip(s) /\ outcomes = <<>>
    <3>1. CASE ReadEvidence
      BY <1>1, <3>1 DEF ReadEvidence, Phase, Skips, CountedInv
    <3>2. CASE ResolveCard
      BY <1>1, <3>2 DEF ResolveCard, Phase, Skips, CountedInv
    <3>3. CASE FindPrice
      BY <1>1, <3>3 DEF FindPrice, Phase, Skips, CountedInv
    <3>4. CASE Score
      BY <1>1, <3>4 DEF Score, Phase, Skips, CountedInv
    <3>5. CASE Banner \/ ReadMetagraph
      BY <3>5 DEF Banner, ReadMetagraph, InCycle
    <3>6. CASE SubmitNothing \/ Accepted \/ Rejected \/ AnswerLost
      BY <3>6 DEF SubmitNothing, Accepted, Rejected, AnswerLost, Phase
    <3>7. CASE World \/ NewEpoch \/ CooldownOver \/ Restart
      BY <3>7 DEF World, Register, Trim, ReadinessChanges, Changes, NewEpoch,
                  CooldownOver, Restart, InCycle
    <3>8. CASE UNCHANGED vars
      BY <3>8 DEF vars, InCycle
    <3>9. QED
      BY <1>1, <3>1, <3>2, <3>3, <3>4, <3>5, <3>6, <3>7, <3>8 DEF Next, Cycle
  <2>5. QED
    BY <2>1, <2>2, <2>3, <2>4
<1>2. CountedInv /\ [Next]_vars => [Counted]_vars
  BY <1>1
<1>3. QED
  BY <1>2, CountedInvariant, PTL DEF Spec, EveryCycleCounted

\* The uid gauges always show the vector of one cycle.
THEOREM GaugesAreOfOneCycle == Spec => []GaugesOfOneCycle
<1>1. Init => GaugesOfOneCycle
  BY DEF Init, GaugesOfOneCycle, Unpaid
<1>2. ASSUME SightInv, GaugesOfOneCycle, [Next]_vars PROVE GaugesOfOneCycle'
  <2>1. CASE Record
    <3>1. \A u \in Uids : Vector[u] # Nobody =>
              /\ u \in DOMAIN view.miners /\ Vector[u] = view.miners[u]
              /\ Vector[u] \in view.ready
      BY DEF Vector
    <3>2. shown' = Vector /\ origin' = seen /\ InCycle
      BY <2>1 DEF Record, InCycle
    <3>3. QED
      BY <1>2, <3>1, <3>2 DEF SightInv, GaugesOfOneCycle
  <2>2. CASE Restart
    BY <2>2 DEF Restart, Unpaid, GaugesOfOneCycle
  <2>3. CASE UNCHANGED <<shown, origin>>
    BY <1>2, <2>3 DEF GaugesOfOneCycle
  <2>4. QED
    BY <1>2, <2>1, <2>2, <2>3
    DEF Next, Cycle, Banner, ReadMetagraph, ReadEvidence, ResolveCard, FindPrice,
        Score, SubmitNothing, Accepted, Rejected, AnswerLost, PutJson, PutHtml,
        World, Register, Trim, ReadinessChanges, Changes, NewEpoch, CooldownOver,
        Quiet, vars
<1>3. QED
  BY <1>1, <1>2, SightInvariant, PTL DEF Spec

\* A vector that reaches the chain pays who earned it in the cycle that
\* submitted it, and all who did throughout.
THEOREM PaidAsEarned == Spec => PaysWhoEarned
<1> DEFINE Paid ==
        pc = "submit" /\ pc' = "record" /\ weights' # weights =>
            /\ \A u \in Uids : weights'[u] # Nobody =>
                    <<u, weights'[u]>> \in seen.at /\ weights'[u] \in seen.ready
            /\ \A p \in seen'.always : weights'[p[1]] = p[2]
<1>1. ASSUME TypeInv, SightInv, [Next]_vars PROVE Paid
  <2> SUFFICES ASSUME pc = "submit", pc' = "record", weights' # weights PROVE Paid
    OBVIOUS
  <2>1. Accepted \/ AnswerLost
    BY <1>1
    DEF Next, Cycle, Banner, ReadMetagraph, ReadEvidence, ResolveCard, FindPrice,
        Score, SubmitNothing, Rejected, Record, PutJson, PutHtml, World, Register,
        Trim, ReadinessChanges, Changes, NewEpoch, CooldownOver, Restart, Quiet, vars
  <2>2. weights' = Vector /\ seen' = seen
    BY <2>1 DEF Accepted, AnswerLost
  <2>3. InCycle /\ DOMAIN view.miners # {}
    BY <1>1 DEF InCycle, SightInv
  <2>4. \A u \in Uids : Vector[u] # Nobody =>
            <<u, Vector[u]>> \in seen.at /\ Vector[u] \in seen.ready
    BY <1>1, <2>3 DEF Vector, SightInv
  <2>5. ASSUME NEW p \in seen.always PROVE Vector[p[1]] = p[2]
    <3>1. p \in Deserving(graph, ready) /\ p \in Pairs(view.miners)
      BY <1>1, <2>3 DEF SightInv
    <3>2. /\ p[1] \in Uids /\ p[1] \in DOMAIN view.miners
          /\ p[2] = view.miners[p[1]]
      BY <1>1, <3>1 DEF Deserving, Pairs, TypeInv, TypeOK
    <3>3. p[2] \in view.ready
      BY <1>1 DEF SightInv
    <3>4. QED
      BY <3>2, <3>3 DEF Vector
  <2>6. QED
    BY <2>2, <2>4, <2>5
<1>2. TypeInv /\ SightInv /\ [Next]_vars => [Paid]_vars
  BY <1>1
<1>3. QED
  BY <1>2, TypeInvariant, SightInvariant, PTL DEF Spec, PaysWhoEarned
=============================================================================
