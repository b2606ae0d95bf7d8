------------------------- MODULE CardExchange_proofs -------------------------
(***************************************************************************)
(* Proofs about CardExchange, for every set of classes, prices, readers    *)
(* and hand-written objects.                                               *)
(***************************************************************************)
EXTENDS CardExchange, TLAPS

-----------------------------------------------------------------------------
(* What a reader holds was published as one object. *)

\* One reader's triple is the one that one published object yields.
OneObject(triple) ==
    HoldsCard(triple) =>
        \E obj \in everPut :
            /\ Parses(obj)
            /\ [triple EXCEPT !.source = "published"] = ResolveCard(obj, NoCard)

TripleShape(triple) ==
    triple = [card |-> triple.card, floors |-> triple.floors,
              pricing |-> triple.pricing, source |-> triple.source]

AdoptedInv ==
    /\ last = [v \in Validators |-> last[v]]
    /\ store \in everPut
    /\ \A r \in Readers : TripleShape(last[r]) /\ OneObject(last[r])

\* Adopting an object that parses yields that object's triple.
LEMMA AdoptParsed ==
    ASSUME NEW obj \in everPut, NEW old, Parses(obj)
    PROVE  /\ TripleShape(ResolveCard(obj, old))
           /\ OneObject(ResolveCard(obj, old))
<1> DEFINE t == ResolveCard(obj, old)
<1>1. t = [card |-> ClampToEnvelope(obj.prices), floors |-> FloorsFromPayload(obj),
           pricing |-> PricingFromPayload(obj), source |-> "published"]
  BY DEF ResolveCard
<1>2. t = ResolveCard(obj, NoCard)
  BY DEF ResolveCard
<1>3. [t EXCEPT !.source = "published"] = t
  BY <1>1
<1>4. QED
  BY <1>1, <1>2, <1>3 DEF TripleShape, OneObject

\* Keeping the card of the previous cycle changes nothing but its source.
LEMMA KeepCached ==
    ASSUME NEW old, TripleShape(old), OneObject(old)
    PROVE  LET kept == [old EXCEPT !.source = "cache"]
           IN  TripleShape(kept) /\ OneObject(kept)
<1> DEFINE kept == [old EXCEPT !.source = "cache"]
<1>1. kept = [card |-> old.card, floors |-> old.floors, pricing |-> old.pricing,
              source |-> "cache"]
  BY DEF TripleShape
<1>2. [kept EXCEPT !.source = "published"] = [old EXCEPT !.source = "published"]
  BY <1>1 DEF TripleShape
<1>3. HoldsCard(kept) <=> HoldsCard(old)
  BY <1>1 DEF HoldsCard
<1>4. QED
  BY <1>1, <1>2, <1>3 DEF TripleShape, OneObject

LEMMA NoCardShape == TripleShape(NoCard) /\ OneObject(NoCard)
BY DEF TripleShape, OneObject, NoCard, HoldsCard, NoPrices

LEMMA AdoptedInvInit == Init => AdoptedInv
<1> SUFFICES ASSUME Init PROVE AdoptedInv
  OBVIOUS
<1>1. last = [v \in Validators |-> NoCard] /\ store \in everPut
  BY DEF Init
<1>2. \A r \in Readers : last[r] = NoCard
  BY <1>1 DEF Validators
<1>3. QED
  BY <1>1, <1>2, NoCardShape DEF AdoptedInv

\* Objects are only ever added to the history, and the store holds one of them.
LEMMA HistoryGrows ==
    ASSUME store \in everPut, [Next]_vars
    PROVE  everPut \subseteq everPut' /\ store' \in everPut'
<1>1. CASE UNCHANGED <<store, everPut>>
  BY <1>1
<1>2. ASSUME NEW obj, Put(obj) PROVE everPut \subseteq everPut' /\ store' \in everPut'
  BY <1>2 DEF Put
<1>3. CASE NextBlock
  BY <1>3, <1>1 DEF NextBlock
<1>4. CASE PublisherGet
  BY <1>4, <1>1 DEF PublisherGet
<1>5. CASE PublisherPut \/ PublisherPutBreaks
  BY <1>5, <1>1, <1>2 DEF PublisherPut, PublisherPutBreaks
<1>6. ASSUME NEW desired, ScriptGet(desired) PROVE UNCHANGED <<store, everPut>>
  BY <1>6 DEF ScriptGet
<1>7. CASE ScriptPut
  BY <1>7, <1>1, <1>2 DEF ScriptPut
<1>8. ASSUME NEW obj, HandEdit(obj) PROVE Put(obj)
  BY <1>8 DEF HandEdit
<1>9. ASSUME NEW r, ReaderCycle(r) PROVE UNCHANGED <<store, everPut>>
  BY <1>9 DEF ReaderCycle
<1>10. ASSUME NEW v, Restart(v) PROVE UNCHANGED <<store, everPut>>
  BY <1>10 DEF Restart
<1>11. CASE UNCHANGED vars
  BY <1>11, <1>1 DEF vars
<1>12. QED
  BY <1>1, <1>2, <1>3, <1>4, <1>5, <1>6, <1>7, <1>8, <1>9, <1>10, <1>11 DEF Next

\* A cycle of reader r leaves it with its old triple, that triple as a cache, or
\* the triple of the object in the store.
LEMMA ReaderOutcomes ==
    ASSUME NEW r \in Readers, ReaderCycle(r), AdoptedInv
    PROVE  /\ \A q \in Validators \ {r} : last'[q] = last[q]
           /\ \/ last'[r] = last[r]
              \/ last'[r] = [last[r] EXCEPT !.source = "cache"]
              \/ Parses(store) /\ last'[r] = ResolveCard(store, last[r])
           /\ last' = [v \in Validators |-> last'[v]]
<1>1. PICK obj \in {store, Unreadable} :
          last' = IF CardUnavailable(ResolveCard(obj, last[r]), last[r]) THEN last
                  ELSE [last EXCEPT ![r] = ResolveCard(obj, last[r])]
  BY DEF ReaderCycle
<1>2. last = [v \in Validators |-> last[v]] /\ r \in Validators
  BY DEF AdoptedInv, Validators
<1>3. CASE Parses(obj)
  <2>1. obj = store
    BY <1>1, <1>3 DEF Parses, Unreadable
  <2>2. QED
    BY <1>1, <1>2, <1>3, <2>1
<1>4. CASE ~Parses(obj) /\ HoldsCard(last[r])
  <2>1. ResolveCard(obj, last[r]) = [last[r] EXCEPT !.source = "cache"]
    BY <1>4 DEF ResolveCard
  <2>2. QED
    BY <1>1, <1>2, <2>1
<1>5. CASE ~Parses(obj) /\ ~HoldsCard(last[r])
  <2>1. ResolveCard(obj, last[r]).source = "default"
    BY <1>5 DEF ResolveCard
  <2>2. last' = last
    BY <1>1, <1>5, <2>1 DEF CardUnavailable
  <2>3. QED
    BY <1>2, <2>2
<1>6. QED
  BY <1>3, <1>4, <1>5

LEMMA AdoptedInvStep ==
    ASSUME AdoptedInv, [Next]_vars
    PROVE  AdoptedInv'
<1>1. everPut \subseteq everPut' /\ store' \in everPut'
  BY HistoryGrows DEF AdoptedInv
<1>2. \A t : OneObject(t) => OneObject(t)'
  BY <1>1 DEF OneObject
<1>3. ASSUME last' = [v \in Validators |-> last'[v]],
             \A r \in Readers : last'[r] = last[r]
      PROVE  AdoptedInv'
  BY <1>1, <1>2, <1>3 DEF AdoptedInv
<1>4. CASE NextBlock
  BY <1>3, <1>4 DEF NextBlock, AdoptedInv
<1>5. CASE PublisherGet \/ PublisherPutBreaks
  BY <1>3, <1>5 DEF PublisherGet, PublisherPutBreaks, AdoptedInv
<1>6. CASE PublisherPut
  <2>1. \A r \in Readers : last'[r] = last[r]
    BY <1>6, ExchangeAssumption DEF PublisherPut, AdoptedInv, Validators
  <2>2. last' = [v \in Validators |-> last'[v]]
    BY <1>6 DEF PublisherPut, AdoptedInv
  <2>3. QED
    BY <1>3, <2>1, <2>2
<1>7. ASSUME NEW desired, ScriptGet(desired) PROVE AdoptedInv'
  BY <1>3, <1>7 DEF ScriptGet, AdoptedInv
<1>8. CASE ScriptPut
  BY <1>3, <1>8 DEF ScriptPut, AdoptedInv
<1>9. ASSUME NEW obj, HandEdit(obj) PROVE AdoptedInv'
  BY <1>3, <1>9 DEF HandEdit, AdoptedInv
<1>10. ASSUME NEW r \in Readers, ReaderCycle(r) PROVE AdoptedInv'
  <2>1. TripleShape(last[r]) /\ OneObject(last[r]) /\ store \in everPut
    BY DEF AdoptedInv
  <2>2. TripleShape(last'[r]) /\ OneObject(last'[r])
    BY <1>10, <2>1, ReaderOutcomes, AdoptParsed, KeepCached
  <2>3. \A q \in Readers : TripleShape(last'[q]) /\ OneObject(last'[q])
    BY <1>10, <2>2, ReaderOutcomes DEF AdoptedInv, Validators
  <2>4. \A q \in Readers : TripleShape(last[q])' /\ OneObject(last[q])'
    BY <1>2, <2>3 DEF TripleShape, OneObject
  <2>5. last' = [v \in Validators |-> last'[v]]
    BY <1>10, ReaderOutcomes
  <2>6. QED
    BY <1>1, <2>4, <2>5 DEF AdoptedInv
<1>11. ASSUME NEW v \in Validators, Restart(v) PROVE AdoptedInv'
  <2>1. last' = [last EXCEPT ![v] = NoCard]
    BY <1>11 DEF Restart
  <2>2. \A q \in Readers : last'[q] = last[q] \/ last'[q] = NoCard
    BY <2>1 DEF AdoptedInv, Validators
  <2>3. \A q \in Readers : TripleShape(last'[q]) /\ OneObject(last'[q])
    BY <2>2, NoCardShape DEF AdoptedInv
  <2>4. \A q \in Readers : TripleShape(last[q])' /\ OneObject(last[q])'
    BY <1>2, <2>3 DEF TripleShape, OneObject
  <2>5. last' = [u \in Validators |-> last'[u]]
    BY <2>1 DEF AdoptedInv
  <2>6. QED
    BY <1>1, <2>4, <2>5 DEF AdoptedInv
<1>12. CASE UNCHANGED vars
  BY <1>3, <1>12 DEF vars, AdoptedInv
<1>13. QED
  BY <1>4, <1>5, <1>6, <1>7, <1>8, <1>9, <1>10, <1>11, <1>12 DEF Next

\* Through outages, flips, hand edits, races and restarts, the card, floors and
\* switches of every reader come from one published object; the compiled-in card
\* never becomes an adopted one.
THEOREM AdoptedAsPublished == Spec => []AdoptedWhole
<1>1. AdoptedInv /\ [Next]_vars => AdoptedInv'
  BY AdoptedInvStep
<1>2. AdoptedInv => AdoptedWhole
  BY DEF AdoptedInv, AdoptedWhole, OneObject
<1>3. QED
  BY <1>1, <1>2, AdoptedInvInit, PTL DEF Spec

-----------------------------------------------------------------------------
(* Whatever is published, readers stay in the envelope. *)

NumericInv ==
    /\ Numeric(store)
    /\ \A obj \in everPut : Numeric(obj)
    /\ script # Idle => Numeric(script.obj)

LEMMA PublishedIsNumeric ==
    ASSUME NEW height, NEW pricing
    PROVE  Numeric(PublishedCard(height, pricing))
<1>1. \A k \in DOMAIN Own[Publisher] : Own[Publisher][k] \in Int
  BY ExchangeAssumption DEF Validators
<1>2. \A x \in Int : Percent(75, x) \in Int
  BY DEF Percent
<1>3. \A k \in DOMAIN OwnFloors : OwnFloors[k] \in Int
  BY <1>1, <1>2, ExchangeAssumption DEF OwnFloors, PublisherFloors
<1>4. QED
  BY <1>1, <1>3 DEF Numeric, PublishedCard, BuildPriceCard

\* The script changes the switches only.
LEMMA FlipKeepsNumbers ==
    ASSUME NEW obj, Numeric(obj), NEW desired
    PROVE  Numeric([obj EXCEPT !.pricing = desired])
<1> DEFINE new == [obj EXCEPT !.pricing = desired]
<1>1. new.prices = obj.prices /\ new.floors = obj.floors
  OBVIOUS
<1>2. QED
  BY <1>1 DEF Numeric

LEMMA NumericInvInit == Init => NumericInv
BY PublishedIsNumeric DEF Init, NumericInv

LEMMA NumericInvStep ==
    ASSUME NumericInv, [Next]_vars
    PROVE  NumericInv'
<1> USE DEF NumericInv
<1>1. ASSUME NEW obj, Put(obj), Numeric(obj)
      PROVE  Numeric(store)' /\ \A o \in everPut' : Numeric(o)
  BY <1>1 DEF Put
<1>2. \A s : Numeric(s) <=> Numeric(s)'
  BY DEF Numeric
<1>3. CASE NextBlock
  BY <1>2, <1>3 DEF NextBlock
<1>4. CASE PublisherGet
  BY <1>2, <1>4 DEF PublisherGet
<1>5. CASE PublisherPut \/ PublisherPutBreaks
  <2>1. CASE UNCHANGED <<store, everPut>>
    BY <1>2, <1>5, <2>1 DEF PublisherPut, PublisherPutBreaks
  <2>2. ASSUME NEW height, Put(PublishedCard(height, pub.pricing))
        PROVE  NumericInv'
    <3>1. Numeric(store)' /\ \A o \in everPut' : Numeric(o)
      BY <1>1, <2>2, PublishedIsNumeric
    <3>2. script' = script
      BY <1>5 DEF PublisherPut, PublisherPutBreaks
    <3>3. QED
      BY <1>2, <3>1, <3>2
  <2>3. QED
    BY <1>5, <2>1, <2>2 DEF PublisherPut, PublisherPutBreaks
<1>6. ASSUME NEW desired, ScriptGet(desired) PROVE NumericInv'
  <2>1. script'.obj = [store EXCEPT !.pricing = desired]
    BY <1>6 DEF ScriptGet
  <2>2. Numeric(script'.obj)
    BY <2>1, FlipKeepsNumbers
  <2>3. QED
    BY <1>2, <1>6, <2>2 DEF ScriptGet
<1>7. CASE ScriptPut
  <2>1. script # Idle /\ script' = Idle
    BY <1>7 DEF ScriptPut, Idle
  <2>2. CASE UNCHANGED <<store, everPut>>
    BY <1>2, <2>1, <2>2
  <2>3. CASE Put(script.obj)
    BY <1>1, <1>2, <2>1, <2>3
  <2>4. QED
    BY <1>7, <2>2, <2>3 DEF ScriptPut
<1>8. ASSUME NEW obj \in HandEdits, HandEdit(obj) PROVE NumericInv'
  BY <1>1, <1>2, <1>8, ExchangeAssumption DEF HandEdit
<1>9. ASSUME NEW r, ReaderCycle(r) PROVE NumericInv'
  BY <1>2, <1>9 DEF ReaderCycle
<1>10. ASSUME NEW v, Restart(v) PROVE NumericInv'
  BY <1>2, <1>10 DEF Restart
<1>11. CASE UNCHANGED vars
  BY <1>2, <1>11 DEF vars
<1>12. QED
  BY <1>3, <1>4, <1>5, <1>6, <1>7, <1>8, <1>9, <1>10, <1>11 DEF Next

\* Dividing by 100 keeps the order of two natural numbers.
LEMMA HundredthsOrdered ==
    ASSUME NEW a \in Nat, NEW b \in Nat, a <= b
    PROVE  a \div 100 \in Nat /\ b \div 100 \in Nat /\ a \div 100 <= b \div 100
OBVIOUS

\* Clamping to a band lands in the band, whatever number is clamped.
LEMMA BandLands ==
    ASSUME NEW k \in Classes, NEW x \in Int, NEW lo \in {50, 80}
    PROVE  Band(lo, 125, k, x) \in
               Percent(lo, DefaultCard[k])..Percent(125, DefaultCard[k])
<1> DEFINE d == DefaultCard[k]
<1>1. d \in Nat
  BY CardAssumption
<1>2. lo * d \in Nat /\ 125 * d \in Nat /\ lo * d <= 125 * d
  <2>1. CASE lo = 50
    BY <1>1, <2>1
  <2>2. CASE lo = 80
    BY <1>1, <2>2
  <2>3. QED
    BY <2>1, <2>2
<1>3. /\ Percent(lo, d) \in Nat /\ Percent(125, d) \in Nat
      /\ Percent(lo, d) <= Percent(125, d)
  BY <1>2, HundredthsOrdered DEF Percent
<1>4. QED
  BY <1>3 DEF Band, Lesser, Greater

LEMMA ResolvedInEnvelope ==
    ASSUME NEW obj, Parses(obj), Numeric(obj)
    PROVE  LET t == ResolveCard(obj, NoCard)
           IN  /\ \A k \in Classes : t.card[k] \in
                       Percent(80, DefaultCard[k])..Percent(125, DefaultCard[k])
               /\ \A k \in DOMAIN t.floors : t.floors[k] \in
                       Percent(50, DefaultCard[k])..Percent(125, DefaultCard[k])
<1> DEFINE t == ResolveCard(obj, NoCard)
<1>1. t.card = ClampToEnvelope(obj.prices) /\ t.floors = FloorsFromPayload(obj)
  BY DEF ResolveCard
<1>2. ASSUME NEW k \in Classes
      PROVE  t.card[k] \in
                 Percent(80, DefaultCard[k])..Percent(125, DefaultCard[k])
  <2> DEFINE x == IF k \in DOMAIN obj.prices THEN obj.prices[k] ELSE DefaultCard[k]
  <2>1. x \in Int
    BY CardAssumption DEF Numeric
  <2>2. t.card[k] = Band(80, 125, k, x)
    BY <1>1 DEF ClampToEnvelope
  <2>3. QED
    BY <2>1, <2>2, BandLands
<1>3. ASSUME NEW k \in DOMAIN t.floors
      PROVE  t.floors[k] \in
                 Percent(50, DefaultCard[k])..Percent(125, DefaultCard[k])
  <2>1. /\ k \in Classes /\ k \in DOMAIN obj.floors
        /\ t.floors[k] = Band(50, 125, k, obj.floors[k])
    BY <1>1 DEF FloorsFromPayload
  <2>2. QED
    BY <2>1, BandLands DEF Numeric
<1>4. QED
  BY <1>2, <1>3

\* However the store was written, by whom and with what numbers, no reader ever
\* works with a price or a floor outside the envelope of the compiled-in card.
THEOREM EnvelopeHolds == Spec => []InEnvelope
<1>1. NumericInv /\ [Next]_vars => NumericInv'
  BY NumericInvStep
<1>2. AdoptedInv /\ [Next]_vars => AdoptedInv'
  BY AdoptedInvStep
<1>3. NumericInv /\ AdoptedInv => InEnvelope
  <2> SUFFICES ASSUME NumericInv, AdoptedInv, NEW r \in Readers, HoldsCard(last[r])
               PROVE  /\ \A k \in Classes : last[r].card[k] \in
                            Percent(80, DefaultCard[k])..Percent(125, DefaultCard[k])
                      /\ \A k \in DOMAIN last[r].floors : last[r].floors[k] \in
                            Percent(50, DefaultCard[k])..Percent(125, DefaultCard[k])
    BY DEF InEnvelope
  <2>1. PICK obj \in everPut :
            /\ Parses(obj)
            /\ [last[r] EXCEPT !.source = "published"] = ResolveCard(obj, NoCard)
    BY DEF AdoptedInv, OneObject
  <2> DEFINE t == ResolveCard(obj, NoCard)
  <2>2. last[r].card = t.card /\ last[r].floors = t.floors
    BY <2>1 DEF AdoptedInv, TripleShape
  <2>3. Numeric(obj)
    BY <2>1 DEF NumericInv
  <2>4. QED
    BY <2>1, <2>2, <2>3, ResolvedInEnvelope
<1>4. QED
  BY <1>1, <1>2, <1>3, AdoptedInvInit, NumericInvInit, PTL DEF Spec

-----------------------------------------------------------------------------
(* When a flip survives. *)

\* The owner uses the script only and never while the publisher is between its
\* GET and its PUT, the publisher can always read the store, and what the
\* publisher writes parses (no override of an unknown class or to nothing).
FlipsUndisturbed ==
    /\ Exclusive /\ HandEdits = {} /\ "publisherGet" \notin Faults
    /\ DOMAIN Own[Publisher] = Classes
    /\ \A k \in Classes : Own[Publisher][k] > 0

FlipInv ==
    /\ intended \in Pricing
    /\ Parses(store) /\ "pricing" \in DOMAIN store
    /\ PricingFromPayload(store) = intended
    /\ pub # Idle => pub.pricing = intended /\ script = Idle
    /\ script # Idle =>
            /\ script.obj.pricing \in Pricing
            /\ Parses(script.obj) /\ "pricing" \in DOMAIN script.obj

\* A written object that names all switches parses back to those switches.
LEMMA SwitchesRoundTrip ==
    ASSUME NEW obj, obj.pricing \in Pricing
    PROVE  PricingFromPayload(obj) = obj.pricing
BY DEF PricingFromPayload, Pricing

LEMMA PublishedParses ==
    ASSUME FlipsUndisturbed, NEW height, NEW pricing \in Pricing
    PROVE  LET obj == PublishedCard(height, pricing)
           IN  /\ Parses(obj) /\ "pricing" \in DOMAIN obj
               /\ PricingFromPayload(obj) = pricing
<1> DEFINE obj == PublishedCard(height, pricing)
<1>1. /\ obj.version = 1 /\ obj.prices = Own[Publisher] /\ obj.pricing = pricing
      /\ "pricing" \in DOMAIN obj
  BY DEF PublishedCard, BuildPriceCard
<1>2. Parses(obj)
  BY <1>1, CardAssumption DEF Parses, FlipsUndisturbed
<1>3. QED
  BY <1>1, <1>2, SwitchesRoundTrip

LEMMA FlipInvInit ==
    ASSUME FlipsUndisturbed, Init
    PROVE  FlipInv
<1>1. DefaultPricing \in Pricing
  BY DEF DefaultPricing, Pricing
<1>2. QED
  BY <1>1, PublishedParses DEF Init, FlipInv

LEMMA FlipInvStep ==
    ASSUME FlipsUndisturbed, FlipInv, [Next]_vars
    PROVE  FlipInv'
<1> USE DEF FlipInv
<1>1. CASE NextBlock
  BY <1>1 DEF NextBlock, Parses, PricingFromPayload
<1>2. CASE PublisherGet
  <2>1. pub' = [pc |-> "put", pricing |-> PricingFromPayload(store)]
    BY <1>2 DEF PublisherGet, Get, Fault, FlipsUndisturbed
  <2>2. script = Idle
    BY <1>2 DEF PublisherGet, FlipsUndisturbed
  <2>3. QED
    BY <1>2, <2>1, <2>2 DEF PublisherGet, Parses, PricingFromPayload
<1>3. CASE PublisherPut \/ PublisherPutBreaks
  <2>1. pub # Idle /\ pub' = Idle
    BY <1>3 DEF PublisherPut, PublisherPutBreaks, Idle
  <2>2. \/ store' = PublishedCard(epoch, intended)
        \/ store' = PublishedCard(0, intended)
        \/ store' = store
    BY <1>3, <2>1 DEF PublisherPut, PublisherPutBreaks, Put
  <2>3. /\ Parses(store)' /\ "pricing" \in DOMAIN store'
        /\ PricingFromPayload(store)' = intended
    BY <2>2, PublishedParses DEF Parses, PricingFromPayload
  <2>4. QED
    BY <1>3, <2>1, <2>3 DEF PublisherPut, PublisherPutBreaks
<1>4. ASSUME NEW desired \in [Switches -> BOOLEAN], ScriptGet(desired) PROVE FlipInv'
  <2> DEFINE obj == [store EXCEPT !.pricing = desired]
  <2>1. script' = [pc |-> "put", obj |-> obj] /\ pub = Idle /\ pub' = pub
    BY <1>4 DEF ScriptGet, FlipsUndisturbed
  <2>2. obj.version = store.version /\ obj.prices = store.prices
    OBVIOUS
  <2>3. obj.pricing = desired /\ "pricing" \in DOMAIN obj
    OBVIOUS
  <2>4. Parses(obj)
    BY <2>2 DEF Parses
  <2>5. /\ script'.obj = obj
    BY <2>1
  <2>6. /\ script'.obj.pricing \in Pricing
        /\ Parses(script.obj)' /\ "pricing" \in DOMAIN script'.obj
    BY <2>3, <2>4, <2>5 DEF Pricing, Parses
  <2>7. QED
    BY <1>4, <2>1, <2>6 DEF ScriptGet, Parses, PricingFromPayload
<1>5. CASE ScriptPut
  <2>1. script # Idle /\ script' = Idle /\ pub = Idle /\ pub' = pub
    BY <1>5 DEF ScriptPut, Idle
  <2>2. CASE UNCHANGED <<store, intended>>
    BY <2>1, <2>2 DEF Parses, PricingFromPayload
  <2>3. CASE store' = script.obj /\ intended' = script.obj.pricing
    <3>1. PricingFromPayload(store') = intended'
      BY <2>1, <2>3, SwitchesRoundTrip
    <3>2. QED
      BY <2>1, <2>3, <3>1 DEF Parses, PricingFromPayload
  <2>4. QED
    BY <1>5, <2>2, <2>3 DEF ScriptPut, Put
<1>6. ASSUME NEW obj \in HandEdits, HandEdit(obj) PROVE FlipInv'
  BY DEF FlipsUndisturbed
<1>7. ASSUME NEW r, ReaderCycle(r) PROVE FlipInv'
  BY <1>7 DEF ReaderCycle, Parses, PricingFromPayload
<1>8. ASSUME NEW v, Restart(v) PROVE FlipInv'
  BY <1>8 DEF Restart, Parses, PricingFromPayload
<1>9. CASE UNCHANGED vars
  BY <1>9 DEF vars, Parses, PricingFromPayload
<1>10. QED
  BY <1>1, <1>2, <1>3, <1>4, <1>5, <1>6, <1>7, <1>8, <1>9 DEF Next

\* Undisturbed, the switches in the store are always those the owner set last:
\* failed writes, restarts and any number of re-publishes lose none.
THEOREM FlipsPreserved ==
    ASSUME FlipsUndisturbed
    PROVE  Spec => []FlipSurvives
<1>1. FlipsUndisturbed /\ FlipInv /\ [Next]_vars => FlipInv'
  BY FlipInvStep
<1>2. FlipsUndisturbed /\ Init => FlipInv
  BY FlipInvInit
<1>3. FlipInv => FlipSurvives
  BY DEF FlipInv, FlipSurvives
<1>4. QED
  BY <1>1, <1>2, <1>3, PTL DEF Spec

-----------------------------------------------------------------------------
(* When the stamped height never goes back. *)

\* As above the owner acts between two publishes and never by hand, and the
\* publisher can always read the height it stamps.
EpochsUndisturbed ==
    Exclusive /\ HandEdits = {} /\ "blockRead" \notin Faults

\* The store's height is not ahead of the chain's, and what the script is about to
\* write has the store's height: nobody has published in between.
EpochInv ==
    /\ epoch \in Nat /\ store.epoch \in Nat /\ store.epoch <= epoch
    /\ pub # Idle => script = Idle
    /\ script # Idle => script.obj.epoch = store.epoch

LEMMA EpochInvInit == Init => EpochInv
<1> SUFFICES ASSUME Init PROVE EpochInv
  OBVIOUS
<1>1. store.epoch = 0 /\ epoch = 0 /\ pub = Idle /\ script = Idle
  BY DEF Init, PublishedCard, BuildPriceCard
<1>2. QED
  BY <1>1 DEF EpochInv

\* Every step keeps the invariant, and none takes the store's height back.
LEMMA EpochInvStep ==
    ASSUME EpochsUndisturbed, EpochInv, [Next]_vars
    PROVE  EpochInv' /\ (store'.epoch >= store.epoch)
<1> USE DEF EpochInv
<1>1. CASE NextBlock
  BY <1>1 DEF NextBlock
<1>2. CASE PublisherGet
  BY <1>2 DEF PublisherGet, EpochsUndisturbed
<1>3. CASE PublisherPut \/ PublisherPutBreaks
  <2>1. pub # Idle /\ pub' = Idle /\ UNCHANGED <<epoch, script>>
    BY <1>3 DEF PublisherPut, PublisherPutBreaks, Idle
  <2>2. store' = PublishedCard(epoch, pub.pricing) \/ store' = store
    BY <1>3 DEF PublisherPut, PublisherPutBreaks, Put, Fault, EpochsUndisturbed
  <2>3. store'.epoch = epoch \/ store'.epoch = store.epoch
    BY <2>2 DEF PublishedCard, BuildPriceCard
  <2>4. QED
    BY <2>1, <2>3
<1>4. ASSUME NEW desired, ScriptGet(desired) PROVE EpochInv' /\ store'.epoch >= store.epoch
  <2> DEFINE obj == [store EXCEPT !.pricing = desired]
  <2>1. /\ script' = [pc |-> "put", obj |-> obj]
        /\ pub = Idle /\ UNCHANGED <<store, epoch, pub>>
    BY <1>4 DEF ScriptGet, EpochsUndisturbed
  <2>2. obj.epoch = store.epoch
    OBVIOUS
  <2> HIDE DEF obj
  <2>3. script'.obj.epoch = store.epoch
    BY <2>1, <2>2
  <2>4. QED
    BY <2>1, <2>3
<1>5. CASE ScriptPut
  <2>1. script # Idle /\ script' = Idle /\ UNCHANGED <<epoch, pub>>
    BY <1>5 DEF ScriptPut, Idle
  <2>2. store' = script.obj \/ store' = store
    BY <1>5 DEF ScriptPut, Put
  <2>3. QED
    BY <2>1, <2>2
<1>6. ASSUME NEW obj \in HandEdits, HandEdit(obj) PROVE FALSE
  BY DEF EpochsUndisturbed
<1>7. ASSUME NEW r, ReaderCycle(r) PROVE EpochInv' /\ store'.epoch >= store.epoch
  BY <1>7 DEF ReaderCycle
<1>8. ASSUME NEW v, Restart(v) PROVE EpochInv' /\ store'.epoch >= store.epoch
  BY <1>8 DEF Restart
<1>9. CASE UNCHANGED vars
  BY <1>9 DEF vars
<1>10. QED
  BY <1>1, <1>2, <1>3, <1>4, <1>5, <1>6, <1>7, <1>8, <1>9 DEF Next

\* "epoch/prices/floors untouched" (set_pricing_flags.py): undisturbed, the height
\* stamped on the published card never goes back, whichever writes fail and
\* however publisher, script and restarts follow one another.
THEOREM EpochsAdvance ==
    ASSUME EpochsUndisturbed
    PROVE  Spec => EpochNeverRollsBack
<1>1. Init => EpochInv
  BY EpochInvInit
<1>2. EpochsUndisturbed /\ EpochInv /\ [Next]_vars
            => EpochInv' /\ [store'.epoch >= store.epoch]_vars
  BY EpochInvStep
<1>3. QED
  BY <1>1, <1>2, PTL DEF Spec, EpochNeverRollsBack

-----------------------------------------------------------------------------
(* Types *)

GoodTriple(t) ==
    /\ TripleShape(t)
    /\ DOMAIN t.card \subseteq PricedClasses /\ DOMAIN t.floors \subseteq PricedClasses
    /\ t.pricing \in Pricing
    /\ t.source \in {"none", "published", "cache"}

TypeInv ==
    /\ last = [v \in Validators |-> last[v]]
    /\ \A v \in Validators : GoodTriple(last[v])
    /\ pub # Idle => pub.pc = "put" /\ pub.pricing \in Pricing
    /\ script # Idle => /\ script.pc = "put" /\ DOMAIN script.obj = Parts
                        /\ script.obj.pricing \in Pricing
    /\ intended \in Pricing
    /\ store \in everPut /\ \A obj \in everPut : DOMAIN obj = Parts
    /\ epoch \in 0..MaxEpoch /\ faults \in 0..MaxFaults /\ flips \in 0..MaxFlips

\* Whatever an object says of its switches, a parsed one has them all.
LEMMA SwitchesAreBoolean ==
    /\ DefaultPricing \in Pricing
    /\ \A obj : PricingFromPayload(obj) \in Pricing
BY DEF DefaultPricing, PricingFromPayload, Pricing

LEMMA ClassesArePriced ==
    /\ Classes \subseteq PricedClasses
    /\ DOMAIN Own[Publisher] \subseteq PricedClasses
    /\ DOMAIN OwnFloors = DOMAIN Own[Publisher]
<1>1. Publisher \in Validators
  BY DEF Validators
<1>2. QED
  BY <1>1, ExchangeAssumption DEF PricedClasses, OwnFloors, PublisherFloors

LEMMA NoCardIsGood == GoodTriple(NoCard)
<1>1. DOMAIN NoPrices = {}
  BY DEF NoPrices
<1>2. QED
  BY <1>1, SwitchesAreBoolean DEF GoodTriple, TripleShape, NoCard

LEMMA PublishedHasParts ==
    ASSUME NEW height, NEW pricing
    PROVE  DOMAIN PublishedCard(height, pricing) = Parts
BY DEF PublishedCard, BuildPriceCard, Parts

LEMMA ResolvedIsGood ==
    ASSUME NEW obj, Parses(obj), NEW old
    PROVE  GoodTriple(ResolveCard(obj, old))
<1>1. ResolveCard(obj, old) =
        [card |-> ClampToEnvelope(obj.prices), floors |-> FloorsFromPayload(obj),
         pricing |-> PricingFromPayload(obj), source |-> "published"]
  BY DEF ResolveCard
<1>2. /\ DOMAIN ClampToEnvelope(obj.prices) \subseteq PricedClasses
      /\ DOMAIN FloorsFromPayload(obj) \subseteq PricedClasses
  BY ClassesArePriced DEF ClampToEnvelope, FloorsFromPayload
<1>3. QED
  BY <1>1, <1>2, SwitchesAreBoolean DEF GoodTriple, TripleShape

LEMMA CachedIsGood ==
    ASSUME NEW old, GoodTriple(old)
    PROVE  GoodTriple([old EXCEPT !.source = "cache"])
<1>1. old = [card |-> old.card, floors |-> old.floors, pricing |-> old.pricing,
             source |-> old.source]
  BY DEF GoodTriple, TripleShape
<1>2. [old EXCEPT !.source = "cache"] =
        [card |-> old.card, floors |-> old.floors, pricing |-> old.pricing,
         source |-> "cache"]
  BY <1>1
<1>3. QED
  BY <1>2 DEF GoodTriple, TripleShape

LEMMA TypeInvInit == Init => TypeInv
<1> SUFFICES ASSUME Init PROVE TypeInv
  OBVIOUS
<1>1. DOMAIN store = Parts /\ everPut = {store}
  BY PublishedHasParts DEF Init
<1>2. last = [v \in Validators |-> NoCard]
  BY DEF Init
<1>3. /\ epoch \in 0..MaxEpoch /\ faults \in 0..MaxFaults /\ flips \in 0..MaxFlips
  BY ExchangeAssumption DEF Init
<1>4. pub = Idle /\ script = Idle /\ intended = DefaultPricing
  BY DEF Init
<1>5. QED
  BY <1>1, <1>2, <1>3, <1>4, NoCardIsGood, SwitchesAreBoolean DEF TypeInv

\* What counts faults never counts too many.
LEMMA FaultsAreBounded ==
    ASSUME TypeInv, NoFault \/ \E kind : Fault(kind)
    PROVE  faults' \in 0..MaxFaults
BY ExchangeAssumption DEF TypeInv, NoFault, Fault

LEMMA FlipsAreBounded ==
    ASSUME TypeInv, flips < MaxFlips, flips' = flips + 1
    PROVE  flips' \in 0..MaxFlips
BY ExchangeAssumption DEF TypeInv

LEMMA TypeInvStep ==
    ASSUME TypeInv, AdoptedInv, [Next]_vars
    PROVE  TypeInv'
<1> DEFINE LastTypes == /\ last' = [v \in Validators |-> last'[v]]
                        /\ \A v \in Validators : GoodTriple(last'[v])
<1>1. \A t : GoodTriple(t) <=> GoodTriple(t)'
  BY DEF GoodTriple, TripleShape
<1>2. CASE NextBlock
  BY <1>2, ExchangeAssumption DEF NextBlock, TypeInv, GoodTriple, TripleShape
<1>3. CASE PublisherGet
  <2>1. pub'.pc = "put" /\ pub'.pricing \in Pricing
    BY <1>3, SwitchesAreBoolean DEF PublisherGet
  <2>2. faults' \in 0..MaxFaults
    BY <1>3, FaultsAreBounded DEF PublisherGet, Get
  <2>3. QED
    BY <1>3, <2>1, <2>2 DEF PublisherGet, TypeInv, GoodTriple, TripleShape
<1>4. CASE PublisherPut
  <2>1. pub # Idle /\ pub' = Idle /\ pub.pricing \in Pricing
    BY <1>4 DEF PublisherPut, Idle, TypeInv
  <2>2. store' \in everPut' /\ \A obj \in everPut' : DOMAIN obj = Parts
    BY <1>4, PublishedHasParts DEF PublisherPut, Put, TypeInv
  <2>3. faults' \in 0..MaxFaults
    BY <1>4, FaultsAreBounded DEF PublisherPut
  <2> DEFINE t == [card |-> Own[Publisher], floors |-> OwnFloors,
                   pricing |-> pub.pricing, source |-> "published"]
  <2>4. GoodTriple(t)
    BY <2>1, ClassesArePriced DEF GoodTriple, TripleShape
  <2>5. last' = [last EXCEPT ![Publisher] = t]
    BY <1>4 DEF PublisherPut
  <2> HIDE DEF t
  <2>6. LastTypes
    BY <2>4, <2>5 DEF TypeInv
  <2>7. QED
    BY <1>1, <1>4, <2>1, <2>2, <2>3, <2>6 DEF PublisherPut, TypeInv
<1>4a. CASE PublisherPutBreaks
  <2>1. pub # Idle /\ pub' = Idle /\ UNCHANGED last
    BY <1>4a DEF PublisherPutBreaks, Idle
  <2>2. store' \in everPut' /\ \A obj \in everPut' : DOMAIN obj = Parts
    BY <1>4a, PublishedHasParts DEF PublisherPutBreaks, Put, TypeInv
  <2>3. faults' \in 0..MaxFaults
    BY <1>4a, FaultsAreBounded DEF PublisherPutBreaks
  <2>4. QED
    BY <1>1, <1>4a, <2>1, <2>2, <2>3 DEF PublisherPutBreaks, TypeInv
<1>5. ASSUME NEW desired \in [Switches -> BOOLEAN], ScriptGet(desired) PROVE TypeInv'
  <2>1. DOMAIN store = Parts
    BY DEF TypeInv
  <2> DEFINE obj == [store EXCEPT !.pricing = desired]
  <2>2. DOMAIN obj = Parts /\ obj.pricing \in Pricing
    BY <2>1 DEF Parts, Pricing
  <2>3. script' = [pc |-> "put", obj |-> obj]
    BY <1>5 DEF ScriptGet
  <2> HIDE DEF obj
  <2>4. flips' \in 0..MaxFlips
    BY <1>5, FlipsAreBounded DEF ScriptGet
  <2>5. QED
    BY <1>1, <1>5, <2>2, <2>3, <2>4 DEF ScriptGet, TypeInv
<1>6. CASE ScriptPut
  <2>1. script # Idle /\ script' = Idle
    BY <1>6 DEF ScriptPut, Idle
  <2>2. /\ store' \in everPut' /\ \A obj \in everPut' : DOMAIN obj = Parts
        /\ intended' \in Pricing
    BY <1>6, <2>1 DEF ScriptPut, Put, TypeInv
  <2>3. faults' \in 0..MaxFaults
    BY <1>6, FaultsAreBounded DEF ScriptPut
  <2>4. QED
    BY <1>1, <1>6, <2>1, <2>2, <2>3 DEF ScriptPut, TypeInv
<1>7. ASSUME NEW obj \in HandEdits, HandEdit(obj) PROVE TypeInv'
  <2>1. DOMAIN obj = Parts
    BY ExchangeAssumption
  <2>2. store' \in everPut' /\ \A o \in everPut' : DOMAIN o = Parts
    BY <1>7, <2>1 DEF HandEdit, Put, TypeInv
  <2>3. intended' \in Pricing
    BY <1>7, SwitchesAreBoolean DEF HandEdit, TypeInv
  <2>4. flips' \in 0..MaxFlips
    BY <1>7, FlipsAreBounded DEF HandEdit
  <2>5. QED
    BY <1>1, <1>7, <2>2, <2>3, <2>4 DEF HandEdit, TypeInv
<1>8. ASSUME NEW r \in Readers, ReaderCycle(r) PROVE TypeInv'
  <2>1. r \in Validators
    BY DEF Validators
  <2>2. GoodTriple(last'[r])
    <3>1. GoodTriple(last[r])
      BY <2>1 DEF TypeInv
    <3>2. \/ last'[r] = last[r]
          \/ last'[r] = [last[r] EXCEPT !.source = "cache"]
          \/ Parses(store) /\ last'[r] = ResolveCard(store, last[r])
      BY <1>8, ReaderOutcomes
    <3>3. QED
      BY <3>1, <3>2, ResolvedIsGood, CachedIsGood
  <2>3. LastTypes
    BY <1>8, <2>1, <2>2, ReaderOutcomes DEF TypeInv
  <2>4. faults' \in 0..MaxFaults
    BY <1>8, FaultsAreBounded DEF ReaderCycle, Get
  <2>5. QED
    BY <1>1, <1>8, <2>3, <2>4 DEF ReaderCycle, TypeInv
<1>9. ASSUME NEW v \in Validators, Restart(v) PROVE TypeInv'
  <2>1. LastTypes
    BY <1>9, NoCardIsGood DEF Restart, TypeInv
  <2>2. faults' \in 0..MaxFaults
    BY <1>9, FaultsAreBounded DEF Restart
  <2>3. QED
    BY <1>1, <1>9, <2>1, <2>2 DEF Restart, TypeInv
<1>10. CASE UNCHANGED vars
  BY <1>1, <1>10 DEF vars, TypeInv
<1>11. QED
  BY <1>2, <1>3, <1>4, <1>4a, <1>5, <1>6, <1>7, <1>8, <1>9, <1>10 DEF Next

\* Whatever an owner writes by hand, every validator works with all switches set
\* and with prices of classes that are on a card, and neither publisher nor script
\* is ever about to write an object that leaves a switch open.
THEOREM CardTypes == Spec => []TypeOK
<1>1. Init => TypeInv /\ AdoptedInv
  BY TypeInvInit, AdoptedInvInit
<1>2. TypeInv /\ AdoptedInv /\ [Next]_vars => TypeInv' /\ AdoptedInv'
  BY TypeInvStep, AdoptedInvStep
<1>3. TypeInv => TypeOK
  BY DEF TypeInv, TypeOK, GoodTriple
<1>4. QED
  BY <1>1, <1>2, <1>3, PTL DEF Spec
=============================================================================
