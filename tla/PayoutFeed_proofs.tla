-------------------------- MODULE PayoutFeed_proofs --------------------------
(***************************************************************************)
(* Proofs about PayoutFeed, for any classes, cards, floors, validators and *)
(* snapshots of the two markets, and any number of moves and faults.       *)
(***************************************************************************)
EXTENDS PayoutFeed, FiniteSetTheorems, FunctionTheorems, WellFoundedInduction, TLAPS

\* The hypothesis of what is said of prices: an operator's override names no price
\* that is zero or less.  Nothing in config.py refuses one.
CardsArePositive == \A v \in Validators : \A k \in Classes : Own[v][k] > 0

\* Prices of some of the classes.
Prices == UNION {[D -> Int] : D \in SUBSET Classes}

\* Each price of per is one of Q or is on the card of one of the validators.
ComesFrom(Q, per, validators) ==
    \A k \in DOMAIN per :
        <<k, per[k]>> \in Q \/ \E v \in validators : per[k] = Own[v][k]

\* Not below the floor, and with the Lium switch off not above the card.
Within(v, switches, paid) ==
    \A k \in DOMAIN paid :
        /\ paid[k] >= FloorFor(Floors, k, Own[v][k])
        /\ ~switches["lium"] => paid[k] <= Own[v][k]

Tiers == {"live", "cache", "published", "card"}

Feeds ==
    [pc : {"banner", "idle", "price", "publish", "display"},
     per : Prices, source : Tiers \cup {"none"}, flags : Modes \cup {DefaultPricing},
     priced : Tiers \cup {"none"}, mode : Modes \cup {DefaultPricing}, paid : Prices]

Histories == [last : Prices, all : SUBSET Prices, kept : BOOLEAN]

ShapeInv ==
    /\ targon \in TargonSnapshots /\ lium \in LiumSnapshots /\ mode \in Modes
    /\ targonCache \in [Validators -> Prices] /\ liumCache \in [Validators -> Prices]
    /\ seen \in [Validators -> Histories]
    /\ feed \in [Validators -> Feeds]

\* payout.json holds quotes and prices of the owner's card.
StoreInv ==
    /\ Quoted(targon) \subseteq quoted
    /\ payout \in Prices /\ ComesFrom(quoted, payout, {Owner})
    /\ CardsArePositive => Positive(payout)

\* The disk cache of a validator is empty or a quote it fetched, the last one if the
\* disk took that and kept it.
CacheInv(v) ==
    /\ Empty(targonCache[v]) \/ targonCache[v] \in seen[v].all
    /\ seen[v].kept => targonCache[v] = seen[v].last
    /\ Positive(targonCache[v]) /\ Positive(liumCache[v])
    /\ ComesFrom(quoted, targonCache[v], {})

\* What a tier supplies, by what the validator has fetched until then.
Supplies(history, per, tier) ==
    /\ tier = "live" => per = history.last
    /\ tier = "cache" => per \in history.all /\ (history.kept => per = history.last)
    /\ tier \in {"published", "card"} => ~history.kept \/ Empty(history.last)

\* The prices of the current half of a cycle are those its tier supplies: in the first
\* half they are kept, in the second the card was made of them.
HalfInv(v) ==
    LET f == feed[v]
    IN  IF f.pc = "price" THEN Supplies(seen[v], f.per, f.source)
        ELSE f.priced # "none" =>
                \E per \in Prices :
                    /\ Supplies(seen[v], per, f.priced)
                    /\ ~f.mode["lium"] =>
                          f.paid = EffectiveCard(Own[v], Floors, f.mode, per, NoPrices)

\* A cycle has resolved the first time, the second time or not at all.
CycleInv(v) ==
    LET f == feed[v]
    IN  /\ f.pc = "banner" => f.priced = "none"
        /\ f.pc = "price" => f.flags \in Modes
        /\ f.priced # "none" => DOMAIN f.paid = Classes
        /\ ComesFrom(quoted, f.per, {v, Owner})
        /\ CardsArePositive => Positive(f.per) /\ Within(v, f.mode, f.paid)

FeedInv ==
    /\ ShapeInv /\ StoreInv
    /\ \A v \in Validators : CacheInv(v) /\ HalfInv(v) /\ CycleInv(v)

-----------------------------------------------------------------------------
(* The best rate of a class *)

\* Finitely many integers have a largest.
LEMMA LargestOfFinite ==
    ASSUME NEW T \in SUBSET Int, IsFiniteSet(T), T # {}
    PROVE  \E x \in T : \A y \in T : y <= x
<1> DEFINE above(x) == {y \in T : y > x}
           R        == OpToRel(<, Nat)
           counts   == {Cardinality(above(x)) : x \in T}
<1>1. ASSUME NEW x \in T
      PROVE  IsFiniteSet(above(x)) /\ Cardinality(above(x)) \in Nat
  <2>1. above(x) \in SUBSET T
    OBVIOUS
  <2>2. IsFiniteSet(above(x))
    BY <2>1, FS_Subset
  <2>3. QED
    BY <2>2, FS_CardinalityType
<1>2. counts \in SUBSET Nat /\ counts # {}
  BY <1>1
<1>3. IsWellFoundedOn(R, Nat)
  BY NatLessThanWellFounded
<1> HIDE DEF R, counts
<1>4. PICK n \in counts : \A m \in counts : <<m, n>> \notin R
  BY <1>2, <1>3, WFMin
<1>5. PICK x \in T : n = Cardinality(above(x))
  BY <1>4 DEF counts
<1>6. ASSUME NEW y \in T, y > x PROVE FALSE
  <2>1. above(y) \in SUBSET above(x) /\ y \in above(x) /\ y \notin above(y)
    <3>1. x \in Int /\ y \in Int /\ T \in SUBSET Int
      BY <1>5
    <3>2. \A z \in T : z > y => z > x
      BY <1>6, <3>1
    <3>3. ~(y > y)
      BY <3>1
    <3>4. QED
      BY <1>6, <3>2, <3>3
  <2>2. /\ IsFiniteSet(above(x)) /\ Cardinality(above(x)) \in Nat
        /\ IsFiniteSet(above(y)) /\ Cardinality(above(y)) \in Nat
    BY <1>1, <1>5
  <2>3. n = Cardinality(above(x)) /\ Cardinality(above(y)) \in counts
    BY <1>5 DEF counts
  <2> HIDE DEF above
  <2>4. Cardinality(above(y) \cup {y}) = Cardinality(above(y)) + 1
    BY <2>1, <2>2, FS_AddElement
  <2>5. Cardinality(above(y) \cup {y}) <= Cardinality(above(x))
    <3>1. above(y) \cup {y} \in SUBSET above(x)
      BY <2>1
    <3>2. QED
      BY <2>2, <3>1, FS_Subset
  <2>6. Cardinality(above(y)) < n
    BY <2>2, <2>3, <2>4, <2>5
  <2>7. <<Cardinality(above(y)), n>> \in R
    BY <2>2, <2>3, <2>6 DEF R, OpToRel
  <2>8. QED
    BY <1>4, <2>3, <2>7
<1>7. QED
  <2>1. \A y \in T : x \in Int /\ y \in Int
    BY <1>5
  <2>2. QED
    BY <1>5, <1>6, <2>1

\* BestRates yields a positive price for each class that has a positive rate, none
\* for others: the largest of the class's rates.
LEMMA BestRatesAreBest ==
    ASSUME NEW pairs, IsFiniteSet(pairs), \A p \in pairs : p[2] \in Int
    PROVE  /\ BestRates(pairs) \in Prices /\ Positive(BestRates(pairs))
           /\ DOMAIN BestRates(pairs) =
                {k \in Classes : \E p \in pairs : p[1] = k /\ p[2] > 0}
           /\ \A k \in DOMAIN BestRates(pairs) :
                /\ \E p \in pairs : p[1] = k /\ p[2] = BestRates(pairs)[k]
                /\ \A p \in pairs : p[1] = k => p[2] <= BestRates(pairs)[k]
<1> DEFINE usable == {p \in pairs : p[1] \in Classes /\ p[2] > 0}
           mine(k) == {q \in usable : q[1] = k}
           of(k)   == {p[2] : p \in mine(k)}
           best(k) == CHOOSE x \in of(k) : \A rate \in of(k) : rate <= x
           classes == {p[1] : p \in usable}
<1>1. BestRates(pairs) = [k \in classes |-> best(k)]
  BY DEF BestRates
<1>2. classes = {k \in Classes : \E p \in pairs : p[1] = k /\ p[2] > 0}
  OBVIOUS
<1>3. ASSUME NEW k \in classes
      PROVE  best(k) \in of(k) /\ \A rate \in of(k) : rate <= best(k)
  <2>1. of(k) \in SUBSET Int /\ of(k) # {}
    OBVIOUS
  <2>2. IsFiniteSet(of(k))
    <3> DEFINE f == [p \in mine(k) |-> p[2]]
    <3>1. mine(k) \in SUBSET pairs
      OBVIOUS
    <3>2. IsFiniteSet(mine(k))
      BY <3>1, FS_Subset
    <3>3. f \in Surjection(mine(k), of(k))
      <4> HIDE DEF mine
      <4>1. f \in [mine(k) -> of(k)] /\ \A t \in of(k) : \E s \in mine(k) : f[s] = t
        OBVIOUS
      <4> HIDE DEF f, of
      <4>2. QED
        BY <4>1 DEF Surjection
    <3> HIDE DEF f, mine, of
    <3>4. QED
      BY <3>2, <3>3, FS_Surjection
  <2> HIDE DEF of
  <2>3. \E x \in of(k) : \A rate \in of(k) : rate <= x
    BY <2>1, <2>2, LargestOfFinite
  <2>4. QED
    BY <2>3
<1>4. ASSUME NEW k \in classes
      PROVE  /\ best(k) \in Nat \ {0}
             /\ \E p \in pairs : p[1] = k /\ p[2] = best(k)
             /\ \A p \in pairs : p[1] = k => p[2] <= best(k)
  <2> DEFINE b == best(k)
  <2>1. PICK p \in mine(k) : b = p[2]
    BY <1>3
  <2>2. \A q \in mine(k) : q[2] <= b
    BY <1>3
  <2> HIDE DEF b
  <2>3. b \in Int /\ b > 0
    BY <2>1
  <2>4. ASSUME NEW q \in pairs, q[1] = k PROVE q[2] <= b
    <3>1. CASE q[2] > 0
      <4>1. q \in mine(k)
        BY <1>2, <2>4, <3>1
      <4>2. QED
        BY <2>2, <4>1
    <3>2. CASE ~(q[2] > 0)
      BY <2>3, <3>2
    <3>3. QED
      BY <3>1, <3>2
  <2>5. p \in pairs /\ p[1] = k
    BY <2>1
  <2>6. /\ b \in Nat \ {0}
        /\ \E q \in pairs : q[1] = k /\ q[2] = b
        /\ \A q \in pairs : q[1] = k => q[2] <= b
    BY <2>1, <2>3, <2>4, <2>5
  <2>7. QED
    BY <2>6 DEF b
<1> HIDE DEF best, classes
<1>5. BestRates(pairs) \in [classes -> Nat \ {0}]
  BY <1>1, <1>4
<1>6. classes \in SUBSET Classes /\ BestRates(pairs) \in [classes -> Int]
  BY <1>2, <1>5
<1>7. BestRates(pairs) \in Prices
  BY <1>6 DEF Prices
<1>8. QED
  BY <1>1, <1>2, <1>4, <1>5, <1>6, <1>7 DEF Positive

-----------------------------------------------------------------------------
(* The two feeds and the price paid *)

\* Whatever rows the APIs answer with, what is read out of them is a positive
\* price for some of the classes.
LEMMA SnapshotsArePrices ==
    ASSUME NEW rows \in TargonSnapshots
    PROVE  PerClassFromSnapshot[rows] \in Prices /\ Positive(PerClassFromSnapshot[rows])
<1> DEFINE pair(row) == <<row.klass, TargonRate(row)>>
           pairs     == {pair(row) : row \in rows}
           f         == [row \in rows |-> pair(row)]
<1>1. IsFiniteSet(rows) /\ \A row \in rows : row.unitRate \in Int /\ row.maxPrice \in Int
  BY FeedAssumption
<1>2. \A row \in rows : TargonRate(row) \in Int
  BY <1>1 DEF TargonRate
<1>3. f \in [rows -> pairs] /\ \A t \in pairs : \E row \in rows : f[row] = t
  OBVIOUS
<1>4. \A p \in pairs : p[2] \in Int
  BY <1>2
<1>5. PerClassFromSnapshot[rows] = BestRates(pairs)
  BY DEF PerClassFromSnapshot
<1> HIDE DEF pair, pairs, f
<1>6. f \in Surjection(rows, pairs)
  BY <1>3 DEF Surjection
<1>7. IsFiniteSet(pairs)
  BY <1>1, <1>6, FS_Surjection
<1>8. QED
  BY <1>4, <1>5, <1>7, BestRatesAreBest

LEMMA RowsArePrices ==
    ASSUME NEW rows \in LiumSnapshots
    PROVE  PerClassFromRows[rows] \in Prices /\ Positive(PerClassFromRows[rows])
<1> DEFINE pair(row) == <<row.klass, LiumRate(row)>>
           pairs     == {pair(row) : row \in rows}
           f         == [row \in rows |-> pair(row)]
<1>1. IsFiniteSet(rows) /\ \A row \in rows : row.rented \in Int /\ row.all \in Int
  BY FeedAssumption
<1>2. \A row \in rows : LiumRate(row) \in Int
  BY <1>1 DEF LiumRate
<1>3. f \in [rows -> pairs] /\ \A t \in pairs : \E row \in rows : f[row] = t
  OBVIOUS
<1>4. \A p \in pairs : p[2] \in Int
  BY <1>2
<1>5. PerClassFromRows[rows] = BestRates(pairs)
  BY DEF PerClassFromRows
<1> HIDE DEF pair, pairs, f
<1>6. f \in Surjection(rows, pairs)
  BY <1>3 DEF Surjection
<1>7. IsFiniteSet(pairs)
  BY <1>1, <1>6, FS_Surjection
<1>8. QED
  BY <1>4, <1>5, <1>7, BestRatesAreBest

LEMMA NoPricesArePrices == NoPrices \in Prices /\ Positive(NoPrices) /\ Empty(NoPrices)
<1>1. {} \in SUBSET Classes /\ NoPrices \in [{} -> Int] /\ DOMAIN NoPrices = {}
  BY DEF NoPrices
<1>2. NoPrices \in Prices
  BY <1>1 DEF Prices
<1>3. QED
  BY <1>1, <1>2 DEF Positive, Empty

\* The market's price is 110% of a number: of two quotes one is the best.
LEMMA MarketPriceIsNumber ==
    ASSUME NEW k, NEW liumPer \in Prices, NEW targonPer \in Prices,
           Quotes(k, liumPer, targonPer) # {}
    PROVE  MarketPrice(Quotes(k, liumPer, targonPer)) \in Int
<1> DEFINE Q == Quotes(k, liumPer, targonPer)
<1>1. /\ k \in DOMAIN liumPer => liumPer[k] \in Int
      /\ k \in DOMAIN targonPer => targonPer[k] \in Int
  BY DEF Prices
<1>2. \A q \in Q : \/ k \in DOMAIN liumPer /\ q = liumPer[k]
                   \/ k \in DOMAIN targonPer /\ q = targonPer[k]
  BY DEF Quotes
<1>3. /\ k \in DOMAIN liumPer => liumPer[k] \in Q
      /\ k \in DOMAIN targonPer => targonPer[k] \in Q
  BY DEF Quotes
<1>4. Q # {} /\ \A q \in Q : q \in Int
  BY <1>1, <1>2
<1> HIDE DEF Q
<1>5. \E q \in Q : \A r \in Q : r <= q
  <2>1. CASE k \in DOMAIN liumPer /\ k \in DOMAIN targonPer
    <3>1. CASE liumPer[k] <= targonPer[k]
      BY <1>1, <1>2, <1>3, <2>1, <3>1
    <3>2. CASE targonPer[k] <= liumPer[k]
      BY <1>1, <1>2, <1>3, <2>1, <3>2
    <3>3. QED
      BY <1>1, <2>1, <3>1, <3>2
  <2>2. CASE ~(k \in DOMAIN liumPer /\ k \in DOMAIN targonPer)
    <3>1. PICK q \in Q : TRUE
      BY <1>4
    <3>2. \A r \in Q : r = q
      BY <1>2, <2>2, <3>1
    <3>3. q <= q
      BY <1>4, <3>1
    <3>4. QED
      BY <3>1, <3>2, <3>3
  <2>3. QED
    BY <2>1, <2>2
<1>6. (CHOOSE q \in Q : \A r \in Q : r <= q) \in Int
  BY <1>4, <1>5
<1>7. MarketPrice(Q) \in Int
  BY <1>6 DEF MarketPrice, Percent
<1>8. QED
  BY <1>7 DEF Q

LEMMA FloorsAreNumbers ==
    ASSUME NEW k \in Classes, NEW price \in Int
    PROVE  /\ FloorFor(Floors, k, price) \in Int
           /\ price > 0 => FloorFor(Floors, k, price) <= price
<1>1. k \in DOMAIN Floors => Floors[k] \in Int
  BY FeedAssumption
<1>2. QED
  BY <1>1 DEF FloorFor, Lesser, Percent

\* What a validator pays is a price for every class; where its card is positive it is
\* not below the floor, and not above the card with the Lium switch off.
LEMMA EffectiveCardIsWithin ==
    ASSUME NEW v \in Validators, NEW switches \in Modes,
           NEW targonPer \in Prices, NEW liumPer \in Prices
    PROVE  LET paid == EffectiveCard(Own[v], Floors, switches, targonPer, liumPer)
           IN  /\ paid \in Prices /\ DOMAIN paid = Classes
               /\ CardsArePositive => Within(v, switches, paid)
<1> DEFINE own  == Own[v]
           floor(k) == FloorFor(Floors, k, own[k])
           paid == EffectiveCard(own, Floors, switches, targonPer, liumPer)
           quotes(k) == Quotes(k, liumPer, targonPer)
<1>1. own \in [Classes -> Int]
  BY FeedAssumption
<1>2. \A k \in Classes : own[k] \in Int /\ floor(k) \in Int /\ (own[k] > 0 => floor(k) <= own[k])
  BY <1>1, FloorsAreNumbers
<1>3. \A k \in DOMAIN targonPer : targonPer[k] \in Int
  BY DEF Prices
<1>4. ASSUME NEW k \in Classes, quotes(k) # {} PROVE MarketPrice(quotes(k)) \in Int
  BY <1>4, MarketPriceIsNumber
<1> DEFINE ok(k) == /\ paid[k] \in Int
                    /\ own[k] > 0 => /\ paid[k] >= floor(k)
                                     /\ ~switches["lium"] => paid[k] <= own[k]
<1>5. DOMAIN paid = Classes /\ \A k \in Classes : ok(k)
  <2>1. CASE switches["lium"]
    <3>1. /\ DOMAIN paid = Classes
          /\ \A k \in Classes :
                paid[k] = IF quotes(k) = {} THEN floor(k)
                          ELSE Greater(floor(k), MarketPrice(quotes(k)))
      BY <1>1, <2>1 DEF EffectiveCard, MarketEffectiveCard
    <3> HIDE DEF paid, quotes, floor, own
    <3>2. QED
      BY <1>2, <1>4, <2>1, <3>1 DEF Greater
  <2>2. CASE ~switches["lium"] /\ switches["targon"]
    <3>1. /\ DOMAIN paid = Classes
          /\ \A k \in Classes :
                paid[k] = Lesser(own[k], Greater(floor(k),
                            IF k \in DOMAIN targonPer THEN targonPer[k] ELSE own[k]))
      BY <1>1, <2>2 DEF EffectiveCard, ClampedCard
    <3> HIDE DEF paid, quotes, floor, own
    <3>2. QED
      BY <1>2, <1>3, <3>1 DEF Greater, Lesser
  <2>3. CASE ~switches["lium"] /\ ~switches["targon"]
    <3>1. paid = own
      BY <2>3 DEF EffectiveCard
    <3> HIDE DEF paid, quotes, floor
    <3>2. QED
      BY <1>1, <1>2, <3>1
  <2>4. QED
    BY <2>1, <2>2, <2>3
<1>6. paid \in Prices
  <2>1. paid = [k \in DOMAIN paid |-> paid[k]]
    BY <1>1 DEF EffectiveCard, MarketEffectiveCard, ClampedCard
  <2> HIDE DEF paid
  <2>2. paid \in [Classes -> Int]
    BY <1>5, <2>1
  <2>3. QED
    BY <2>2 DEF Prices
<1>7. CardsArePositive => Within(v, switches, paid)
  <2> HIDE DEF paid
  <2>1. SUFFICES ASSUME CardsArePositive, NEW k \in Classes
                 PROVE  /\ paid[k] >= FloorFor(Floors, k, Own[v][k])
                        /\ ~switches["lium"] => paid[k] <= Own[v][k]
    BY <1>5 DEF Within
  <2>2. ok(k) /\ own[k] > 0
    BY <1>5, <2>1 DEF CardsArePositive
  <2>3. QED
    BY <2>2
<1>8. QED
  BY <1>5, <1>6, <1>7

-----------------------------------------------------------------------------
(* Resolving the feed *)

LEMMA ComesFromMore ==
    ASSUME NEW Q, NEW R, Q \subseteq R, NEW per, NEW V, NEW W, V \subseteq W,
           ComesFrom(Q, per, V)
    PROVE  ComesFrom(R, per, W)
BY DEF ComesFrom

LEMMA WrittenFiles ==
    ASSUME NEW files \in [Validators -> Prices], NEW v \in Validators,
           NEW per \in Prices, NEW n, NEW new \in Written(files, v, per, n)
    PROVE  /\ new \in [Validators -> Prices]
           /\ new[v] = per \/ new[v] = files[v] \/ new[v] = NoPrices
           /\ n = 0 => new[v] = per
           /\ \A w \in Validators \ {v} : new[w] = files[w]
BY NoPricesArePrices DEF Written

\* Whatever tier supplies the prices, and whether the disk takes them or not, the cache
\* is afterwards empty or one of the quotes fetched.
LEMMA ResolveKeepsCaches ==
    ASSUME FeedInv, NEW v \in Validators, NEW per, NEW source, NEW n,
           Resolve(v, per, source, n)
    PROVE  /\ per \in Prices /\ ComesFrom(quoted, per, {v, Owner})
           /\ CardsArePositive => Positive(per)
           /\ source \in Tiers /\ Supplies(seen'[v], per, source)
           /\ targonCache' \in [Validators -> Prices] /\ seen' \in [Validators -> Histories]
           /\ \A w \in Validators \ {v} :
                targonCache'[w] = targonCache[w] /\ seen'[w] = seen[w]
           /\ Positive(liumCache'[v]) /\ quoted' = quoted => CacheInv(v)'
<1>1. /\ targonCache \in [Validators -> Prices] /\ seen \in [Validators -> Histories]
      /\ targon \in TargonSnapshots /\ payout \in Prices
      /\ CacheInv(v)
  BY DEF FeedInv, ShapeInv, StoreInv
<1>2. CASE ResolveLive(v, per, source, n)
  <2> DEFINE h == [last |-> per, all |-> seen[v].all \cup {per}, kept |-> n = 0]
  <2>1. /\ per = PerClassFromSnapshot[targon] /\ source = "live"
        /\ targonCache' \in Written(targonCache, v, per, n)
        /\ seen' = [seen EXCEPT ![v] = h]
    BY <1>2 DEF ResolveLive
  <2>2. per \in Prices /\ Positive(per)
    BY <1>1, <2>1, SnapshotsArePrices
  <2>3. ComesFrom(quoted, per, {})
    <3>1. Quoted(targon) \subseteq quoted
      BY DEF FeedInv, StoreInv
    <3>2. \A k \in DOMAIN per : <<k, per[k]>> \in Quoted(targon)
      BY <2>1 DEF Quoted
    <3>3. QED
      BY <3>1, <3>2 DEF ComesFrom
  <2>4. ComesFrom(quoted, per, {v, Owner})
    BY <2>3, ComesFromMore
  <2>5. /\ targonCache' \in [Validators -> Prices]
        /\ \/ targonCache'[v] = per
           \/ targonCache'[v] = targonCache[v]
           \/ targonCache'[v] = NoPrices
        /\ n = 0 => targonCache'[v] = per
        /\ \A w \in Validators \ {v} : targonCache'[w] = targonCache[w]
    BY <1>1, <2>1, <2>2, WrittenFiles
  <2>6. h \in Histories /\ h.last = per /\ per \in h.all /\ (h.kept <=> n = 0)
        /\ \A q \in seen[v].all : q \in h.all
    BY <1>1, <2>2 DEF Histories
  <2> HIDE DEF h
  <2>7. /\ seen' \in [Validators -> Histories] /\ seen'[v] = h
        /\ \A w \in Validators \ {v} : seen'[w] = seen[w]
    BY <1>1, <2>1, <2>6
  <2>8. Supplies(seen'[v], per, source)
    BY <2>1, <2>6, <2>7 DEF Supplies
  <2>9. /\ Empty(targonCache'[v]) \/ targonCache'[v] \in seen'[v].all
        /\ seen'[v].kept => targonCache'[v] = seen'[v].last
        /\ Positive(targonCache'[v])
        /\ ComesFrom(quoted, targonCache'[v], {})
    <3>1. CASE targonCache'[v] = per
      BY <2>2, <2>3, <2>6, <2>7, <3>1
    <3>2. CASE targonCache'[v] = targonCache[v]
      BY <1>1, <2>5, <2>6, <2>7, <3>2 DEF CacheInv
    <3>3. CASE targonCache'[v] = NoPrices
      <4>1. ComesFrom(quoted, NoPrices, {})
        BY NoPricesArePrices DEF ComesFrom, Empty
      <4>2. QED
        BY <2>5, <2>6, <2>7, <3>3, <4>1, NoPricesArePrices
    <3>4. QED
      BY <2>5, <3>1, <3>2, <3>3
  <2>10. QED
    BY <1>1, <2>1, <2>2, <2>4, <2>5, <2>7, <2>8, <2>9 DEF Tiers, CacheInv
<1>3. CASE ResolveDark(v, per, source, n)
  <2>1. UNCHANGED <<targonCache, seen>>
    BY <1>3 DEF ResolveDark
  <2>2. source \in Tiers /\ Supplies(seen[v], per, source)
    BY <1>1, <1>3 DEF ResolveDark, Tiers, CacheInv, Supplies
  <2>3. /\ per \in Prices /\ ComesFrom(quoted, per, {v, Owner})
        /\ CardsArePositive => Positive(per)
    <3>1. CASE per = targonCache[v]
      BY <1>1, <3>1, ComesFromMore DEF CacheInv
    <3>2. CASE per = payout
      <4>1. ComesFrom(quoted, payout, {Owner}) /\ (CardsArePositive => Positive(payout))
        BY DEF FeedInv, StoreInv
      <4>2. QED
        BY <1>1, <3>2, <4>1, ComesFromMore
    <3>3. CASE per = Own[v]
      <4>1. per \in [Classes -> Int]
        BY <3>3, FeedAssumption
      <4>2. per \in Prices
        BY <4>1 DEF Prices
      <4>3. ComesFrom(quoted, per, {v, Owner})
        BY <3>3 DEF ComesFrom
      <4>4. CardsArePositive => Positive(per)
        BY <3>3, <4>1 DEF CardsArePositive, Positive
      <4>5. QED
        BY <4>2, <4>3, <4>4
    <3>4. QED
      BY <1>3, <3>1, <3>2, <3>3 DEF ResolveDark
  <2>4. QED
    BY <1>1, <2>1, <2>2, <2>3 DEF CacheInv
<1>4. QED
  BY <1>2, <1>3 DEF Resolve

\* A step of one validator leaves the others alone.
LEMMA OthersUndisturbed ==
    ASSUME NEW v \in Validators, CacheInv(v), HalfInv(v), CycleInv(v),
           quoted \subseteq quoted',
           feed'[v] = feed[v], seen'[v] = seen[v],
           targonCache'[v] = targonCache[v], liumCache'[v] = liumCache[v]
    PROVE  CacheInv(v)' /\ HalfInv(v)' /\ CycleInv(v)'
<1>1. ComesFrom(quoted', targonCache[v], {}) /\ ComesFrom(quoted', feed[v].per, {v, Owner})
  BY ComesFromMore DEF CacheInv, CycleInv
<1>2. CacheInv(v)' /\ CycleInv(v)'
  BY <1>1 DEF CacheInv, CycleInv
<1>3. HalfInv(v)'
  BY DEF HalfInv
<1>4. QED
  BY <1>2, <1>3

\* So does one outside of the two halves with the prices of the second.
LEMMA HalfUndisturbed ==
    ASSUME NEW v \in Validators, HalfInv(v), seen'[v] = seen[v],
           feed[v].pc # "price", feed'[v].pc # "price",
           feed'[v].priced = feed[v].priced, feed'[v].mode = feed[v].mode,
           feed'[v].paid = feed[v].paid
    PROVE  HalfInv(v)'
BY DEF HalfInv

LEMMA OneCycleKeepsInv ==
    ASSUME FeedInv, NEW v \in Validators, NEW f \in Feeds,
           feed' = [feed EXCEPT ![v] = f],
           UNCHANGED <<targon, lium, mode, quoted>>, StoreInv',
           targonCache' \in [Validators -> Prices], liumCache' \in [Validators -> Prices],
           seen' \in [Validators -> Histories],
           \A w \in Validators \ {v} :
                /\ targonCache'[w] = targonCache[w] /\ liumCache'[w] = liumCache[w]
                /\ seen'[w] = seen[w],
           CacheInv(v)', HalfInv(v)', CycleInv(v)'
    PROVE  FeedInv'
<1>1. ShapeInv'
  BY DEF FeedInv, ShapeInv
<1>2. ASSUME NEW w \in Validators \ {v} PROVE CacheInv(w)' /\ HalfInv(w)' /\ CycleInv(w)'
  <2>1. feed'[w] = feed[w] /\ CacheInv(w) /\ HalfInv(w) /\ CycleInv(w)
    BY DEF FeedInv, ShapeInv
  <2>2. QED
    BY <2>1, OthersUndisturbed
<1>3. QED
  BY <1>1, <1>2 DEF FeedInv

\* The medians, fetched or from the cache, are prices, and so is the cache afterwards.
LEMMA LiumKeepsCaches ==
    ASSUME FeedInv, NEW v \in Validators, NEW l, NEW n, LiumMedians(v, l, n)
    PROVE  /\ l \in Prices
           /\ liumCache' \in [Validators -> Prices] /\ Positive(liumCache'[v])
           /\ \A w \in Validators \ {v} : liumCache'[w] = liumCache[w]
<1>1. liumCache \in [Validators -> Prices] /\ lium \in LiumSnapshots /\ Positive(liumCache[v])
  BY DEF FeedInv, ShapeInv, CacheInv
<1>2. CASE l = PerClassFromRows[lium] /\ liumCache' \in Written(liumCache, v, l, n)
  <2>1. l \in Prices /\ Positive(l)
    BY <1>1, <1>2, RowsArePrices
  <2>2. /\ liumCache' \in [Validators -> Prices]
        /\ \/ liumCache'[v] = l
           \/ liumCache'[v] = liumCache[v]
           \/ liumCache'[v] = NoPrices
        /\ \A w \in Validators \ {v} : liumCache'[w] = liumCache[w]
    BY <1>1, <1>2, <2>1, WrittenFiles
  <2>3. QED
    BY <1>1, <2>1, <2>2, NoPricesArePrices
<1>3. CASE l = liumCache[v] /\ UNCHANGED liumCache
  BY <1>1, <1>3
<1>4. QED
  BY <1>2, <1>3 DEF LiumMedians

-----------------------------------------------------------------------------
(* The steps of a cycle *)

LEMMA StartedIsFeed ==
    ASSUME NEW v \in Validators
    PROVE  /\ Started(v) \in Feeds /\ Started(v).pc \in {"banner", "idle"}
           /\ Started(v).per = NoPrices /\ Started(v).priced = "none"
           /\ Started(v).paid = NoPrices
<1>1. NoCycle \in Feeds /\ NoCycle.per = NoPrices /\ NoCycle.priced = "none"
      /\ NoCycle.paid = NoPrices
  BY NoPricesArePrices DEF NoCycle, Feeds
<1> DEFINE pc == IF v = Owner THEN "banner" ELSE "idle"
<1>2. pc \in {"banner", "idle"} /\ Started(v) = [NoCycle EXCEPT !.pc = pc]
  BY DEF Started
<1> HIDE DEF pc
<1>3. QED
  BY <1>1, <1>2 DEF Feeds

\* Nothing is said of a validator that has just started.
LEMMA StartedIsFine ==
    ASSUME NEW v \in Validators, feed[v] = Started(v)
    PROVE  HalfInv(v) /\ CycleInv(v)
<1>1. DOMAIN NoPrices = {}
  BY DEF NoPrices
<1>2. CycleInv(v)
  BY <1>1, NoPricesArePrices, StartedIsFeed DEF CycleInv, ComesFrom, Within
<1>3. HalfInv(v)
  BY StartedIsFeed DEF HalfInv
<1>4. QED
  BY <1>2, <1>3

LEMMA FeedInvInit == Init => FeedInv
<1> SUFFICES ASSUME Init PROVE FeedInv
  OBVIOUS
<1>1. /\ Unseen \in Histories /\ Unseen.last = NoPrices
      /\ DOMAIN NoPrices = {}
  BY NoPricesArePrices DEF Unseen, Histories, NoPrices
<1>2. ShapeInv
  BY <1>1, NoPricesArePrices, StartedIsFeed DEF Init, ShapeInv
<1>3. StoreInv
  <2>1. payout = NoPrices /\ quoted = Quoted(targon)
    BY DEF Init
  <2>2. QED
    BY <1>1, <2>1, NoPricesArePrices DEF StoreInv, ComesFrom
<1>4. ASSUME NEW v \in Validators PROVE CacheInv(v) /\ HalfInv(v) /\ CycleInv(v)
  <2>1. feed[v] = Started(v) /\ seen[v] = Unseen /\ targonCache[v] = NoPrices
        /\ liumCache[v] = NoPrices
    BY DEF Init
  <2>2. CacheInv(v)
    BY <1>1, <2>1, NoPricesArePrices DEF CacheInv, ComesFrom
  <2>3. QED
    BY <2>1, <2>2, StartedIsFine
<1>5. QED
  BY <1>2, <1>3, <1>4 DEF FeedInv

\* What Targon ever quoted is never forgotten.
LEMMA MarketKeepsInv ==
    ASSUME FeedInv, MarketMoves
    PROVE  FeedInv'
<1>1. /\ UNCHANGED <<targonCache, liumCache, payout, feed, seen>>
      /\ quoted' = quoted \cup Quoted(targon')
      /\ targon' \in TargonSnapshots /\ lium' \in LiumSnapshots /\ mode' \in Modes
  BY DEF MarketMoves, FeedInv, ShapeInv
<1>2. ShapeInv'
  BY <1>1 DEF FeedInv, ShapeInv
<1>3. StoreInv'
  <2>1. Quoted(targon)' \subseteq quoted'
    <3>1. Quoted(targon') \subseteq quoted'
      BY <1>1
    <3>2. Quoted(targon)' = Quoted(targon')
      BY DEF Quoted
    <3>3. QED
      BY <3>1, <3>2
  <2>2. ComesFrom(quoted', payout, {Owner})
    BY <1>1, ComesFromMore DEF FeedInv, StoreInv
  <2>3. QED
    BY <1>1, <2>1, <2>2 DEF FeedInv, StoreInv
<1>4. ASSUME NEW v \in Validators PROVE CacheInv(v)' /\ HalfInv(v)' /\ CycleInv(v)'
  BY <1>1, OthersUndisturbed DEF FeedInv
<1>5. QED
  BY <1>2, <1>3, <1>4 DEF FeedInv

LEMMA BannerKeepsInv ==
    ASSUME FeedInv, Banner
    PROVE  FeedInv'
<1> DEFINE g == feed[Owner]
           f == [g EXCEPT !.pc = "idle"]
<1>1. Owner \in Validators
  BY DEF Validators
<1>2. PICK r \in Resolutions(Owner), n \in 0..2 : Resolve(Owner, r[1], r[2], n)
  BY DEF Banner
<1>3. /\ g.pc = "banner" /\ feed' = [feed EXCEPT ![Owner] = f]
      /\ UNCHANGED <<targon, lium, mode, liumCache, payout, quoted>>
  BY DEF Banner
<1>4. g \in Feeds /\ CacheInv(Owner) /\ CycleInv(Owner) /\ DOMAIN feed = Validators
      /\ liumCache \in [Validators -> Prices] /\ Positive(liumCache[Owner])
  BY <1>1 DEF FeedInv, ShapeInv, CacheInv
<1>5. /\ targonCache' \in [Validators -> Prices] /\ seen' \in [Validators -> Histories]
      /\ \A w \in Validators \ {Owner} :
           targonCache'[w] = targonCache[w] /\ seen'[w] = seen[w]
      /\ Positive(liumCache'[Owner]) /\ quoted' = quoted => CacheInv(Owner)'
  BY <1>1, <1>2, ResolveKeepsCaches
<1>6. /\ f \in Feeds /\ f.pc = "idle" /\ f.per = g.per /\ f.priced = g.priced
      /\ f.mode = g.mode /\ f.paid = g.paid
  BY <1>4 DEF Feeds
<1>7. g.priced = "none" /\ ComesFrom(quoted, g.per, {Owner, Owner})
      /\ (CardsArePositive => Positive(g.per) /\ Within(Owner, g.mode, g.paid))
  BY <1>3, <1>4 DEF CycleInv
<1> HIDE DEF f, g
<1>8. feed'[Owner] = f
  BY <1>1, <1>3, <1>4
<1>9. CacheInv(Owner)'
  BY <1>3, <1>4, <1>5
<1>10. HalfInv(Owner)' /\ CycleInv(Owner)'
  BY <1>3, <1>6, <1>7, <1>8 DEF HalfInv, CycleInv
<1>11. StoreInv'
  BY <1>3 DEF FeedInv, StoreInv, Quoted
<1>12. QED
  BY <1>1, <1>3, <1>4, <1>5, <1>6, <1>9, <1>10, <1>11, OneCycleKeepsInv

LEMMA FirstResolveKeepsInv ==
    ASSUME FeedInv, NEW v \in Validators, FirstResolve(v)
    PROVE  FeedInv'
<1> DEFINE g == feed[v]
           f(per, source) == [g EXCEPT !.pc = "price", !.flags = mode,
                                       !.per = per, !.source = source]
<1>1. PICK r \in Resolutions(v), n \in 0..2 :
        Resolve(v, r[1], r[2], n) /\ feed' = [feed EXCEPT ![v] = f(r[1], r[2])]
  BY DEF FirstResolve
<1>2. UNCHANGED <<targon, lium, mode, liumCache, payout, quoted>>
  BY DEF FirstResolve
<1> DEFINE per    == r[1]
           source == r[2]
<1>3. g \in Feeds /\ CycleInv(v) /\ DOMAIN feed = Validators /\ mode \in Modes
      /\ liumCache \in [Validators -> Prices] /\ Positive(liumCache[v])
  BY DEF FeedInv, ShapeInv, CacheInv
<1>4. /\ per \in Prices /\ ComesFrom(quoted, per, {v, Owner})
      /\ CardsArePositive => Positive(per)
      /\ source \in Tiers /\ Supplies(seen'[v], per, source)
      /\ targonCache' \in [Validators -> Prices] /\ seen' \in [Validators -> Histories]
      /\ \A w \in Validators \ {v} :
           targonCache'[w] = targonCache[w] /\ seen'[w] = seen[w]
      /\ Positive(liumCache'[v]) /\ quoted' = quoted => CacheInv(v)'
  BY <1>1, ResolveKeepsCaches
<1> HIDE DEF per, source
<1>5. /\ f(per, source) \in Feeds /\ f(per, source).pc = "price"
      /\ f(per, source).per = per /\ f(per, source).source = source
      /\ f(per, source).flags = mode
      /\ f(per, source).priced = g.priced /\ f(per, source).mode = g.mode
      /\ f(per, source).paid = g.paid
  BY <1>3, <1>4 DEF Feeds
<1>6. feed' = [feed EXCEPT ![v] = f(per, source)]
  BY <1>1 DEF per, source
<1>7. /\ g.priced # "none" => DOMAIN g.paid = Classes
      /\ CardsArePositive => Within(v, g.mode, g.paid)
  BY <1>3 DEF CycleInv
<1> HIDE DEF f, g
<1>8. feed'[v] = f(per, source)
  BY <1>3, <1>6
<1>9. CacheInv(v)'
  BY <1>2, <1>3, <1>4
<1>10. HalfInv(v)'
  BY <1>4, <1>5, <1>8 DEF HalfInv
<1>11. CycleInv(v)'
  BY <1>2, <1>3, <1>4, <1>5, <1>7, <1>8 DEF CycleInv
<1>12. StoreInv'
  BY <1>2 DEF FeedInv, StoreInv, Quoted
<1>13. QED
  BY <1>2, <1>3, <1>4, <1>5, <1>6, <1>9, <1>10, <1>11, <1>12, OneCycleKeepsInv

LEMMA SecondResolveKeepsInv ==
    ASSUME FeedInv, NEW v \in Validators, SecondResolve(v)
    PROVE  FeedInv'
<1> DEFINE g     == feed[v]
           flags == g.flags
           after == IF v = Owner THEN "publish" ELSE "idle"
           f(priced, paid) == [g EXCEPT !.pc = after, !.priced = priced, !.mode = flags,
                                        !.paid = paid]
           paidFor(per, l) == EffectiveCard(Own[v], Floors, flags, per, l)
<1>1. PICK r \in Resolutions(v), l \in {NoPrices, PerClassFromRows[lium], liumCache[v]},
           n \in 0..2, m \in 0..1 :
        /\ Resolve(v, r[1], r[2], n) /\ LiumFetched(v, l, m)
        /\ feed' = [feed EXCEPT ![v] = f(r[2], paidFor(r[1], l))]
  BY DEF SecondResolve
<1>2. g.pc = "price" /\ UNCHANGED <<targon, lium, mode, payout, quoted>>
  BY DEF SecondResolve
<1> DEFINE per    == r[1]
           priced == r[2]
           paid   == paidFor(per, l)
<1>3. /\ per \in Prices /\ priced \in Tiers /\ Supplies(seen'[v], per, priced)
      /\ targonCache' \in [Validators -> Prices] /\ seen' \in [Validators -> Histories]
      /\ \A w \in Validators \ {v} :
           targonCache'[w] = targonCache[w] /\ seen'[w] = seen[w]
      /\ Positive(liumCache'[v]) /\ quoted' = quoted => CacheInv(v)'
  BY <1>1, ResolveKeepsCaches
<1>4. /\ g \in Feeds /\ CycleInv(v) /\ DOMAIN feed = Validators
      /\ liumCache \in [Validators -> Prices] /\ Positive(liumCache[v])
  BY DEF FeedInv, ShapeInv, CacheInv
<1>5. /\ l \in Prices
      /\ liumCache' \in [Validators -> Prices] /\ Positive(liumCache'[v])
      /\ \A w \in Validators \ {v} : liumCache'[w] = liumCache[w]
      /\ ~flags["lium"] => l = NoPrices
  <2>1. CASE flags["lium"]
    <3>1. LiumMedians(v, l, m)
      BY <1>1, <2>1 DEF LiumFetched
    <3>2. QED
      BY <2>1, <3>1, LiumKeepsCaches
  <2>2. CASE ~flags["lium"]
    BY <1>1, <1>4, <2>2, NoPricesArePrices DEF LiumFetched
  <2>3. QED
    BY <2>1, <2>2
<1>6. flags \in Modes
  BY <1>2, <1>4 DEF CycleInv
<1> HIDE DEF per, priced
<1>7. /\ paid \in Prices /\ DOMAIN paid = Classes
      /\ CardsArePositive => Within(v, flags, paid)
  BY <1>3, <1>5, <1>6, EffectiveCardIsWithin
<1>8. ~flags["lium"] => paid = EffectiveCard(Own[v], Floors, flags, per, NoPrices)
  BY <1>5
<1> HIDE DEF paidFor, paid
<1>9. feed' = [feed EXCEPT ![v] = f(priced, paid)]
  BY <1>1 DEF per, priced, paid
<1> HIDE DEF flags
<1>10. /\ f(priced, paid) \in Feeds /\ f(priced, paid).pc \in {"publish", "idle"}
       /\ f(priced, paid).per = g.per /\ f(priced, paid).priced = priced
       /\ f(priced, paid).mode = flags /\ f(priced, paid).paid = paid
  <2>1. after \in {"publish", "idle"}
    OBVIOUS
  <2> HIDE DEF after
  <2>2. QED
    BY <1>3, <1>4, <1>6, <1>7, <2>1 DEF Feeds
<1>11. /\ ComesFrom(quoted, g.per, {v, Owner})
       /\ CardsArePositive => Positive(g.per)
  BY <1>4 DEF CycleInv
<1> HIDE DEF f, g
<1>12. feed'[v] = f(priced, paid)
  BY <1>4, <1>9
<1>13. CacheInv(v)'
  BY <1>2, <1>3, <1>5
<1>14. HalfInv(v)'
  BY <1>3, <1>8, <1>10, <1>12 DEF HalfInv
<1>15. CycleInv(v)'
  BY <1>2, <1>7, <1>10, <1>11, <1>12 DEF CycleInv
<1>16. StoreInv'
  BY <1>2 DEF FeedInv, StoreInv, Quoted
<1>17. QED
  BY <1>2, <1>3, <1>5, <1>9, <1>10, <1>13, <1>14, <1>15, <1>16, OneCycleKeepsInv

\* What the owner publishes came out of its first half: quotes and its own card.
LEMMA PublishKeepsInv ==
    ASSUME FeedInv, PublishPayout
    PROVE  FeedInv'
<1> DEFINE g == feed[Owner]
           f == [g EXCEPT !.pc = "display"]
<1>1. Owner \in Validators
  BY DEF Validators
<1>2. /\ g.pc = "publish" /\ feed' = [feed EXCEPT ![Owner] = f]
      /\ payout' = g.per \/ payout' = payout
      /\ UNCHANGED <<targon, lium, mode, targonCache, liumCache, seen, quoted>>
  BY DEF PublishPayout
<1>3. g \in Feeds /\ CacheInv(Owner) /\ HalfInv(Owner) /\ CycleInv(Owner)
      /\ DOMAIN feed = Validators
  BY <1>1 DEF FeedInv, ShapeInv
<1>4. /\ f \in Feeds /\ f.pc = "display" /\ f.per = g.per /\ f.priced = g.priced
      /\ f.mode = g.mode /\ f.paid = g.paid
  BY <1>3 DEF Feeds
<1>5. /\ ComesFrom(quoted, g.per, {Owner}) /\ g.per \in Prices
      /\ CardsArePositive => Positive(g.per)
  <2>1. {Owner, Owner} = {Owner}
    OBVIOUS
  <2>2. QED
    BY <1>3, <2>1 DEF CycleInv, Feeds
<1>6. StoreInv'
  <2>1. Quoted(targon)' \subseteq quoted'
    BY <1>2 DEF FeedInv, StoreInv, Quoted
  <2>2. /\ ComesFrom(quoted, payout', {Owner}) /\ payout' \in Prices
        /\ CardsArePositive => Positive(payout')
    BY <1>2, <1>5 DEF FeedInv, StoreInv
  <2>3. QED
    BY <1>2, <2>1, <2>2 DEF StoreInv
<1>7. CacheInv(Owner)'
  BY <1>2, <1>3 DEF CacheInv
<1>8. HalfInv(Owner)' /\ CycleInv(Owner)'
  <2>1. feed'[Owner] = f
    BY <1>1, <1>2, <1>3
  <2> HIDE DEF f
  <2>2. HalfInv(Owner)'
    BY <1>1, <1>2, <1>3, <1>4, <2>1, HalfUndisturbed
  <2>3. /\ g.priced # "none" => DOMAIN g.paid = Classes
        /\ ComesFrom(quoted, g.per, {Owner, Owner})
        /\ CardsArePositive => Positive(g.per) /\ Within(Owner, g.mode, g.paid)
    BY <1>3 DEF CycleInv
  <2> HIDE DEF g
  <2>4. QED
    BY <1>2, <1>4, <2>1, <2>2, <2>3 DEF CycleInv
<1> HIDE DEF f, g
<1>9. QED
  BY <1>1, <1>2, <1>4, <1>6, <1>7, <1>8, OneCycleKeepsInv DEF FeedInv, ShapeInv

\* The dashboard's medians and a skipped cycle end it and change no price.
LEMMA EndKeepsInv ==
    ASSUME FeedInv, LiumSnapshot \/ SkipCycle
    PROVE  FeedInv'
<1> DEFINE g == feed[Owner]
           f == [g EXCEPT !.pc = "idle"]
<1>1. Owner \in Validators
  BY DEF Validators
<1>2. /\ g.pc \in {"publish", "display"} /\ feed' = [feed EXCEPT ![Owner] = f]
      /\ \/ \E l, n : LiumMedians(Owner, l, n)
         \/ liumCache' = liumCache
      /\ UNCHANGED <<targon, lium, mode, targonCache, seen, payout, quoted>>
  BY DEF LiumSnapshot, SkipCycle
<1>3. g \in Feeds /\ CacheInv(Owner) /\ HalfInv(Owner) /\ CycleInv(Owner)
      /\ DOMAIN feed = Validators /\ liumCache \in [Validators -> Prices]
      /\ Positive(liumCache[Owner])
  BY <1>1 DEF FeedInv, ShapeInv, CacheInv
<1>4. /\ f \in Feeds /\ f.pc = "idle" /\ f.per = g.per /\ f.priced = g.priced
      /\ f.mode = g.mode /\ f.paid = g.paid
  BY <1>3 DEF Feeds
<1>5. /\ liumCache' \in [Validators -> Prices] /\ Positive(liumCache'[Owner])
      /\ \A w \in Validators \ {Owner} : liumCache'[w] = liumCache[w]
  BY <1>1, <1>2, <1>3, LiumKeepsCaches
<1>6. StoreInv'
  BY <1>2 DEF FeedInv, StoreInv, Quoted
<1>7. CacheInv(Owner)'
  BY <1>2, <1>3, <1>5 DEF CacheInv
<1>8. HalfInv(Owner)' /\ CycleInv(Owner)'
  <2>1. feed'[Owner] = f
    BY <1>1, <1>2, <1>3
  <2> HIDE DEF f
  <2>2. HalfInv(Owner)'
    BY <1>1, <1>2, <1>3, <1>4, <2>1, HalfUndisturbed
  <2>3. /\ g.priced # "none" => DOMAIN g.paid = Classes
        /\ ComesFrom(quoted, g.per, {Owner, Owner})
        /\ CardsArePositive => Positive(g.per) /\ Within(Owner, g.mode, g.paid)
    BY <1>3 DEF CycleInv
  <2> HIDE DEF g
  <2>4. QED
    BY <1>2, <1>4, <2>1, <2>2, <2>3 DEF CycleInv
<1> HIDE DEF f, g
<1>9. QED
  BY <1>1, <1>2, <1>4, <1>5, <1>6, <1>7, <1>8, OneCycleKeepsInv DEF FeedInv, ShapeInv

\* A validator that starts over finds its files or none, and has seen what it has seen.
LEMMA RestartKeepsInv ==
    ASSUME FeedInv, NEW v \in Validators, Restart(v)
    PROVE  FeedInv'
<1> DEFINE kept == seen[v].kept /\ targonCache' = targonCache
           h    == [seen[v] EXCEPT !.kept = kept]
<1>1. /\ feed' = [feed EXCEPT ![v] = Started(v)]
      /\ \/ targonCache' = targonCache
         \/ targonCache' = [targonCache EXCEPT ![v] = NoPrices]
      /\ \/ liumCache' = liumCache
         \/ liumCache' = [liumCache EXCEPT ![v] = NoPrices]
      /\ UNCHANGED <<targon, lium, mode, payout, quoted>>
  BY DEF Restart
<1>2. seen' = [seen EXCEPT ![v] = h]
  BY DEF Restart
<1>3. /\ targonCache \in [Validators -> Prices] /\ liumCache \in [Validators -> Prices]
      /\ seen \in [Validators -> Histories] /\ feed \in [Validators -> Feeds]
      /\ CacheInv(v)
  BY DEF FeedInv, ShapeInv
<1>4. /\ h \in Histories /\ h.last = seen[v].last /\ h.all = seen[v].all
      /\ h.kept => seen[v].kept /\ targonCache' = targonCache
  <2>1. kept \in BOOLEAN /\ (kept => seen[v].kept /\ targonCache' = targonCache)
    BY <1>3 DEF Histories
  <2> HIDE DEF kept
  <2>2. QED
    BY <1>3, <2>1 DEF Histories
<1> HIDE DEF h
<1>5. /\ targonCache' \in [Validators -> Prices] /\ liumCache' \in [Validators -> Prices]
      /\ seen' \in [Validators -> Histories]
      /\ \A w \in Validators \ {v} :
            /\ targonCache'[w] = targonCache[w] /\ liumCache'[w] = liumCache[w]
            /\ seen'[w] = seen[w]
  BY <1>1, <1>2, <1>3, <1>4, NoPricesArePrices
<1>6. /\ feed'[v] = Started(v) /\ seen'[v] = h
      /\ targonCache'[v] = NoPrices \/ targonCache'[v] = targonCache[v]
      /\ liumCache'[v] = NoPrices \/ liumCache'[v] = liumCache[v]
  BY <1>1, <1>2, <1>3
<1>7. CacheInv(v)'
  <2>1. ComesFrom(quoted, NoPrices, {})
    BY NoPricesArePrices DEF ComesFrom, Empty
  <2>2. /\ Empty(targonCache'[v]) \/ targonCache'[v] \in h.all
        /\ h.kept => targonCache'[v] = h.last
    BY <1>3, <1>4, <1>6, NoPricesArePrices DEF CacheInv
  <2>3. /\ Positive(targonCache'[v]) /\ Positive(liumCache'[v])
        /\ ComesFrom(quoted, targonCache'[v], {})
    BY <1>3, <1>6, <2>1, NoPricesArePrices DEF CacheInv
  <2>4. QED
    BY <1>1, <1>6, <2>2, <2>3 DEF CacheInv
<1>8. HalfInv(v)' /\ CycleInv(v)'
  <2>1. DOMAIN NoPrices = {}
    BY DEF NoPrices
  <2>2. QED
    BY <1>6, <2>1, NoPricesArePrices, StartedIsFeed
       DEF HalfInv, CycleInv, ComesFrom, Within
<1>9. StoreInv'
  BY <1>1 DEF FeedInv, StoreInv, Quoted
<1>10. QED
  BY <1>1, <1>5, <1>7, <1>8, <1>9, StartedIsFeed, OneCycleKeepsInv

LEMMA NextKeepsInv ==
    ASSUME FeedInv, [Next]_vars
    PROVE  FeedInv'
<1>1. CASE Next
  BY <1>1, MarketKeepsInv, FirstResolveKeepsInv, SecondResolveKeepsInv, RestartKeepsInv,
     BannerKeepsInv, PublishKeepsInv, EndKeepsInv DEF Next
<1>2. CASE UNCHANGED vars
  BY <1>2 DEF vars, FeedInv, ShapeInv, StoreInv, CacheInv, HalfInv, CycleInv, Quoted
<1>3. QED
  BY <1>1, <1>2

LEMMA InvariantHolds == Spec => []FeedInv
<1>1. Init => FeedInv
  BY FeedInvInit
<1>2. FeedInv /\ [Next]_vars => FeedInv'
  BY NextKeepsInv
<1>3. QED
  BY <1>1, <1>2, PTL DEF Spec

-----------------------------------------------------------------------------
(* Theorems *)

\* targon_payout_feed.py reads its own cache before the owner's snapshot and tries to
\* write it with every live answer.  Whatever the market, the store, the disk and the
\* process suffer, a dark cycle pays a whole quote this validator fetched itself, the
\* last one as long as the disk took it and kept it; it falls back on payout.json or
\* on the card only if the disk did not, or if it never fetched a quote.
THEOREM DarkCyclesPayTheLastQuote == Spec => []FallsBackToLastSeen
<1>1. FeedInv => FallsBackToLastSeen
  <2> SUFFICES ASSUME FeedInv, NEW v \in Validators
               PROVE  LET half == IF feed[v].pc = "price" THEN feed[v].source
                                  ELSE feed[v].priced
                      IN  /\ half = "live" => PricedWith(v, seen[v].last)
                          /\ half = "cache" => \E q \in seen[v].all : PricedWith(v, q)
                          /\ half = "cache" /\ seen[v].kept => PricedWith(v, seen[v].last)
                          /\ half \in {"published", "card"} =>
                                ~seen[v].kept \/ Empty(seen[v].last)
    BY DEF FallsBackToLastSeen
  <2>1. HalfInv(v)
    BY DEF FeedInv
  <2>2. CASE feed[v].pc = "price"
    BY <2>1, <2>2 DEF HalfInv, Supplies, PricedWith
  <2>3. CASE feed[v].pc # "price" /\ feed[v].priced = "none"
    BY <2>3
  <2>4. CASE feed[v].pc # "price" /\ feed[v].priced # "none"
    <3>1. PICK per \in Prices :
            /\ Supplies(seen[v], per, feed[v].priced)
            /\ ~feed[v].mode["lium"] =>
                  feed[v].paid = EffectiveCard(Own[v], Floors, feed[v].mode, per, NoPrices)
      BY <2>1, <2>4 DEF HalfInv
    <3>2. PricedWith(v, per)
      BY <2>4, <3>1 DEF PricedWith
    <3>3. QED
      BY <2>4, <3>1, <3>2 DEF Supplies
  <2>5. QED
    BY <2>2, <2>3, <2>4
<1>2. QED
  BY <1>1, InvariantHolds, PTL

\* payout.json holds per_card_usd of _targon_card's first half, never the effective
\* card: no sequence of publishing, caching and reading back puts a floor, a cap or
\* the market's 110% into the feed.
THEOREM MarkupStaysOut == Spec => []MarkupNeverFeedsBack
<1>1. FeedInv => MarkupNeverFeedsBack
  <2> SUFFICES ASSUME FeedInv PROVE MarkupNeverFeedsBack
    OBVIOUS
  <2>1. ComesFrom(quoted, payout, {Owner})
    BY DEF FeedInv, StoreInv
  <2>2. \A v \in Validators : /\ ComesFrom(quoted, targonCache[v], {})
                              /\ ComesFrom(quoted, feed[v].per, {v, Owner})
    BY DEF FeedInv, CacheInv, CycleInv
  <2>3. QED
    BY <2>1, <2>2 DEF MarkupNeverFeedsBack, ComesFrom
<1>2. QED
  BY <1>1, InvariantHolds, PTL

\* With positive cards no tier supplies a price outside the card or one that is not
\* positive, and effective_card prices every class.
THEOREM FeedTypes ==
    ASSUME CardsArePositive
    PROVE  Spec => []TypeOK
<1>1. FeedInv => TypeOK
  <2> SUFFICES ASSUME FeedInv PROVE TypeOK
    OBVIOUS
  <2>1. Positive(payout)
    BY CardsArePositive DEF FeedInv, StoreInv
  <2>2. ASSUME NEW v \in Validators
        PROVE  /\ Positive(targonCache[v]) /\ Positive(liumCache[v])
               /\ Positive(feed[v].per)
               /\ feed[v].pc \in {"banner", "idle", "price", "publish", "display"}
               /\ feed[v].priced # "none" => DOMAIN feed[v].paid = Classes
    <3>1. CacheInv(v) /\ CycleInv(v) /\ feed[v] \in Feeds
      BY DEF FeedInv, ShapeInv
    <3>2. QED
      BY <3>1, CardsArePositive DEF CacheInv, CycleInv, Feeds
  <2>3. QED
    BY <2>1, <2>2 DEF TypeOK
<1>2. QED
  BY <1>1, InvariantHolds, PTL

\* Floors and caps of targon_payout_feed.py hold for each price paid, for any card
\* with positive prices, any published floors and any quotes: with the Lium switch off
\* a class pays between its floor and its card, with it on not less than the floor.
THEOREM BoundsHold ==
    ASSUME CardsArePositive
    PROVE  Spec => []PaidWithinBounds
<1>1. FeedInv => PaidWithinBounds
  <2> SUFFICES ASSUME FeedInv PROVE PaidWithinBounds
    OBVIOUS
  <2>1. \A v \in Validators : Within(v, feed[v].mode, feed[v].paid)
    BY CardsArePositive DEF FeedInv, CycleInv
  <2>2. QED
    BY <2>1 DEF PaidWithinBounds, Within
<1>2. QED
  BY <1>1, InvariantHolds, PTL
=============================================================================
