--------------------------- MODULE PriceFeed_proofs ---------------------------
(***************************************************************************)
(* Proofs about PriceFeed, for any validators, prices, rates and emission, *)
(* and any number of changes, faults and cycles.                           *)
(***************************************************************************)
EXTENDS PriceFeed, TLAPS

\* What there is of prices outside of the running cycles was once quoted, and a
\* validator with a price on disk remembers one.
QuoteInv ==
    /\ market \in [tao : TaoPrices, rate : Rates] /\ up \subseteq Sources
    /\ cycle \in 0..MaxCycles
    /\ quoted \subseteq [usd : TaoPrices, at : 0..cycle]
    /\ payout \in [tao : quoted \cup {NoPrice}, alpha : Nat]
    /\ last \in [Validators -> quoted \cup {NoPrice}]
    /\ disk \in [Validators -> quoted \cup {NoPrice}]
    /\ \A v \in Validators : disk[v] # NoPrice => last[v] # NoPrice

Feeds ==
    [pc : {"idle", "tao", "alpha", "fallback", "pool", "publish"},
     spot : Nat, tao : [usd : Nat, at : Nat], alpha : Nat,
     poolTao : [usd : Nat, at : Nat], pool : Nat, live : SUBSET Sources, at : Nat,
     end : {"none", "price_feed", "unexpected"}]

ShapeInv == feed \in [Validators -> Feeds]

\* How far a cycle has got says which of its prices it has, and that its two
\* TAO/USD prices are in order: until the second is read the first is remembered.
CycleInv(v) ==
    LET f == feed[v]
    IN  /\ f.at <= cycle /\ f.live \subseteq up
        /\ f.tao \in quoted \cup {NoPrice} /\ f.poolTao \in quoted \cup {NoPrice}
        /\ f.pc \in {"alpha", "pool", "publish"} => f.tao \in quoted
        /\ f.pc \in {"pool", "publish"} => f.alpha > 0
        /\ f.pc \in {"tao", "alpha", "fallback", "pool"} => f.pool = 0
        /\ f.pc \in {"tao", "alpha", "fallback"} => f.poolTao = NoPrice
        /\ f.pc = "alpha" \/ (f.pc = "pool" /\ f.poolTao = NoPrice) => f.tao = last[v]
        /\ f.pc = "pool" /\ f.poolTao # NoPrice => f.poolTao = f.tao
        /\ f.pc = "publish" \/ f.pool > 0 =>
                f.tao \in quoted /\ f.poolTao \in quoted /\ f.tao.at <= f.poolTao.at

\* A source of TAO/USD and the chain have answered all along.
Fresh(v) ==
    /\ feed[v].live \cap {"taostats", "coingecko"} # {}
    /\ "spot" \in feed[v].live

\* Such a cycle needs no fallback, and what it has read is not older than it is.
FreshInv(v) ==
    LET f == feed[v]
    IN  Fresh(v) =>
          /\ f.pc # "fallback"
          /\ f.pc \in {"alpha", "pool", "publish"} \/ f.pool > 0 => f.tao.at >= f.at
          /\ f.pc = "publish" \/ f.pool > 0 => f.poolTao.at >= f.at

\* A cycle without a rate of the chain was not always able to get one, and a cycle
\* falls back only if no source of TAO/USD answered all along and nothing is in memory,
\* or if neither the chain nor Taostats had a rate all along.
LackInv(v) ==
    LET f == feed[v]
    IN  /\ f.pc \in {"tao", "alpha", "fallback"} /\ f.spot = 0 => "spot" \notin f.live
        /\ f.pc = "fallback" =>
              /\ last[v] = NoPrice => f.live \cap {"taostats", "coingecko"} = {}
              /\ f.spot = 0 => ~({"taostats", "poolPrice"} \subseteq f.live)

FeedInv ==
    /\ QuoteInv /\ ShapeInv
    /\ \A v \in Validators : CycleInv(v) /\ FreshInv(v) /\ LackInv(v)

-----------------------------------------------------------------------------
(* Prices *)

LEMMA ConstantsArePositive ==
    /\ \A p \in TaoPrices : p \in Nat /\ p > 0
    /\ \A r \in Rates : r \in Nat /\ r > 0
<1>1. \A p \in TaoPrices : p \in Nat /\ p # 0
  BY FeedAssumption
<1>2. \A r \in Rates : r \in Nat /\ r # 0
  BY FeedAssumption
<1>3. QED
  BY <1>1, <1>2

LEMMA QuotesArePrices ==
    ASSUME NEW n \in Nat, NEW Q, Q \subseteq [usd : TaoPrices, at : 0..n]
    PROVE  /\ \A p \in Q : /\ p \in [usd : Nat, at : Nat] /\ p.usd \in TaoPrices
                           /\ p.usd > 0 /\ p.at \in Nat /\ p.at <= n
           /\ NoPrice \in [usd : Nat, at : Nat] /\ NoPrice.usd = 0 /\ NoPrice.at = 0
           /\ NoPrice \notin Q
<1>1. NoPrice \in [usd : Nat, at : Nat] /\ NoPrice.usd = 0 /\ NoPrice.at = 0
  BY DEF NoPrice
<1>2. ASSUME NEW p \in Q
      PROVE  /\ p \in [usd : Nat, at : Nat] /\ p.usd \in TaoPrices
             /\ p.usd > 0 /\ p.at \in Nat /\ p.at <= n
  <2>1. p.usd \in TaoPrices /\ p.at \in 0..n /\ p = [usd |-> p.usd, at |-> p.at]
    OBVIOUS
  <2>2. p.usd \in Nat /\ p.usd > 0
    BY <2>1, ConstantsArePositive
  <2>3. p.at \in Nat /\ p.at <= n
    BY <2>1
  <2>4. p \in [usd : Nat, at : Nat]
    BY <2>1, <2>2, <2>3
  <2>5. QED
    BY <2>1, <2>2, <2>3, <2>4
<1>3. QED
  BY <1>1, <1>2

\* What is quoted or remembered is a price, and only what was quoted is worth
\* anything.
LEMMA QuotedPrices ==
    ASSUME QuoteInv
    PROVE  /\ \A p \in quoted : /\ p \in [usd : Nat, at : Nat] /\ p.usd \in TaoPrices
                                /\ p.usd > 0 /\ p.at \in Nat /\ p.at <= cycle
           /\ NoPrice \in [usd : Nat, at : Nat] /\ NoPrice.usd = 0 /\ NoPrice.at = 0
           /\ NoPrice \notin quoted
           /\ cycle \in Nat /\ cycle <= MaxCycles
<1>1. cycle \in Nat /\ cycle <= MaxCycles
  BY FeedAssumption DEF QuoteInv
<1>2. quoted \subseteq [usd : TaoPrices, at : 0..cycle]
  BY DEF QuoteInv
<1>3. QED
  BY <1>1, <1>2, QuotesArePrices

\* The rates are numbers, and the pool is never worth nothing.
LEMMA RatesAreNumbers ==
    ASSUME QuoteInv
    PROVE  /\ Spot \in Nat /\ market.rate \in Nat /\ market.rate > 0
           /\ "spot" \in up => Spot > 0
           /\ RatioOfReserves(market.rate) \in Nat
<1>1. market.rate \in Nat /\ market.rate > 0
  BY ConstantsArePositive DEF QuoteInv
<1>2. Scale * Scale \in Nat
  BY FeedAssumption
<1>3. RatioOfReserves(market.rate) \in Nat
  BY <1>1, <1>2 DEF RatioOfReserves
<1>4. QED
  BY <1>1, <1>3 DEF Spot

LEMMA PoolIsPositive ==
    ASSUME NEW tao \in Nat, NEW spot \in Nat
    PROVE  EmissionPoolUsd(tao, spot) \in Nat /\ EmissionPoolUsd(tao, spot) > 0
<1>1. CASE tao > 0 /\ spot > 0
  <2>1. Emission \in Nat /\ Emission > 0
    BY FeedAssumption
  <2>2. Emission * tao \in Nat /\ Emission * tao > 0
    BY <1>1, <2>1
  <2>3. Emission * tao * spot \in Nat /\ Emission * tao * spot > 0
    BY <1>1, <2>2
  <2>4. QED
    BY <1>1, <2>3 DEF EmissionPoolUsd
<1>2. CASE ~(tao > 0 /\ spot > 0)
  BY <1>2 DEF EmissionPoolUsd
<1>3. QED
  BY <1>1, <1>2

-----------------------------------------------------------------------------
(* What the steps of a cycle do to the prices *)

\* Seeding takes what was published, if anything was, and forgets nothing.
LEMMA SeedRemembers ==
    ASSUME QuoteInv, NEW v \in Validators, NEW published, GetPayout(published),
           Seed(v, published)
    PROVE  /\ published \in [tao : quoted \cup {NoPrice}, alpha : Nat]
           /\ last' \in [Validators -> quoted \cup {NoPrice}]
           /\ \A w \in Validators \ {v} : last'[w] = last[w]
           /\ last'[v] = IF published.tao = NoPrice THEN last[v] ELSE published.tao
           /\ \A w \in Validators : disk[w] # NoPrice => last'[w] # NoPrice
<1>1. published \in [tao : quoted \cup {NoPrice}, alpha : Nat]
  BY DEF GetPayout, QuoteInv
<1>2. published.tao.usd > 0 <=> published.tao # NoPrice
  BY <1>1, QuotedPrices
<1>3. last \in [Validators -> quoted \cup {NoPrice}]
  BY DEF QuoteInv
<1>4. last' = IF published.tao # NoPrice THEN [last EXCEPT ![v] = published.tao] ELSE last
  BY <1>2 DEF Seed
<1>5. /\ last' \in [Validators -> quoted \cup {NoPrice}]
      /\ \A w \in Validators \ {v} : last'[w] = last[w]
      /\ last'[v] = IF published.tao = NoPrice THEN last[v] ELSE published.tao
  BY <1>1, <1>3, <1>4
<1>6. QED
  BY <1>1, <1>5 DEF QuoteInv

\* A read of TAO/USD is a quote of this moment, or what is remembered when no
\* source answers.
LEMMA ReadOfTao ==
    ASSUME QuoteInv, NEW v \in Validators, NEW tao, TaoUsd(v, tao),
           UNCHANGED <<market, up, payout, cycle>>
    PROVE  /\ QuoteInv'
           /\ quoted \subseteq quoted'
           /\ tao = last'[v] /\ tao \in quoted' \cup {NoPrice}
           /\ \A w \in Validators \ {v} : last'[w] = last[w]
           /\ \/ tao \in quoted' /\ tao.at = cycle
              \/ tao = last[v] /\ {"taostats", "coingecko"} \cap up = {}
<1>1. CASE LiveTao(v, tao)
  <2>1. /\ tao = [usd |-> market.tao, at |-> cycle]
        /\ last' = [last EXCEPT ![v] = tao]
        /\ \/ disk' = [disk EXCEPT ![v] = tao]
           \/ disk' = disk
           \/ disk' = [disk EXCEPT ![v] = NoPrice]
        /\ quoted' = quoted \cup {tao}
    BY <1>1 DEF LiveTao, Live, SaveTao
  <2>2. tao \in [usd : TaoPrices, at : 0..cycle] /\ tao.at = cycle
    BY <2>1, QuotedPrices DEF QuoteInv
  <2>3. tao # NoPrice
    BY <2>2, FeedAssumption DEF NoPrice
  <2>4. QuoteInv'
    <3>1. quoted' \subseteq [usd : TaoPrices, at : 0..cycle']
      BY <2>1, <2>2 DEF QuoteInv
    <3>2. payout' \in [tao : quoted' \cup {NoPrice}, alpha : Nat]
      BY <2>1 DEF QuoteInv
    <3>3. /\ last' \in [Validators -> quoted' \cup {NoPrice}]
          /\ disk' \in [Validators -> quoted' \cup {NoPrice}]
          /\ \A w \in Validators : disk'[w] # NoPrice => last'[w] # NoPrice
      BY <2>1, <2>3 DEF QuoteInv
    <3>4. QED
      BY <3>1, <3>2, <3>3 DEF QuoteInv
  <2>5. QED
    BY <2>1, <2>2, <2>4 DEF QuoteInv
<1>2. CASE RememberedTao(v, tao)
  <2>1. tao = last[v] /\ {"taostats", "coingecko"} \cap up = {}
        /\ UNCHANGED <<last, disk, quoted>>
    BY <1>2 DEF RememberedTao
  <2>2. QED
    BY <2>1 DEF QuoteInv
<1>3. QED
  BY <1>1, <1>2 DEF TaoUsd

\* A cycle is not disturbed by what others do.
LEMMA OthersUndisturbed ==
    ASSUME QuoteInv, QuoteInv', NEW v \in Validators, CycleInv(v), FreshInv(v), LackInv(v),
           feed[v] \in Feeds,
           feed'[v] = feed[v], last'[v] = last[v],
           quoted \subseteq quoted', cycle <= cycle', up' = up
    PROVE  CycleInv(v)' /\ FreshInv(v)' /\ LackInv(v)'
<1>1. feed[v].at \in Nat /\ cycle \in Nat /\ cycle' \in Nat
  BY QuotedPrices, FeedAssumption DEF Feeds, QuoteInv
<1>2. CycleInv(v)'
  BY <1>1 DEF CycleInv
<1>3. FreshInv(v)'
  BY DEF FreshInv, Fresh
<1>4. LackInv(v)'
  BY DEF LackInv
<1>5. QED
  BY <1>2, <1>3, <1>4

LEMMA OneCycleKeepsInv ==
    ASSUME FeedInv, QuoteInv', NEW v \in Validators, NEW f \in Feeds, feed' = Set(v, f),
           \A w \in Validators \ {v} : last'[w] = last[w],
           quoted \subseteq quoted', cycle <= cycle', up' = up,
           CycleInv(v)', FreshInv(v)', LackInv(v)'
    PROVE  FeedInv'
<1>1. ShapeInv'
  BY DEF FeedInv, ShapeInv, Set
<1>2. \A w \in Validators \ {v} : feed'[w] = feed[w] /\ feed[w] \in Feeds
  BY DEF FeedInv, ShapeInv, Set
<1>3. ASSUME NEW w \in Validators \ {v} PROVE CycleInv(w)' /\ FreshInv(w)' /\ LackInv(w)'
  <2>1. QuoteInv /\ CycleInv(w) /\ FreshInv(w) /\ LackInv(w)
    BY DEF FeedInv
  <2>2. QED
    BY <1>2, <2>1, OthersUndisturbed
<1>4. QED
  BY <1>1, <1>3 DEF FeedInv

LEMMA NoCycleIsFeed == NoCycle \in Feeds
<1>1. NoPrice \in [usd : Nat, at : Nat]
  BY DEF NoPrice
<1>2. QED
  BY <1>1 DEF NoCycle, Feeds

LEMMA FeedInvInit == Init => FeedInv
<1> SUFFICES ASSUME Init PROVE FeedInv
  OBVIOUS
<1>1. QuoteInv
  BY FeedAssumption DEF Init, QuoteInv
<1>2. ShapeInv
  BY NoCycleIsFeed DEF Init, ShapeInv
<1>3. \A v \in Validators : CycleInv(v) /\ FreshInv(v) /\ LackInv(v)
  <2>1. \A v \in Validators : feed[v] = NoCycle /\ cycle = 0
    BY DEF Init
  <2>2. QED
    BY <2>1 DEF CycleInv, FreshInv, Fresh, LackInv, NoCycle
<1>4. QED
  BY <1>1, <1>2, <1>3 DEF FeedInv

LEMMA StartKeepsInv ==
    ASSUME FeedInv, NEW v \in Validators, StartCycle(v)
    PROVE  FeedInv'
<1>1. QuoteInv /\ DOMAIN feed = Validators
  BY DEF FeedInv, ShapeInv
<1>2. PICK published : GetPayout(published) /\ Seed(v, published)
  BY DEF StartCycle
<1>3. /\ UNCHANGED <<market, up, payout, disk, quoted>>
      /\ cycle' \in 0..MaxCycles /\ cycle <= cycle'
  <2>1. cycle' = cycle \/ (cycle' = cycle + 1 /\ cycle < MaxCycles)
    BY DEF StartCycle, Starts
  <2>2. QED
    BY <1>1, <2>1, QuotedPrices, FeedAssumption DEF StartCycle, Starts
<1>4. /\ last' \in [Validators -> quoted \cup {NoPrice}]
      /\ \A w \in Validators \ {v} : last'[w] = last[w]
      /\ \A w \in Validators : disk[w] # NoPrice => last'[w] # NoPrice
  BY <1>1, <1>2, SeedRemembers
<1>5. QuoteInv'
  <2>1. 0..cycle \subseteq 0..cycle'
    BY <1>1, <1>3, QuotedPrices
  <2>2. quoted \subseteq [usd : TaoPrices, at : 0..cycle']
    BY <1>1, <2>1 DEF QuoteInv
  <2>3. QED
    BY <1>1, <1>3, <1>4, <2>2 DEF QuoteInv
<1> DEFINE f == [NoCycle EXCEPT !.pc = "tao", !.spot = Spot, !.live = up, !.at = cycle']
<1>6. feed' = Set(v, f)
  BY DEF StartCycle
<1>7. up \in SUBSET Sources /\ cycle' \in Nat /\ Spot \in Nat
      /\ ("spot" \in up => Spot > 0)
  BY <1>1, <1>3, RatesAreNumbers DEF QuoteInv
<1>8. /\ f \in Feeds
      /\ f.pc = "tao" /\ f.live = up /\ f.at = cycle' /\ f.spot = Spot
      /\ f.tao = NoCycle.tao /\ f.poolTao = NoCycle.poolTao /\ f.pool = NoCycle.pool
  BY <1>7, NoCycleIsFeed DEF Feeds
<1>9. NoCycle.tao = NoPrice /\ NoCycle.poolTao = NoPrice /\ NoCycle.pool = 0
  BY DEF NoCycle
<1> HIDE DEF f
<1>10. feed'[v] = f
  BY <1>1, <1>6 DEF Set
<1>11. CycleInv(v)' /\ FreshInv(v)' /\ LackInv(v)'
  BY <1>3, <1>7, <1>8, <1>9, <1>10 DEF CycleInv, FreshInv, Fresh, LackInv
<1>12. QED
  BY <1>3, <1>4, <1>5, <1>6, <1>8, <1>11, OneCycleKeepsInv

LEMMA ReadTaoKeepsInv ==
    ASSUME FeedInv, NEW v \in Validators, ReadTao(v)
    PROVE  FeedInv'
<1> DEFINE g     == feed[v]
           f(tao) == [g EXCEPT !.tao = tao,
                               !.pc = IF tao.usd > 0 THEN "alpha" ELSE "fallback"]
<1>1. PICK tao : TaoUsd(v, tao) /\ feed' = Set(v, f(tao))
  BY DEF ReadTao
<1>2. g.pc = "tao" /\ UNCHANGED <<market, up, payout, cycle>>
  BY DEF ReadTao
<1>3. g \in Feeds /\ QuoteInv /\ CycleInv(v) /\ LackInv(v) /\ DOMAIN feed = Validators
  BY DEF FeedInv, ShapeInv
<1>4. /\ QuoteInv'
      /\ quoted \subseteq quoted'
      /\ tao = last'[v] /\ tao \in quoted' \cup {NoPrice}
      /\ \A w \in Validators \ {v} : last'[w] = last[w]
      /\ \/ tao \in quoted' /\ tao.at = cycle
         \/ tao = last[v] /\ {"taostats", "coingecko"} \cap up = {}
  BY <1>1, <1>2, <1>3, ReadOfTao
<1>5. tao \in [usd : Nat, at : Nat] /\ (tao.usd > 0 <=> tao \in quoted')
  <2>1. quoted' \subseteq [usd : TaoPrices, at : 0..cycle']
    BY <1>4 DEF QuoteInv
  <2>2. cycle' \in Nat
    BY <1>2, <1>3, QuotedPrices
  <2>3. QED
    BY <1>4, <2>1, <2>2, QuotesArePrices
<1>6. /\ f(tao) \in Feeds
      /\ f(tao).pc = IF tao.usd > 0 THEN "alpha" ELSE "fallback"
      /\ f(tao).tao = tao /\ f(tao).poolTao = g.poolTao /\ f(tao).pool = g.pool
      /\ f(tao).live = g.live /\ f(tao).at = g.at /\ f(tao).spot = g.spot
  BY <1>3, <1>5 DEF Feeds
<1>7. /\ g.at <= cycle /\ g.live \subseteq up
      /\ g.poolTao = NoPrice /\ g.pool = 0
      /\ g.spot = 0 => "spot" \notin g.live
  BY <1>2, <1>3 DEF CycleInv, LackInv
<1> HIDE DEF f, g
<1>8. feed'[v] = f(tao)
  BY <1>1, <1>3 DEF Set
<1>9. CycleInv(v)'
  BY <1>2, <1>4, <1>5, <1>6, <1>7, <1>8 DEF CycleInv
<1>10. FreshInv(v)'
  <2>1. ASSUME Fresh(v)' PROVE tao \in quoted' /\ tao.at = cycle
    BY <1>4, <1>6, <1>7, <1>8, <2>1 DEF Fresh
  <2>2. QED
    BY <1>5, <1>6, <1>7, <1>8, <2>1 DEF FreshInv
<1>11. LackInv(v)'
  <2>1. CASE tao.usd > 0
    BY <1>6, <1>7, <1>8, <2>1 DEF LackInv
  <2>2. CASE ~(tao.usd > 0)
    <3>1. {"taostats", "coingecko"} \cap up = {}
      BY <1>4, <1>5, <2>2
    <3>2. g.live \cap {"taostats", "coingecko"} = {} /\ "taostats" \notin g.live
      BY <1>7, <3>1
    <3>3. QED
      BY <1>6, <1>7, <1>8, <3>2 DEF LackInv
  <2>3. QED
    BY <2>1, <2>2
<1>12. cycle <= cycle' /\ up' = up
  BY <1>2, <1>3, QuotedPrices
<1>13. QED
  BY <1>1, <1>4, <1>6, <1>9, <1>10, <1>11, <1>12, OneCycleKeepsInv

\* With the chain's price there is a rate, and no fallback.
LEMMA ReadAlphaKeepsInv ==
    ASSUME FeedInv, NEW v \in Validators, ReadAlpha(v)
    PROVE  FeedInv'
<1> DEFINE g == feed[v]
           spot == IF g.spot > 0 THEN g.spot ELSE Spot
           rate == IF spot > 0 THEN spot
                   ELSE IF "taostats" \notin up THEN 0
                   ELSE IF "poolPrice" \in up THEN market.rate
                   ELSE RatioOfReserves(market.rate)
           pc   == IF rate > 0 THEN "pool" ELSE "fallback"
           f    == [g EXCEPT !.spot = spot, !.alpha = rate, !.pc = pc]
<1>1. /\ g.pc = "alpha" /\ feed' = Set(v, f)
      /\ UNCHANGED <<market, up, payout, cycle, last, disk, quoted>>
  BY DEF ReadAlpha
<1>2. g \in Feeds /\ QuoteInv /\ CycleInv(v) /\ FreshInv(v) /\ DOMAIN feed = Validators
  BY DEF FeedInv, ShapeInv
<1>3. /\ g.spot \in Nat /\ Spot \in Nat /\ market.rate \in Nat
      /\ RatioOfReserves(market.rate) \in Nat /\ ("spot" \in up => Spot > 0)
  BY <1>2, RatesAreNumbers DEF Feeds
<1>4. /\ spot \in Nat /\ rate \in Nat /\ ("spot" \in up => rate > 0)
      /\ ~(rate > 0) => ~({"taostats", "poolPrice"} \subseteq up)
  BY <1>3, <1>2, RatesAreNumbers
<1> HIDE DEF spot, rate
<1>5. /\ f \in Feeds
      /\ f.pc = pc /\ f.alpha = rate /\ f.tao = g.tao /\ f.poolTao = g.poolTao
      /\ f.pool = g.pool /\ f.live = g.live /\ f.at = g.at /\ f.spot = spot
  BY <1>2, <1>4 DEF Feeds
<1>6. QuoteInv'
  BY <1>1, <1>2 DEF QuoteInv
<1>7. /\ g.at <= cycle /\ g.live \subseteq up /\ g.poolTao = NoPrice /\ g.pool = 0
      /\ g.tao \in quoted /\ g.tao = last[v]
  BY <1>1, <1>2 DEF CycleInv
<1>8. Fresh(v) => g.tao.at >= g.at
  BY <1>1, <1>2 DEF FreshInv
<1> HIDE DEF f, g
<1>9. feed'[v] = f
  BY <1>1, <1>2 DEF Set
<1>10. CycleInv(v)'
  BY <1>1, <1>5, <1>7, <1>9 DEF CycleInv
<1>11. FreshInv(v)'
  <2>1. Fresh(v)' => Fresh(v) /\ "spot" \in up
    BY <1>5, <1>7, <1>9 DEF Fresh, g
  <2>2. QED
    BY <1>4, <1>5, <1>7, <1>8, <1>9, <2>1 DEF FreshInv
<1>12. LackInv(v)'
  <2>1. last'[v] # NoPrice
    BY <1>1, <1>2, <1>7, QuotedPrices
  <2>2. ~(rate > 0) => "spot" \notin g.live /\ ~({"taostats", "poolPrice"} \subseteq g.live)
    BY <1>4, <1>7
  <2>3. QED
    BY <1>4, <1>5, <1>9, <2>1, <2>2 DEF LackInv
<1>13. cycle <= cycle' /\ up' = up /\ UNCHANGED last /\ quoted \subseteq quoted'
  BY <1>1, <1>2, QuotedPrices
<1>14. QED
  BY <1>1, <1>5, <1>6, <1>10, <1>11, <1>12, <1>13, OneCycleKeepsInv

\* Only a cycle that is not fresh falls back, and then uses one price for both.
LEMMA FallbackKeepsInv ==
    ASSUME FeedInv, NEW v \in Validators, Fallback(v)
    PROVE  FeedInv'
<1> DEFINE g == feed[v]
           none == [g EXCEPT !.pc = "idle", !.tao = NoPrice, !.end = "price_feed"]
           f(tao, alpha) == [g EXCEPT !.pc = "pool", !.tao = tao, !.alpha = alpha,
                                      !.poolTao = tao]
<1>1. PICK published, tao, alpha :
        /\ GetPayout(published) /\ FallbackPrice(v, published, tao, alpha)
        /\ feed' = Set(v, IF Unpriced(tao, alpha) THEN none ELSE f(tao, alpha))
  BY DEF Fallback
<1>2. g.pc = "fallback" /\ UNCHANGED <<market, up, payout, cycle, disk, quoted>>
  BY DEF Fallback
<1>3. g \in Feeds /\ QuoteInv /\ CycleInv(v) /\ FreshInv(v) /\ DOMAIN feed = Validators
  BY DEF FeedInv, ShapeInv
<1>4. /\ published \in [tao : quoted \cup {NoPrice}, alpha : Nat]
      /\ last' \in [Validators -> quoted \cup {NoPrice}]
      /\ \A w \in Validators \ {v} : last'[w] = last[w]
      /\ \A w \in Validators : disk[w] # NoPrice => last'[w] # NoPrice
  BY <1>1, <1>3, SeedRemembers DEF FallbackPrice
<1>5. QuoteInv'
  BY <1>2, <1>3, <1>4 DEF QuoteInv
<1>6. /\ tao = last'[v] /\ tao \in quoted \cup {NoPrice} /\ alpha \in Nat
  <2>1. published.alpha \in Nat /\ g.spot \in Nat
    BY <1>3, <1>4 DEF Feeds
  <2>2. QED
    BY <1>1, <1>4, <2>1 DEF FallbackPrice
<1>7. /\ tao \in [usd : Nat, at : Nat] /\ NoPrice \in [usd : Nat, at : Nat]
      /\ NoPrice \notin quoted
      /\ ~Unpriced(tao, alpha) => tao \in quoted /\ alpha > 0
  BY <1>3, <1>6, QuotedPrices DEF Unpriced
<1>8. /\ none \in Feeds
      /\ none.pc = "idle" /\ none.tao = NoPrice /\ none.poolTao = g.poolTao
      /\ none.pool = g.pool /\ none.live = g.live /\ none.at = g.at
  BY <1>3, <1>7 DEF Feeds
<1>9. /\ f(tao, alpha) \in Feeds
      /\ f(tao, alpha).pc = "pool" /\ f(tao, alpha).tao = tao
      /\ f(tao, alpha).poolTao = tao /\ f(tao, alpha).alpha = alpha
      /\ f(tao, alpha).pool = g.pool /\ f(tao, alpha).live = g.live
      /\ f(tao, alpha).at = g.at
  BY <1>3, <1>6, <1>7 DEF Feeds
<1>10. /\ g.at <= cycle /\ g.live \subseteq up /\ g.poolTao = NoPrice /\ g.pool = 0
       /\ ~Fresh(v)
  BY <1>2, <1>3 DEF CycleInv, FreshInv
<1>11. PICK h : /\ h = IF Unpriced(tao, alpha) THEN none ELSE f(tao, alpha)
                /\ feed' = Set(v, h)
  BY <1>1
<1> HIDE DEF none, f
<1>12. h \in Feeds /\ h.live = g.live /\ h.pc \in {"idle", "pool"}
  BY <1>8, <1>9, <1>11
<1>13. feed'[v] = h
  BY <1>3, <1>11 DEF Set
<1>14. FreshInv(v)' /\ LackInv(v)'
  BY <1>10, <1>12, <1>13 DEF Fresh, FreshInv, LackInv
<1> HIDE DEF g
<1>15. CycleInv(v)'
  <2>1. CASE Unpriced(tao, alpha)
    BY <1>2, <1>5, <1>8, <1>10, <1>11, <1>13, <2>1 DEF CycleInv
  <2>2. CASE ~Unpriced(tao, alpha)
    BY <1>2, <1>6, <1>7, <1>9, <1>10, <1>11, <1>13, <2>2 DEF CycleInv
  <2>3. QED
    BY <2>1, <2>2
<1>16. cycle <= cycle' /\ up' = up /\ quoted \subseteq quoted'
  BY <1>2, <1>3, QuotedPrices
<1>17. QED
  BY <1>4, <1>5, <1>11, <1>12, <1>14, <1>15, <1>16, OneCycleKeepsInv

\* The second price of a cycle is the fallback's, a quote of this moment, or what
\* the first read left in memory.
LEMMA ReadPoolKeepsInv ==
    ASSUME FeedInv, NEW v \in Validators, ReadPool(v)
    PROVE  FeedInv'
<1> DEFINE g      == feed[v]
           f(tao) == [g EXCEPT !.poolTao = tao, !.pool = EmissionPoolUsd(tao.usd, g.spot),
                               !.pc = IF v = Owner THEN "publish" ELSE "idle"]
<1>1. PICK tao :
        /\ IF g.poolTao.usd > 0
           THEN tao = g.poolTao /\ UNCHANGED <<last, disk, quoted>>
           ELSE TaoUsd(v, tao)
        /\ feed' = Set(v, f(tao))
  BY DEF ReadPool
<1>2. g.pc = "pool" /\ UNCHANGED <<market, up, payout, cycle>>
  BY DEF ReadPool
<1>3. g \in Feeds /\ QuoteInv /\ CycleInv(v) /\ FreshInv(v) /\ DOMAIN feed = Validators
  BY DEF FeedInv, ShapeInv
<1>4. /\ g.at <= cycle /\ g.live \subseteq up /\ g.pool = 0 /\ g.alpha > 0
      /\ g.tao \in quoted /\ g.poolTao \in quoted \cup {NoPrice}
      /\ g.poolTao = NoPrice => g.tao = last[v]
      /\ g.poolTao # NoPrice => g.poolTao = g.tao
      /\ Fresh(v) => g.tao.at >= g.at
  BY <1>2, <1>3 DEF CycleInv, FreshInv
<1>5. /\ g.tao.at \in Nat /\ g.tao.at <= cycle /\ cycle \in Nat /\ g.at \in Nat
      /\ g.poolTao.usd > 0 <=> g.poolTao # NoPrice
  BY <1>3, <1>4, QuotedPrices DEF Feeds
<1>6. /\ QuoteInv'
      /\ quoted \subseteq quoted'
      /\ tao \in quoted' /\ g.tao.at <= tao.at
      /\ \A w \in Validators \ {v} : last'[w] = last[w]
      /\ Fresh(v) => tao.at >= g.at
  <2>1. CASE g.poolTao.usd > 0
    <3>1. QuoteInv'
      BY <1>1, <1>2, <1>3, <2>1 DEF QuoteInv
    <3>2. QED
      BY <1>1, <1>4, <1>5, <2>1, <3>1
  <2>2. CASE ~(g.poolTao.usd > 0)
    <3>1. /\ QuoteInv'
          /\ quoted \subseteq quoted'
          /\ \A w \in Validators \ {v} : last'[w] = last[w]
          /\ \/ tao \in quoted' /\ tao.at = cycle
             \/ tao = last[v]
      BY <1>1, <1>2, <1>3, <2>2, ReadOfTao
    <3>2. QED
      BY <1>4, <1>5, <2>2, <3>1
  <2>3. QED
    BY <2>1, <2>2
<1>7. /\ tao \in [usd : Nat, at : Nat]
  <2>1. quoted' \subseteq [usd : TaoPrices, at : 0..cycle']
    BY <1>6 DEF QuoteInv
  <2>2. QED
    BY <1>2, <1>5, <1>6, <2>1, QuotesArePrices
<1> DEFINE pool == EmissionPoolUsd(tao.usd, g.spot)
<1>8. pool \in Nat /\ pool > 0
  <2>1. tao.usd \in Nat /\ g.spot \in Nat
    BY <1>3, <1>7 DEF Feeds
  <2>2. QED
    BY <2>1, PoolIsPositive
<1>9. /\ f(tao) \in Feeds
      /\ f(tao).pc = IF v = Owner THEN "publish" ELSE "idle"
      /\ f(tao).tao = g.tao /\ f(tao).poolTao = tao /\ f(tao).alpha = g.alpha
      /\ f(tao).pool = pool /\ f(tao).live = g.live /\ f(tao).at = g.at
  <2> HIDE DEF pool
  <2>1. f(tao) = [g EXCEPT !.poolTao = tao, !.pool = pool,
                           !.pc = IF v = Owner THEN "publish" ELSE "idle"]
    BY DEF pool
  <2> HIDE DEF f
  <2>2. QED
    BY <1>3, <1>7, <1>8, <2>1 DEF Feeds
<1> HIDE DEF pool, f
<1>10. feed'[v] = f(tao)
  BY <1>1, <1>3 DEF Set
<1>11. FreshInv(v)' /\ LackInv(v)'
  <2>1. Fresh(v)' => Fresh(v)
    BY <1>9, <1>10 DEF Fresh
  <2>2. FreshInv(v)'
    BY <1>4, <1>6, <1>9, <1>10, <2>1 DEF FreshInv
  <2>3. f(tao).pc \in {"publish", "idle"}
    BY <1>9
  <2>4. QED
    BY <1>10, <2>2, <2>3 DEF LackInv
<1> HIDE DEF g
<1>12. CycleInv(v)'
  BY <1>2, <1>4, <1>6, <1>9, <1>10 DEF CycleInv
<1>13. cycle <= cycle' /\ up' = up
  BY <1>2, <1>5
<1>14. QED
  BY <1>1, <1>6, <1>9, <1>11, <1>12, <1>13, OneCycleKeepsInv

\* What is published was quoted, or is nothing.
LEMMA PublishKeepsInv ==
    ASSUME FeedInv, Publish
    PROVE  FeedInv'
<1> DEFINE g == feed[Owner]
           f == [g EXCEPT !.pc = "idle"]
<1>0. Owner \in Validators
  BY DEF Validators
<1>1. /\ g.pc = "publish" /\ feed' = Set(Owner, f)
      /\ UNCHANGED <<market, up, cycle, last, disk, quoted>>
  BY DEF Publish
<1>2. /\ g \in Feeds /\ QuoteInv /\ CycleInv(Owner) /\ FreshInv(Owner)
      /\ DOMAIN feed = Validators
  BY <1>0 DEF FeedInv, ShapeInv
<1>3. /\ f \in Feeds
      /\ f.pc = "idle" /\ f.alpha = g.alpha /\ f.tao = g.tao /\ f.poolTao = g.poolTao
      /\ f.pool = g.pool /\ f.live = g.live /\ f.at = g.at /\ f.spot = g.spot
  BY <1>2 DEF Feeds
<1>4. QuoteInv'
  <2>1. g.poolTao \in quoted \cup {NoPrice} /\ last[Owner] \in quoted \cup {NoPrice}
    BY <1>0, <1>2 DEF CycleInv, QuoteInv
  <2>2. g.spot \in Nat
    BY <1>2 DEF Feeds
  <2>3. \/ payout' = [tao |-> IF g.poolTao.usd > 0 THEN g.poolTao ELSE last[Owner],
                      alpha |-> g.spot]
        \/ payout' = payout
    BY DEF Publish, Snapshot
  <2>4. payout' \in [tao : quoted \cup {NoPrice}, alpha : Nat]
    BY <1>2, <2>1, <2>2, <2>3 DEF QuoteInv
  <2>5. QED
    BY <1>1, <1>2, <2>4 DEF QuoteInv
<1> HIDE DEF f
<1>5. feed'[Owner] = f
  BY <1>0, <1>1, <1>2 DEF Set
<1>6. FreshInv(Owner)' /\ LackInv(Owner)'
  BY <1>1, <1>2, <1>3, <1>5 DEF Fresh, FreshInv, LackInv
<1>7. CycleInv(Owner)'
  <2>1. /\ g.at <= cycle /\ g.live \subseteq up
        /\ g.tao \in quoted /\ g.poolTao \in quoted /\ g.tao.at <= g.poolTao.at
    BY <1>1, <1>2 DEF CycleInv
  <2> HIDE DEF g
  <2>2. QED
    BY <1>1, <1>3, <1>5, <2>1 DEF CycleInv
<1>8. cycle <= cycle' /\ up' = up /\ quoted \subseteq quoted' /\ UNCHANGED last
  BY <1>1, <1>2, QuotedPrices
<1>9. QED
  BY <1>0, <1>1, <1>3, <1>4, <1>6, <1>7, <1>8, OneCycleKeepsInv

\* A restarted process remembers what is on its disk.
LEMMA RestartKeepsInv ==
    ASSUME FeedInv, NEW v \in Validators, Restart(v)
    PROVE  FeedInv'
<1>1. /\ disk' \in {disk, [disk EXCEPT ![v] = NoPrice]}
      /\ last' = [last EXCEPT ![v] = disk'[v]]
      /\ feed' = Set(v, NoCycle)
      /\ UNCHANGED <<market, up, payout, cycle, quoted>>
  BY DEF Restart
<1>2. QuoteInv /\ DOMAIN feed = Validators
  BY DEF FeedInv, ShapeInv
<1>3. QuoteInv'
  <2>1. disk' \in [Validators -> quoted \cup {NoPrice}]
    BY <1>1, <1>2 DEF QuoteInv
  <2>2. last' \in [Validators -> quoted \cup {NoPrice}]
    BY <1>1, <1>2, <2>1 DEF QuoteInv
  <2>3. \A w \in Validators : disk'[w] # NoPrice => last'[w] # NoPrice
    BY <1>1, <1>2 DEF QuoteInv
  <2>4. QED
    BY <1>1, <1>2, <2>1, <2>2, <2>3 DEF QuoteInv
<1>4. /\ feed'[v] = NoCycle
      /\ \A w \in Validators \ {v} : last'[w] = last[w]
  BY <1>1, <1>2 DEF Set, QuoteInv
<1>5. /\ NoCycle.pc = "idle" /\ NoCycle.at = 0 /\ NoCycle.live = {} /\ NoCycle.pool = 0
      /\ NoCycle.tao = NoPrice /\ NoCycle.poolTao = NoPrice
  BY DEF NoCycle
<1>6. cycle \in Nat
  BY <1>2, QuotedPrices
<1>7. CycleInv(v)' /\ FreshInv(v)' /\ LackInv(v)'
  BY <1>1, <1>4, <1>5, <1>6 DEF CycleInv, FreshInv, Fresh, LackInv
<1>8. cycle <= cycle' /\ up' = up /\ quoted \subseteq quoted'
  BY <1>1, <1>6
<1>9. QED
  BY <1>1, <1>3, <1>4, <1>7, <1>8, NoCycleIsFeed, OneCycleKeepsInv

\* A read that breaks off ends the cycle and leaves memory and disk as they are.
LEMMA BreakKeepsInv ==
    ASSUME FeedInv, NEW v \in Validators, Break(v)
    PROVE  FeedInv'
<1> DEFINE f == [NoCycle EXCEPT !.end = "unexpected"]
<1>1. /\ feed' = Set(v, f)
      /\ UNCHANGED <<market, up, last, disk, quoted>>
  BY DEF Break
<1>2. QuoteInv /\ DOMAIN feed = Validators
  BY DEF FeedInv, ShapeInv
<1>3. cycle' \in 0..MaxCycles /\ cycle <= cycle' /\ cycle \in Nat
  <2>1. cycle' = cycle \/ (cycle' = cycle + 1 /\ cycle < MaxCycles)
    BY DEF Break, Starts
  <2>2. QED
    BY <1>2, <2>1, QuotedPrices, FeedAssumption
<1>4. payout' \in [tao : quoted \cup {NoPrice}, alpha : Nat]
  <2>1. CASE payout' = payout
    BY <1>2, <2>1 DEF QuoteInv
  <2>2. CASE payout' = Snapshot
    <3>1. Owner \in Validators
      BY DEF Validators
    <3>2. feed[Owner].poolTao \in quoted \cup {NoPrice} /\ feed[Owner].spot \in Nat
      BY <3>1 DEF FeedInv, ShapeInv, CycleInv, Feeds
    <3>3. last[Owner] \in quoted \cup {NoPrice}
      BY <1>2, <3>1 DEF QuoteInv
    <3>4. QED
      BY <2>2, <3>2, <3>3 DEF Snapshot
  <2>3. QED
    BY <2>1, <2>2 DEF Break
<1>5. QuoteInv'
  <2>1. 0..cycle \subseteq 0..cycle'
    BY <1>3
  <2>2. quoted \subseteq [usd : TaoPrices, at : 0..cycle']
    BY <1>2, <2>1 DEF QuoteInv
  <2>3. QED
    BY <1>1, <1>2, <1>3, <1>4, <2>2 DEF QuoteInv
<1>6. /\ f \in Feeds
      /\ f.pc = "idle" /\ f.at = NoCycle.at /\ f.live = NoCycle.live
      /\ f.pool = NoCycle.pool /\ f.tao = NoCycle.tao /\ f.poolTao = NoCycle.poolTao
  BY NoCycleIsFeed DEF Feeds, NoCycle
<1>7. /\ NoCycle.at = 0 /\ NoCycle.live = {} /\ NoCycle.pool = 0
      /\ NoCycle.tao = NoPrice /\ NoCycle.poolTao = NoPrice
  BY DEF NoCycle
<1> HIDE DEF f
<1>8. feed'[v] = f
  BY <1>1, <1>2 DEF Set
<1>9. CycleInv(v)' /\ FreshInv(v)' /\ LackInv(v)'
  BY <1>1, <1>3, <1>6, <1>7, <1>8 DEF CycleInv, FreshInv, Fresh, LackInv
<1>10. up' = up /\ quoted \subseteq quoted' /\ UNCHANGED last
  BY <1>1
<1>11. QED
  BY <1>1, <1>3, <1>5, <1>6, <1>9, <1>10, OneCycleKeepsInv

\* A source that goes dark was not up throughout any cycle.
LEMMA ChangeKeepsInv ==
    ASSUME FeedInv, Change
    PROVE  FeedInv'
<1>1. /\ UNCHANGED <<payout, cycle, last, disk, quoted>>
      /\ feed' = [v \in Validators |-> [feed[v] EXCEPT !.live = @ \cap up']]
      /\ market' \in [tao : TaoPrices, rate : Rates] /\ up' \subseteq Sources
  BY DEF Change, FeedInv, QuoteInv
<1>2. QuoteInv'
  BY <1>1 DEF FeedInv, QuoteInv
<1>3. ASSUME NEW v \in Validators
      PROVE  /\ feed'[v] \in Feeds /\ feed'[v].live = feed[v].live \cap up'
             /\ feed'[v].pc = feed[v].pc /\ feed'[v].tao = feed[v].tao
             /\ feed'[v].poolTao = feed[v].poolTao /\ feed'[v].pool = feed[v].pool
             /\ feed'[v].at = feed[v].at /\ feed'[v].alpha = feed[v].alpha
             /\ feed'[v].spot = feed[v].spot /\ feed'[v].end = feed[v].end
  <2> DEFINE g == feed[v]
             live == g.live \cap up'
  <2>1. g \in Feeds
    BY DEF FeedInv, ShapeInv
  <2>2. live \in SUBSET Sources
    BY <1>1
  <2>3. feed'[v] = [g EXCEPT !.live = live]
    BY <1>1
  <2> HIDE DEF g
  <2>4. live = g.live \cap up'
    OBVIOUS
  <2> HIDE DEF live
  <2>5. /\ feed'[v] \in Feeds /\ feed'[v].live = live
        /\ feed'[v].pc = g.pc /\ feed'[v].tao = g.tao
        /\ feed'[v].poolTao = g.poolTao /\ feed'[v].pool = g.pool
        /\ feed'[v].at = g.at /\ feed'[v].alpha = g.alpha
        /\ feed'[v].spot = g.spot /\ feed'[v].end = g.end
    BY <2>1, <2>2, <2>3 DEF Feeds
  <2>6. QED
    BY <2>4, <2>5 DEF g
<1>4. ShapeInv'
  <2>1. DOMAIN feed' = Validators /\ feed' = [v \in Validators |-> feed'[v]]
    BY <1>1
  <2>2. QED
    BY <1>3, <2>1 DEF ShapeInv
<1>5. ASSUME NEW v \in Validators PROVE CycleInv(v)'
  <2>1. CycleInv(v)
    BY DEF FeedInv
  <2>2. QED
    BY <1>1, <1>3, <2>1 DEF CycleInv
<1>6. ASSUME NEW v \in Validators PROVE FreshInv(v)'
  <2>1. FreshInv(v)
    BY DEF FeedInv
  <2>2. Fresh(v)' => Fresh(v)
    BY <1>3 DEF Fresh
  <2>3. QED
    BY <1>3, <2>1, <2>2 DEF FreshInv
<1>7. ASSUME NEW v \in Validators PROVE LackInv(v)'
  <2>1. LackInv(v) /\ feed'[v].live \subseteq feed[v].live
    BY <1>3 DEF FeedInv
  <2>2. QED
    BY <1>1, <1>3, <2>1 DEF LackInv
<1>8. QED
  BY <1>2, <1>4, <1>5, <1>6, <1>7 DEF FeedInv

LEMMA NextKeepsInv ==
    ASSUME FeedInv, [Next]_vars
    PROVE  FeedInv'
<1>1. CASE Next
  <2>1. ASSUME NEW v \in Validators, Step(v) PROVE FeedInv'
    BY <2>1, StartKeepsInv, ReadTaoKeepsInv, ReadAlphaKeepsInv, FallbackKeepsInv,
       ReadPoolKeepsInv DEF Step
  <2>2. QED
    BY <1>1, <2>1, BreakKeepsInv, RestartKeepsInv, ChangeKeepsInv, PublishKeepsInv DEF Next
<1>2. CASE UNCHANGED vars
  BY <1>2 DEF vars, FeedInv, QuoteInv, ShapeInv, CycleInv, FreshInv, Fresh, LackInv
<1>3. QED
  BY <1>1, <1>2

LEMMA InvariantHolds == Spec => []FeedInv
<1>1. Init => FeedInv
  BY FeedInvInit
<1>2. FeedInv /\ [Next]_vars => FeedInv'
  BY NextKeepsInv
<1>3. QED
  BY <1>1, <1>2, PTL DEF Spec

-----------------------------------------------------------------------------
(* Theorems *)

\* Memory, disk and store keep prices that may be used, and a cycle past its
\* price reads has a TAO/USD and a rate that are not zero: price_feed.py returns
\* None or a price, validator.py skips the cycle on None.
THEOREM FeedTypes == Spec => []TypeOK
<1>1. FeedInv => TypeOK
  <2> SUFFICES ASSUME FeedInv PROVE TypeOK
    OBVIOUS
  <2>1. QuoteInv
    BY DEF FeedInv
  <2>2. \A p \in quoted \cup {NoPrice} : p \in Price
    <3>1. \A p \in quoted : p \in Price
      <4> TAKE p \in quoted
      <4>1. p \in [usd : TaoPrices, at : 0..cycle]
        BY <2>1 DEF QuoteInv
      <4>2. 0..cycle \subseteq 0..MaxCycles
        BY <2>1, QuotedPrices, FeedAssumption
      <4>3. QED
        BY <4>1, <4>2 DEF Price
    <3>2. NoPrice \in Price
      BY FeedAssumption DEF NoPrice, Price
    <3>3. QED
      BY <3>1, <3>2
  <2>3. payout.tao \in Price /\ payout.alpha \in Nat
    BY <2>1, <2>2 DEF QuoteInv
  <2>4. ASSUME NEW v \in Validators
        PROVE  /\ last[v] \in Price /\ disk[v] \in Price
               /\ feed[v].pc \in {"idle", "tao", "alpha", "fallback", "pool", "publish"}
               /\ feed[v].pc \in {"pool", "publish"} =>
                        feed[v].tao.usd > 0 /\ feed[v].alpha > 0
               /\ feed[v].pool >= 0
               /\ feed[v].end \in {"none", "price_feed", "unexpected"}
    <3>1. last[v] \in Price /\ disk[v] \in Price
      BY <2>1, <2>2 DEF QuoteInv
    <3>2. /\ feed[v].pc \in {"idle", "tao", "alpha", "fallback", "pool", "publish"}
          /\ feed[v].pool >= 0
          /\ feed[v].end \in {"none", "price_feed", "unexpected"}
      BY DEF FeedInv, ShapeInv, Feeds
    <3>3. feed[v].pc \in {"pool", "publish"} => feed[v].tao \in quoted /\ feed[v].alpha > 0
      BY DEF FeedInv, CycleInv
    <3>4. QED
      BY <2>1, <3>1, <3>2, <3>3, QuotedPrices
  <2>5. QED
    BY <2>3, <2>4 DEF TypeOK
<1>2. QED
  BY <1>1, InvariantHolds, PTL

\* Whatever the owner publishes, a validator remembers, caches on disk, falls back
\* to or reads anew: each TAO/USD price that it scores with or that payout.json
\* offers was quoted in exactly that cycle by Taostats or CoinGecko, and the one
\* of the emission pool is not older than the one of usd_per_alpha.
THEOREM QuotedPricesOnly == Spec => []PricesWereQuoted
<1>1. FeedInv => PricesWereQuoted
  <2> SUFFICES ASSUME FeedInv PROVE PricesWereQuoted
    OBVIOUS
  <2>1. payout.tao \in quoted \cup {NoPrice}
    BY DEF FeedInv, QuoteInv
  <2>2. \A v \in Validators : Priced(v) =>
            /\ {feed[v].tao, feed[v].poolTao} \subseteq quoted
            /\ feed[v].tao.at <= feed[v].poolTao.at
    BY DEF FeedInv, CycleInv, Priced
  <2>3. QED
    BY <2>1, <2>2 DEF PricesWereQuoted
<1>2. QED
  BY <1>1, InvariantHolds, PTL

\* price_feed.py asks the sources before the memory: while one of them and the
\* chain answer, both prices of a cycle are of this cycle or a later one.
THEOREM LiveFirst == Spec => []LiveBeatsRemembered
<1>1. FeedInv => LiveBeatsRemembered
  <2> SUFFICES ASSUME FeedInv, NEW v \in Validators, Priced(v),
                      feed[v].live \cap {"taostats", "coingecko"} # {},
                      feed[v].live \cap {"spot"} # {}
               PROVE  feed[v].tao.at >= feed[v].at /\ feed[v].poolTao.at >= feed[v].at
    BY DEF LiveBeatsRemembered
  <2>1. Fresh(v) /\ FreshInv(v) /\ feed[v].pool > 0
    BY DEF FeedInv, Fresh, Priced
  <2>2. QED
    BY <2>1 DEF FreshInv
<1>2. QED
  BY <1>1, InvariantHolds, PTL

\* A step counts no fault or one.
CountInv == faults \in Nat

LEMMA FaultsAreCounted == Spec => []CountInv
<1>1. Init => CountInv
  BY DEF Init, CountInv
<1>2. CountInv /\ [Next]_vars => CountInv'
  <2> SUFFICES ASSUME CountInv, [Next]_vars PROVE CountInv'
    OBVIOUS
  <2>1. ASSUME NEW v \in Validators, NEW tao, TaoUsd(v, tao)
        PROVE  faults' = faults \/ faults' = faults + 1
    BY <2>1 DEF TaoUsd, LiveTao, SaveTao, RememberedTao, NoFault, Fault
  <2>2. ASSUME NEW v \in Validators, Step(v)
        PROVE  faults' = faults \/ faults' = faults + 1
    <3>1. CASE StartCycle(v) \/ Fallback(v)
      BY <3>1 DEF StartCycle, Fallback, GetPayout, NoFault, Fault
    <3>2. CASE ReadTao(v)
      BY <2>1, <3>2 DEF ReadTao
    <3>3. CASE ReadAlpha(v)
      BY <3>3 DEF ReadAlpha
    <3>4. CASE ReadPool(v)
      BY <2>1, <3>4 DEF ReadPool
    <3>5. QED
      BY <2>2, <3>1, <3>2, <3>3, <3>4 DEF Step
  <2>3. faults' = faults \/ faults' = faults + 1
    BY <2>2 DEF Next, vars, Change, Break, Restart, Publish, NoFault, Fault
  <2>4. QED
    BY <2>3 DEF CountInv
<1>3. QED
  BY <1>1, <1>2, PTL DEF Spec

\* Only _fallback_usd_per_alpha gives a cycle up for want of a price.
LEMMA OnlyFallbackGivesUp ==
    ASSUME FeedInv, Next, NEW v \in Validators,
           feed[v].end # "price_feed", feed'[v].end = "price_feed"
    PROVE  Fallback(v)
<1>1. DOMAIN feed = Validators /\ feed[v] \in Feeds
  BY DEF FeedInv, ShapeInv
<1>2. feed'[v] # feed[v]
  OBVIOUS
<1>3. ~Change
  <2>1. SUFFICES ASSUME Change PROVE FALSE
    OBVIOUS
  <2>2. feed'[v] = [feed[v] EXCEPT !.live = @ \cap up']
    BY <2>1 DEF Change
  <2>3. feed'[v].end = feed[v].end
    BY <1>1, <2>2 DEF Feeds
  <2>4. QED
    BY <2>3
<1>4. ASSUME NEW w \in Validators, NEW f, feed' = Set(w, f) PROVE w = v /\ f.end = "price_feed"
  BY <1>1, <1>2, <1>4 DEF Set
<1>5. ~Publish
  <2>1. SUFFICES ASSUME Publish PROVE FALSE
    OBVIOUS
  <2>2. Owner \in Validators /\ feed' = Set(Owner, [feed[Owner] EXCEPT !.pc = "idle"])
    BY <2>1 DEF Publish, Validators
  <2>3. Owner = v /\ [feed[Owner] EXCEPT !.pc = "idle"].end = "price_feed"
    BY <1>4, <2>2
  <2>4. QED
    BY <1>1, <2>3 DEF Feeds
<1>6. ASSUME NEW w \in Validators, Restart(w) \/ Break(w) PROVE FALSE
  <2>1. feed' = Set(w, NoCycle) \/ feed' = Set(w, [NoCycle EXCEPT !.end = "unexpected"])
    BY <1>6 DEF Restart, Break
  <2>2. NoCycle.end # "price_feed" /\ [NoCycle EXCEPT !.end = "unexpected"].end # "price_feed"
    BY DEF NoCycle
  <2>3. QED
    BY <1>4, <2>1, <2>2
<1>7. ASSUME NEW w \in Validators, Step(w) PROVE w = v /\ Fallback(v)
  <2>1. \E f : feed' = Set(w, f)
    BY <1>7 DEF Step, StartCycle, ReadTao, ReadAlpha, Fallback, ReadPool
  <2>2. w = v
    BY <1>4, <2>1
  <2>3. ~StartCycle(v)
    <3>1. SUFFICES ASSUME StartCycle(v) PROVE FALSE
      OBVIOUS
    <3>2. PICK s, l, n : feed' = Set(v, [NoCycle EXCEPT !.pc = "tao", !.spot = s,
                                                        !.live = l, !.at = n])
      BY <3>1 DEF StartCycle
    <3>3. [NoCycle EXCEPT !.pc = "tao", !.spot = s, !.live = l, !.at = n].end = "none"
      BY DEF NoCycle
    <3>4. QED
      BY <1>4, <3>2, <3>3
  <2>4. ~ReadTao(v)
    <3>1. SUFFICES ASSUME ReadTao(v) PROVE FALSE
      OBVIOUS
    <3>2. PICK p, q : feed' = Set(v, [feed[v] EXCEPT !.tao = p, !.pc = q])
      BY <3>1 DEF ReadTao
    <3>3. [feed[v] EXCEPT !.tao = p, !.pc = q].end = feed[v].end
      BY <1>1 DEF Feeds
    <3>4. QED
      BY <1>4, <3>2, <3>3
  <2>5. ~ReadAlpha(v)
    <3>1. SUFFICES ASSUME ReadAlpha(v) PROVE FALSE
      OBVIOUS
    <3>2. PICK p, q, r : feed' = Set(v, [feed[v] EXCEPT !.spot = p, !.alpha = q, !.pc = r])
      BY <3>1 DEF ReadAlpha
    <3>3. [feed[v] EXCEPT !.spot = p, !.alpha = q, !.pc = r].end = feed[v].end
      BY <1>1 DEF Feeds
    <3>4. QED
      BY <1>4, <3>2, <3>3
  <2>6. ~ReadPool(v)
    <3>1. SUFFICES ASSUME ReadPool(v) PROVE FALSE
      OBVIOUS
    <3>2. PICK p : feed' = Set(v, [feed[v] EXCEPT !.poolTao = p,
                                       !.pool = EmissionPoolUsd(p.usd, feed[v].spot),
                                       !.pc = IF v = Owner THEN "publish" ELSE "idle"])
      BY <3>1 DEF ReadPool
    <3> DEFINE pool == EmissionPoolUsd(p.usd, feed[v].spot)
               pc   == IF v = Owner THEN "publish" ELSE "idle"
               f    == [feed[v] EXCEPT !.poolTao = p, !.pool = pool, !.pc = pc]
    <3> HIDE DEF pool, pc
    <3>3. f.end = feed[v].end
      BY <1>1 DEF Feeds
    <3>4. feed' = Set(v, f)
      BY <3>2 DEF pool, pc
    <3> HIDE DEF f
    <3>5. QED
      BY <1>4, <3>3, <3>4
  <2>7. QED
    BY <1>7, <2>2, <2>3, <2>4, <2>5, <2>6 DEF Step
<1>8. QED
  BY <1>3, <1>5, <1>6, <1>7 DEF Next

\* It does so only without a TAO/USD or without a rate.
LEMMA SkipsForAReason ==
    ASSUME FeedInv, CountInv, NEW v \in Validators, Fallback(v),
           feed[v].end # "price_feed", feed'[v].end = "price_feed"
    PROVE  \/ /\ disk[v] = NoPrice /\ last[v] = NoPrice
              /\ feed[v].live \cap {"taostats", "coingecko"} = {}
              /\ payout.tao = NoPrice \/ faults' > faults
           \/ /\ feed[v].spot = 0 /\ "spot" \notin feed[v].live
              /\ ~({"taostats", "poolPrice"} \subseteq feed[v].live)
              /\ payout.alpha = 0 \/ faults' > faults
<1> DEFINE g == feed[v]
           f(tao, alpha) == [g EXCEPT !.pc = "pool", !.tao = tao, !.alpha = alpha,
                                      !.poolTao = tao]
<1>1. DOMAIN feed = Validators /\ g \in Feeds /\ QuoteInv /\ LackInv(v)
  BY DEF FeedInv, ShapeInv
<1>2. PICK published, tao, alpha :
        /\ GetPayout(published) /\ FallbackPrice(v, published, tao, alpha)
        /\ ~Unpriced(tao, alpha) => feed' = Set(v, f(tao, alpha))
  BY DEF Fallback
<1>3. g.pc = "fallback"
  BY DEF Fallback
<1>4. Unpriced(tao, alpha)
  <2>1. f(tao, alpha).end = g.end
    BY <1>1 DEF Feeds
  <2> HIDE DEF f
  <2>2. QED
    BY <1>1, <1>2, <2>1 DEF Set
<1>5. published = payout \/ faults' > faults
  <2>1. published = payout \/ faults' = faults + 1
    BY <1>2 DEF GetPayout, NoFault, Fault
  <2>2. QED
    BY <2>1 DEF CountInv
<1> HIDE DEF f
<1>6. CASE tao.usd = 0
  <2>1. /\ tao = last'[v] /\ last'[v] \in quoted \cup {NoPrice}
        /\ last'[v] = IF published.tao = NoPrice THEN last[v] ELSE published.tao
    BY <1>1, <1>2, SeedRemembers DEF FallbackPrice
  <2>2. tao = NoPrice
    BY <1>1, <1>6, <2>1, QuotedPrices
  <2>3. last[v] = NoPrice /\ published.tao = NoPrice
    BY <2>1, <2>2
  <2>4. disk[v] = NoPrice
    BY <1>1, <2>3 DEF QuoteInv
  <2>5. g.live \cap {"taostats", "coingecko"} = {}
    BY <1>1, <1>3, <2>3 DEF LackInv
  <2>6. QED
    BY <1>5, <2>3, <2>4, <2>5
<1>7. CASE alpha = 0
  <2>1. alpha = IF published.alpha > 0 THEN published.alpha ELSE g.spot
    BY <1>2 DEF FallbackPrice
  <2>2. published.alpha \in Nat
    BY <1>1, <1>2, SeedRemembers DEF FallbackPrice
  <2>3. published.alpha = 0 /\ g.spot = 0
    BY <1>7, <2>1, <2>2
  <2>4. "spot" \notin g.live /\ ~({"taostats", "poolPrice"} \subseteq g.live)
    BY <1>1, <1>3, <2>3 DEF LackInv
  <2>5. QED
    BY <1>5, <2>3, <2>4
<1>8. QED
  BY <1>4, <1>6, <1>7 DEF Unpriced

\* Of the errors price_feed.py and validator.py catch: for any sequence of outages,
\* failed store calls, refused writes and restarts of any validators a cycle is given
\* up for want of a price only if there is no TAO/USD on disk, in memory, in payout.json
\* or from a source that answered throughout, or no rate in payout.json, from the chain
\* or from Taostats if they answered throughout; a failed GET hides payout.json.
THEOREM OutagesSkipNothing == Spec => KnownPriceIsEnough
<1>1. FeedInv /\ CountInv /\ [Next]_vars =>
        [\A v \in Validators :
            LET f == feed[v]
            IN  f.end # "price_feed" /\ feed'[v].end = "price_feed" =>
                  \/ /\ disk[v] = NoPrice /\ last[v] = NoPrice
                     /\ f.live \cap {"taostats", "coingecko"} = {}
                     /\ payout.tao = NoPrice \/ faults' > faults
                  \/ /\ f.spot = 0 /\ "spot" \notin f.live
                     /\ ~({"taostats", "poolPrice"} \subseteq f.live)
                     /\ payout.alpha = 0 \/ faults' > faults]_vars
  BY OnlyFallbackGivesUp, SkipsForAReason
<1>2. QED
  BY <1>1, InvariantHolds, FaultsAreCounted, PTL DEF Spec, KnownPriceIsEnough
=============================================================================
