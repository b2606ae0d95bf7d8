------------------------------ MODULE PriceFeed ------------------------------
(***************************************************************************)
(* The compensation price: TAO/USD from Taostats, CoinGecko, memory, disk  *)
(* or the owner's payout.json, times alpha->TAO from the chain or from the *)
(* Taostats pools, as price_feed.py reads them and validator.py uses them: *)
(* once for usd_per_alpha and once more for the emission pool.  The owner  *)
(* publishes what it used; every validator, the owner too, seeds its       *)
(* memory from what is published at the start of a cycle.                  *)
(*                                                                         *)
(* A read ends in one of three ways: with an answer, with an error the     *)
(* code catches (a source that is not in `up`, a failed GET), or it breaks *)
(* off - a timeout or a reset while the answer is read, which urllib does  *)
(* not turn into a URLError and nobody catches before run_forever.         *)
(*                                                                         *)
(* A TAO price carries the owner's cycle in which it was quoted (`at`); no *)
(* such mark exists in the code.  Rates are in 1/Scale TAO; 0 is absent or *)
(* unusable.  The market and the sources are external; they change at most *)
(* MaxChanges times.  Store calls fail, reads break off, disks refuse a    *)
(* write and processes restart at most MaxFaults times, and the owner      *)
(* starts at most MaxCycles cycles.                                        *)
(***************************************************************************)
EXTENDS Integers

CONSTANTS
    Readers,
    TaoPrices,          \* what a TAO may cost
    Rates,              \* what an alpha may cost, in 1/Scale TAO
    Scale,
    Emission,           \* miner share of the alpha emitted per epoch
    MaxChanges, MaxFaults, MaxCycles

Owner      == "owner"
Validators == Readers \cup {Owner}
Sources    == {"taostats", "coingecko", "spot", "poolPrice"}

ASSUME FeedAssumption ==
    /\ Owner \notin Readers
    /\ TaoPrices # {} /\ TaoPrices \subseteq Nat \ {0}
    /\ Rates # {} /\ Rates \subseteq Nat \ {0}
    /\ Scale \in Nat \ {0} /\ Emission \in Nat \ {0}
    /\ MaxChanges \in Nat /\ MaxFaults \in Nat /\ MaxCycles \in Nat

VARIABLES
    market,     \* the true TAO/USD and alpha->TAO
    up,         \* the sources that answer
    payout,     \* tao_usd and alpha_to_tao of payout.json
    cycle,      \* how many cycles the owner has started
    last,       \* per validator: _last_tao_usd
    disk,       \* per validator: tao_usd_cache.json
    feed,       \* per validator: where its cycle is, and its locals
    quoted,     \* every TAO price that was ever quoted live
    changes, faults

vars == <<market, up, payout, cycle, last, disk, feed, quoted, changes, faults>>

NoPrice == [usd |-> 0, at |-> 0]

\* spot is the metagraph's price as cached at the start of the cycle, live the
\* sources that answered throughout it, end the reason it ended without a price, as
\* record_skip has it.
NoCycle == [pc |-> "idle", spot |-> 0, tao |-> NoPrice, alpha |-> 0,
            poolTao |-> NoPrice, pool |-> 0, live |-> {}, at |-> 0, end |-> "none"]

Init ==
    /\ market \in [tao : TaoPrices, rate : Rates]
    /\ up = Sources
    /\ payout = [tao |-> NoPrice, alpha |-> 0]
    /\ cycle = 0
    /\ last = [v \in Validators |-> NoPrice]
    /\ disk = [v \in Validators |-> NoPrice]
    /\ feed = [v \in Validators |-> NoCycle]
    /\ quoted = {}
    /\ changes = 0 /\ faults = 0

Fault == faults < MaxFaults /\ faults' = faults + 1

NoFault == UNCHANGED faults

Set(v, fields) == [feed EXCEPT ![v] = fields]

-----------------------------------------------------------------------------
(* The world *)

\* The price moves, or a source goes dark or comes back.
Change ==
    /\ changes < MaxChanges /\ changes' = changes + 1
    /\ \/ market' \in [tao : TaoPrices, rate : Rates] \ {market} /\ UNCHANGED up
       \/ UNCHANGED market /\ \E s \in Sources :
            up' = IF s \in up THEN up \ {s} ELSE up \cup {s}
    /\ feed' = [v \in Validators |-> [feed[v] EXCEPT !.live = @ \cap up']]
    /\ UNCHANGED <<payout, cycle, last, disk, quoted, faults>>

Spot == IF "spot" \in up THEN market.rate ELSE 0

Live == [usd |-> market.tao, at |-> cycle]

\* The pools endpoint without a price: alpha_in_pool / tao_in_pool.  The market's
\* rate is tao_in_pool / alpha_in_pool.
RatioOfReserves(rate) == (Scale * Scale) \div rate

-----------------------------------------------------------------------------
(* The feed *)

\* Mutant: the memory is seeded with a price that is not there, too.
SeedAnything(v, published) == last' = [last EXCEPT ![v] = published.tao]

\* The metagraph is read; the published TAO/USD, if there is one, replaces the
\* remembered one.
Seed(v, published) ==
    last' = IF published.tao.usd > 0 THEN [last EXCEPT ![v] = published.tao] ELSE last

GetPayout(published) ==
    \/ published = payout /\ NoFault
    \/ published = [tao |-> NoPrice, alpha |-> 0] /\ Fault

\* The owner's cycles are counted.
Starts(v) ==
    /\ feed[v].pc = "idle"
    /\ IF v = Owner THEN cycle < MaxCycles /\ cycle' = cycle + 1 ELSE UNCHANGED cycle

StartCycle(v) ==
    /\ Starts(v)
    /\ \E published \in {payout, [tao |-> NoPrice, alpha |-> 0]} :
            GetPayout(published) /\ Seed(v, published)
    /\ feed' = Set(v, [NoCycle EXCEPT !.pc = "tao", !.spot = Spot, !.live = up,
                                      !.at = cycle'])
    /\ UNCHANGED <<market, up, payout, disk, quoted, changes>>

\* _save_tao_usd_cache: a refused open leaves the old file, a full disk one that does
\* not parse; either is ignored.
SaveTao(v, tao) ==
    \/ disk' = [disk EXCEPT ![v] = tao] /\ NoFault
    \/ disk' \in {disk, [disk EXCEPT ![v] = NoPrice]} /\ Fault

\* tao_usd: Taostats, CoinGecko (both remembered, in memory and on disk), then
\* what is remembered.
LiveTao(v, tao) ==
    /\ {"taostats", "coingecko"} \cap up # {}
    /\ tao = Live
    /\ last' = [last EXCEPT ![v] = tao]
    /\ SaveTao(v, tao)
    /\ quoted' = quoted \cup {tao}

RememberedTao(v, tao) ==
    /\ {"taostats", "coingecko"} \cap up = {}
    /\ tao = last[v]
    /\ UNCHANGED <<last, disk, quoted, faults>>

\* Mutant: what is remembered is not refreshed.
RememberedFirst(v, tao) ==
    IF last[v].usd > 0 THEN tao = last[v] /\ UNCHANGED <<last, disk, quoted, faults>>
    ELSE LiveTao(v, tao) \/ RememberedTao(v, tao)

TaoUsd(v, tao) == LiveTao(v, tao) \/ RememberedTao(v, tao)

\* Mutant: no price at all is not an error.
ReadTaoUnchecked(v) ==
    /\ feed[v].pc = "tao"
    /\ \E tao \in {Live, last[v]} :
        /\ TaoUsd(v, tao)
        /\ feed' = Set(v, [feed[v] EXCEPT !.tao = tao, !.pc = "alpha"])
    /\ UNCHANGED <<market, up, payout, cycle, changes>>

ReadTao(v) ==
    /\ feed[v].pc = "tao"
    /\ \E tao \in {Live, last[v]} :
        /\ TaoUsd(v, tao)
        /\ feed' = Set(v, [feed[v] EXCEPT !.tao = tao,
                               !.pc = IF tao.usd > 0 THEN "alpha" ELSE "fallback"])
    /\ UNCHANGED <<market, up, payout, cycle, changes>>

\* alpha_to_tao: the cached spot price, a fresh metagraph's, the pools' price, the
\* ratio of their reserves.
ReadAlpha(v) ==
    /\ feed[v].pc = "alpha"
    /\ LET spot == IF feed[v].spot > 0 THEN feed[v].spot ELSE Spot
           rate == IF spot > 0 THEN spot
                   ELSE IF "taostats" \notin up THEN 0
                   ELSE IF "poolPrice" \in up THEN market.rate
                   ELSE RatioOfReserves(market.rate)
       IN  feed' = Set(v, [feed[v] EXCEPT !.spot = spot, !.alpha = rate,
                               !.pc = IF rate > 0 THEN "pool" ELSE "fallback"])
    /\ UNCHANGED <<market, up, payout, cycle, last, disk, quoted, changes, faults>>

\* _fallback_usd_per_alpha: seed once more, take the remembered TAO/USD and the
\* published rate, else the chain's; without either the cycle is skipped.
FallbackPrice(v, published, tao, alpha) ==
    /\ Seed(v, published)
    /\ tao = last'[v]
    /\ alpha = IF published.alpha > 0 THEN published.alpha ELSE feed[v].spot

\* Mutant: the fallback does not ask for a rate.
UnpricedTao(tao, alpha) == tao.usd = 0

Unpriced(tao, alpha) == tao.usd = 0 \/ alpha = 0

Fallback(v) ==
    /\ feed[v].pc = "fallback"
    /\ \E published \in {payout, [tao |-> NoPrice, alpha |-> 0]} :
        /\ GetPayout(published)
        /\ \E tao \in {published.tao, last[v]}, alpha \in {published.alpha, feed[v].spot} :
            /\ FallbackPrice(v, published, tao, alpha)
            /\ feed' = Set(v, IF Unpriced(tao, alpha)
                              THEN [feed[v] EXCEPT !.pc = "idle", !.tao = NoPrice,
                                                   !.end = "price_feed"]
                              ELSE [feed[v] EXCEPT !.pc = "pool", !.tao = tao,
                                        !.alpha = alpha, !.poolTao = tao])
    /\ UNCHANGED <<market, up, payout, cycle, disk, quoted, changes>>

\* emission_pool_usd: the product, or 1.0 when one of its factors is missing.
EmissionPoolUsd(tao, spot) == IF tao > 0 /\ spot > 0 THEN Emission * tao * spot ELSE 1

\* The pool is priced with a TAO/USD read anew, or with the fallback's.
ReadPool(v) ==
    /\ feed[v].pc = "pool"
    /\ \E tao \in {Live, last[v], feed[v].poolTao} :
        /\ IF feed[v].poolTao.usd > 0
           THEN tao = feed[v].poolTao /\ UNCHANGED <<last, disk, quoted, faults>>
           ELSE TaoUsd(v, tao)
        /\ feed' = Set(v, [feed[v] EXCEPT !.poolTao = tao,
                               !.pool = EmissionPoolUsd(tao.usd, feed[v].spot),
                               !.pc = IF v = Owner THEN "publish" ELSE "idle"])
    /\ UNCHANGED <<market, up, payout, cycle, changes>>

\* _publish_payout: the pool's TAO/USD, whatever it came from, and the chain's rate.
Snapshot ==
    [tao |-> IF feed[Owner].poolTao.usd > 0 THEN feed[Owner].poolTao ELSE last[Owner],
     alpha |-> feed[Owner].spot]

Publish ==
    /\ feed[Owner].pc = "publish"
    /\ \/ payout' = Snapshot /\ NoFault
       \/ UNCHANGED payout /\ Fault
    /\ feed' = Set(Owner, [feed[Owner] EXCEPT !.pc = "idle"])
    /\ UNCHANGED <<market, up, cycle, last, disk, quoted, changes>>

\* A call of a source or of the store breaks off: of payout.json at the start or in the
\* fallback, of Taostats or CoinGecko, of the pools where the chain has no price, or
\* the PUT, stored or not.  No other source and no memory is tried; the cycle is over.
Asks(v) ==
    LET f == feed[v]
    IN  \/ f.pc \in {"tao", "fallback", "publish"}
        \/ f.pc = "alpha" /\ f.spot = 0 /\ Spot = 0
        \/ f.pc = "pool" /\ f.poolTao.usd = 0

Break(v) ==
    /\ Fault
    /\ Starts(v) \/ (Asks(v) /\ UNCHANGED cycle)
    /\ payout' \in IF feed[v].pc = "publish" THEN {payout, Snapshot} ELSE {payout}
    /\ feed' = Set(v, [NoCycle EXCEPT !.end = "unexpected"])
    /\ UNCHANGED <<market, up, last, disk, quoted, changes>>

\* The process restarts and loads the disk cache, which may be gone with the
\* container.
Restart(v) ==
    /\ Fault
    /\ disk' \in {disk, [disk EXCEPT ![v] = NoPrice]}
    /\ last' = [last EXCEPT ![v] = disk'[v]]
    /\ feed' = Set(v, NoCycle)
    /\ UNCHANGED <<market, up, payout, cycle, quoted, changes>>

Step(v) ==
    StartCycle(v) \/ ReadTao(v) \/ ReadAlpha(v) \/ Fallback(v) \/ ReadPool(v)

Next ==
    \/ Change
    \/ \E v \in Validators : Step(v) \/ Break(v) \/ Restart(v)
    \/ Publish

Spec == Init /\ [][Next]_vars

-----------------------------------------------------------------------------
(* Properties *)

Price == [usd : {0} \cup TaoPrices, at : 0..MaxCycles]

\* Every variable has its type; a cycle past its price reads has usable prices.
TypeOK ==
    /\ payout.tao \in Price /\ payout.alpha \in Nat
    /\ \A v \in Validators :
        /\ last[v] \in Price /\ disk[v] \in Price
        /\ feed[v].pc \in {"idle", "tao", "alpha", "fallback", "pool", "publish"}
        /\ feed[v].pc \in {"pool", "publish"} => feed[v].tao.usd > 0 /\ feed[v].alpha > 0
        /\ feed[v].pool >= 0
        /\ feed[v].end \in {"none", "price_feed", "unexpected"}

Priced(v) == feed[v].pc = "idle" /\ feed[v].pool > 0

\* Whatever was seeded, cached, published or restarted in between: each TAO/USD
\* that a validator scores with or that the store offers was quoted by a market
\* source in exactly that cycle, and the two reads of a cycle, if they differ, are
\* in order.
PricesWereQuoted ==
    /\ payout.tao \in quoted \cup {NoPrice}
    /\ \A v \in Validators : Priced(v) =>
        /\ {feed[v].tao, feed[v].poolTao} \subseteq quoted
        /\ feed[v].tao.at <= feed[v].poolTao.at

\* A cycle is given up for want of a price only if there really is none: no TAO/USD on
\* disk, in memory, from a source that answered all along or in payout.json; or no rate
\* from the chain, from Taostats while it answered all along or in payout.json.  Of
\* payout.json a failed GET shows nothing.
KnownPriceIsEnough ==
    [][\A v \in Validators :
        LET f == feed[v]
        IN  f.end # "price_feed" /\ feed'[v].end = "price_feed" =>
              \/ /\ disk[v] = NoPrice /\ last[v] = NoPrice
                 /\ f.live \cap {"taostats", "coingecko"} = {}
                 /\ payout.tao = NoPrice \/ faults' > faults
              \/ /\ f.spot = 0 /\ "spot" \notin f.live
                 /\ ~({"taostats", "poolPrice"} \subseteq f.live)
                 /\ payout.alpha = 0 \/ faults' > faults]_vars

\* A published or remembered price is never used while a live source answers: a
\* cycle during which one source answered throughout prices both reads no older
\* than its own start.
LiveBeatsRemembered ==
    \A v \in Validators :
        Priced(v) /\ feed[v].live \cap {"taostats", "coingecko"} # {} /\
        feed[v].live \cap {"spot"} # {} =>
            feed[v].tao.at >= feed[v].at /\ feed[v].poolTao.at >= feed[v].at
=============================================================================
