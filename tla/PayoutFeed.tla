----------------------------- MODULE PayoutFeed -----------------------------
(***************************************************************************)
(* Where the price of a GPU class comes from in a cycle, for the owner's   *)
(* validator and the readers: the Targon payout feed with its four tiers   *)
(* (live, disk cache, the owner's payout.json, the card), the Lium market  *)
(* with its disk cache, and the owner publishing what it resolved.         *)
(*                                                                         *)
(* A cycle resolves the Targon feed twice: Validator._targon_card once for *)
(* payout.json and the pricing_source gauge, and effective_card once more  *)
(* for the prices themselves.  The market moves in between, at most        *)
(* MaxMoves times; fetches fail, files are lost and writes, to the store   *)
(* and to the disk, are refused at most MaxFaults times.  Published floors *)
(* and switches come from the card (CardExchange), the switches once in a  *)
(* cycle; they may be flipped, which counts as a move.                     *)
(***************************************************************************)
EXTENDS PriceCard

CONSTANTS
    Readers,
    Own,                \* per validator: its card, see TargonPayoutFeed._card
    Floors,             \* the floors of the published card
    TargonSnapshots,    \* the row sets the Targon API may answer with
    LiumSnapshots,      \* the row sets the Lium query may answer with
    Modes,              \* the settings of the switches the owner may publish
    MaxMoves, MaxFaults

Owner      == "owner"
Validators == Readers \cup {Owner}
Null       == -1        \* a JSON null

ASSUME FeedAssumption ==
    /\ Owner \notin Readers
    /\ \A v \in Validators : Own[v] \in [Classes -> Int]
    /\ \A k \in DOMAIN Floors : Floors[k] \in Int
    /\ \A rows \in TargonSnapshots : IsFiniteSet(rows) /\
            \A row \in rows : row.unitRate \in Int /\ row.maxPrice \in Int
    /\ \A rows \in LiumSnapshots : IsFiniteSet(rows) /\
            \A row \in rows : row.rented \in Int /\ row.all \in Int
    /\ Modes \subseteq [Switches -> BOOLEAN]
    /\ MaxMoves \in Nat /\ MaxFaults \in Nat

-----------------------------------------------------------------------------
(* Snapshots *)

\* The best positive rate of each class that has one, from <<class, rate>> pairs.
BestRates(pairs) ==
    LET usable == {p \in pairs : p[1] \in Classes /\ p[2] > 0}
        of(k)  == {p[2] : p \in {q \in usable : q[1] = k}}
    IN  [k \in {p[1] : p \in usable} |->
            CHOOSE best \in of(k) : \A rate \in of(k) : rate <= best]

\* unitRate, or maxPrice for a class that supplies no capacity.
TargonRate(row) == IF row.unitRate = Null THEN row.maxPrice ELSE row.unitRate

PerClassFromSnapshot ==
    [rows \in TargonSnapshots |-> BestRates({<<row.klass, TargonRate(row)>> : row \in rows})]

\* The median over rented nodes, or over all nodes when none is rented.
LiumRate(row) == IF row.rented = Null THEN row.all ELSE row.rented

PerClassFromRows ==
    [rows \in LiumSnapshots |-> BestRates({<<row.klass, LiumRate(row)>> : row \in rows})]

-----------------------------------------------------------------------------
VARIABLES
    targon, lium,           \* what the two APIs answer now
    mode,                   \* the switches of the published card
    targonCache, liumCache, \* per validator: the files under ~/.kubetee
    payout,                 \* per_card_usd of payout.json in the store
    feed,                   \* per validator: the cycle, see FeedState
    seen,                   \* per validator: what it fetched live, see Unseen
    quoted,                 \* every <<class, price>> Targon ever quoted
    moves, faults

vars == <<targon, lium, mode, targonCache, liumCache, payout, feed, seen, quoted,
          moves, faults>>

\* per is _last_targon_payout, source what the gauge says, flags the switches of
\* this cycle, priced what effective_card resolved to, paid the effective card and
\* mode the switches it was made with.
NoCycle == [pc |-> "idle", per |-> NoPrices, source |-> "none",
            flags |-> DefaultPricing, priced |-> "none", mode |-> DefaultPricing,
            paid |-> NoPrices]

\* The owner's process resolves once before its first cycle.
Started(v) == [NoCycle EXCEPT !.pc = IF v = Owner THEN "banner" ELSE "idle"]

\* History, not state of the code: the last live quote and all of them, and whether
\* the disk took the last one and has kept it since.
Unseen == [last |-> NoPrices, all |-> {}, kept |-> TRUE]

Quoted(rows) ==
    LET per == PerClassFromSnapshot[rows] IN {<<k, per[k]>> : k \in DOMAIN per}

Init ==
    /\ targon \in TargonSnapshots /\ lium \in LiumSnapshots /\ mode \in Modes
    /\ targonCache = [v \in Validators |-> NoPrices]
    /\ liumCache = [v \in Validators |-> NoPrices]
    /\ payout = NoPrices
    /\ feed = [v \in Validators |-> Started(v)]
    /\ seen = [v \in Validators |-> Unseen]
    /\ quoted = Quoted(targon)
    /\ moves = 0 /\ faults = 0

\* n things go wrong in this step.
Faults(n) == faults + n <= MaxFaults /\ faults' = faults + n

Empty(per) == DOMAIN per = {}

\* The market moves, or the owner flips a switch on the card.
MarketMoves ==
    /\ moves < MaxMoves /\ moves' = moves + 1
    /\ \/ targon' \in TargonSnapshots \ {targon} /\ UNCHANGED <<lium, mode>>
       \/ lium' \in LiumSnapshots \ {lium} /\ UNCHANGED <<targon, mode>>
       \/ mode' \in Modes \ {mode} /\ UNCHANGED <<targon, lium>>
    /\ quoted' = quoted \cup Quoted(targon')
    /\ UNCHANGED <<targonCache, liumCache, payout, feed, seen, faults>>

-----------------------------------------------------------------------------
(* resolve_per_card_usd: never raises *)

\* A snapshot without a usable class counts as a failed fetch.
TargonAnswers == ~Empty(PerClassFromSnapshot[targon])
LiumAnswers   == ~Empty(PerClassFromRows[lium])

\* What the cache files may hold after a write: the cache is best-effort, a refused
\* open leaves the old file and a full disk one that does not parse.
Written(files, v, per, n) ==
    IF n = 0 THEN {[files EXCEPT ![v] = per]}
    ELSE {files, [files EXCEPT ![v] = NoPrices]}

\* Each tier says how many faults n it takes to end up in it.
ResolveLive(v, per, source, n) ==
    /\ TargonAnswers
    /\ per = PerClassFromSnapshot[targon] /\ source = "live"
    /\ n \in 0..1 /\ targonCache' \in Written(targonCache, v, per, n)
    /\ seen' = [seen EXCEPT ![v] = [last |-> per, all |-> @.all \cup {per},
                                   kept |-> n = 0]]

\* Targon does not answer, or fails to although it could.
Dark == IF TargonAnswers THEN 1 ELSE 0

\* Mutant: the owner's snapshot is preferred to what was fetched last.
PublishedFirst(v, per, source, n) ==
    /\ \/ ~Empty(payout) /\ per = payout /\ source = "published" /\ n = Dark
       \/ Empty(payout) /\ ~Empty(targonCache[v])
            /\ per = targonCache[v] /\ source = "cache" /\ n = Dark
       \/ Empty(targonCache[v]) /\ per = Own[v] /\ source = "card"
            /\ n = IF Empty(payout) THEN Dark ELSE Dark + 1
    /\ UNCHANGED <<targonCache, seen>>

\* Own cache, then payout.json, then, also if the GET of that fails, the card.
ResolveDark(v, per, source, n) ==
    /\ \/ ~Empty(targonCache[v])
            /\ per = targonCache[v] /\ source = "cache" /\ n = Dark
       \/ Empty(targonCache[v]) /\ ~Empty(payout)
            /\ per = payout /\ source = "published" /\ n = Dark
       \/ Empty(targonCache[v])
            /\ per = Own[v] /\ source = "card"
            /\ n = IF Empty(payout) THEN Dark ELSE Dark + 1
    /\ UNCHANGED <<targonCache, seen>>

\* Mutant: a cached snapshot is never refreshed.
CacheFirst(v, per, source, n) ==
    IF Empty(targonCache[v])
    THEN ResolveLive(v, per, source, n) \/ ResolveDark(v, per, source, n)
    ELSE /\ per = targonCache[v] /\ source = "cache" /\ n = 0
         /\ UNCHANGED <<targonCache, seen>>

Resolve(v, per, source, n) ==
    ResolveLive(v, per, source, n) \/ ResolveDark(v, per, source, n)

\* What resolve_per_card_usd can return to v now.
Resolutions(v) ==
    {<<PerClassFromSnapshot[targon], "live">>, <<targonCache[v], "cache">>,
     <<payout, "published">>, <<Own[v], "card">>}

\* run_forever, before its loop: the source for the startup banner.
Banner ==
    /\ feed[Owner].pc = "banner"
    /\ \E n \in 0..2 : Faults(n) /\
            \E r \in Resolutions(Owner) : Resolve(Owner, r[1], r[2], n)
    /\ feed' = [feed EXCEPT ![Owner].pc = "idle"]
    /\ UNCHANGED <<targon, lium, mode, liumCache, payout, quoted, moves>>

\* The switches are adopted; _targon_card, first half: what is published and what
\* the gauge will say.
FirstResolve(v) ==
    /\ feed[v].pc = "idle"
    /\ \E n \in 0..2 : Faults(n) /\ \E r \in Resolutions(v) :
        /\ Resolve(v, r[1], r[2], n)
        /\ feed' = [feed EXCEPT ![v] =
                        [@ EXCEPT !.pc = "price", !.flags = mode,
                                  !.per = r[1], !.source = r[2]]]
    /\ UNCHANGED <<targon, lium, mode, liumCache, payout, quoted, moves>>

\* The medians are fetched and cached, or failing that read from the cache.
LiumMedians(v, per, n) ==
    \/ /\ LiumAnswers
       /\ per = PerClassFromRows[lium]
       /\ n \in 0..1 /\ liumCache' \in Written(liumCache, v, per, n)
    \/ /\ per = liumCache[v]
       /\ n = IF LiumAnswers THEN 1 ELSE 0
       /\ UNCHANGED liumCache

\* The Lium half of effective_card: asked for only when its switch is on.
LiumFetched(v, per, n) ==
    IF feed[v].flags["lium"] THEN LiumMedians(v, per, n)
    ELSE per = NoPrices /\ n = 0 /\ UNCHANGED liumCache

\* _targon_card, second half: effective_card resolves anew and prices.
SecondResolve(v) ==
    /\ feed[v].pc = "price"
    /\ \E n \in 0..2, m \in 0..1 : Faults(n + m) /\
       \E l \in {NoPrices, PerClassFromRows[lium], liumCache[v]}, r \in Resolutions(v) :
        /\ LiumFetched(v, l, m)
        /\ Resolve(v, r[1], r[2], n)
        /\ feed' = [feed EXCEPT ![v] =
                        [@ EXCEPT !.pc = IF v = Owner THEN "publish" ELSE "idle",
                                  !.priced = r[2], !.mode = feed[v].flags,
                                  !.paid = EffectiveCard(Own[v], Floors, feed[v].flags,
                                                         r[1], l)]]
    /\ UNCHANGED <<targon, lium, mode, payout, quoted, moves>>

\* Mutant: the prices paid are published, not those resolved.
PublishPaid ==
    /\ feed[Owner].pc = "publish"
    /\ \/ payout' = feed[Owner].paid /\ Faults(0)
       \/ UNCHANGED payout /\ Faults(1)
    /\ feed' = [feed EXCEPT ![Owner].pc = "display"]
    /\ UNCHANGED <<targon, lium, mode, targonCache, liumCache, seen, quoted, moves>>

\* _publish_payout: the per-card prices of the first half, whatever their source.
PublishPayout ==
    /\ feed[Owner].pc = "publish"
    /\ \/ payout' = feed[Owner].per /\ Faults(0)
       \/ UNCHANGED payout /\ Faults(1)
    /\ feed' = [feed EXCEPT ![Owner].pc = "display"]
    /\ UNCHANGED <<targon, lium, mode, targonCache, liumCache, seen, quoted, moves>>

\* lium_snapshot, for the owner's dashboard: with the switch off the medians are
\* fetched for display only, but they are cached all the same.
LiumSnapshot ==
    /\ feed[Owner].pc = "display"
    /\ IF feed[Owner].flags["lium"] THEN UNCHANGED <<liumCache, faults>>
       ELSE \E l \in {PerClassFromRows[lium], liumCache[Owner]}, n \in 0..1 :
                Faults(n) /\ LiumMedians(Owner, l, n)
    /\ feed' = [feed EXCEPT ![Owner].pc = "idle"]
    /\ UNCHANGED <<targon, lium, mode, targonCache, payout, seen, quoted, moves>>

\* The rest of the owner's cycle is skipped: no price of alpha, or a PUT of the
\* payout whose answer breaks off, before or after it was stored; or no weights.
SkipCycle ==
    /\ feed[Owner].pc \in {"publish", "display"}
    /\ Faults(1)
    /\ feed' = [feed EXCEPT ![Owner].pc = "idle"]
    /\ UNCHANGED <<targon, lium, mode, targonCache, liumCache, payout, seen, quoted, moves>>

\* The process starts over.  A recreated container comes without its cache files, a
\* process killed while it wrote one leaves that one unreadable.
Restart(v) ==
    /\ Faults(1)
    /\ feed' = [feed EXCEPT ![v] = Started(v)]
    /\ targonCache' \in {targonCache, [targonCache EXCEPT ![v] = NoPrices]}
    /\ liumCache' \in {liumCache, [liumCache EXCEPT ![v] = NoPrices]}
    /\ seen' = [seen EXCEPT ![v].kept = @ /\ targonCache' = targonCache]
    /\ UNCHANGED <<targon, lium, mode, payout, quoted, moves>>

Next ==
    \/ MarketMoves
    \/ \E v \in Validators : FirstResolve(v) \/ SecondResolve(v) \/ Restart(v)
    \/ Banner \/ PublishPayout \/ LiumSnapshot \/ SkipCycle

Spec == Init /\ [][Next]_vars

\* The process of v goes on with its cycle.
Proceed(v) ==
    \/ FirstResolve(v) \/ SecondResolve(v)
    \/ v = Owner /\ (Banner \/ PublishPayout \/ LiumSnapshot)

\* Every validator keeps cycling; outages are bounded by MaxFaults.
FairSpec == Spec /\ \A v \in Validators : WF_<<feed[v]>>(Proceed(v))

-----------------------------------------------------------------------------
(* Properties *)

Positive(per) ==
    DOMAIN per \subseteq Classes /\ \A k \in DOMAIN per : per[k] \in Nat \ {0}

\* No tier ever supplies a class outside the card or a price that is not
\* positive, and a cycle that priced paid a price for every class.
TypeOK ==
    /\ Positive(payout)
    /\ \A v \in Validators :
        /\ Positive(targonCache[v]) /\ Positive(liumCache[v]) /\ Positive(feed[v].per)
        /\ feed[v].pc \in {"banner", "idle", "price", "publish", "display"}
        /\ feed[v].priced # "none" => DOMAIN feed[v].paid = Classes

\* With the Lium switch off a class pays between its floor and its card, whatever
\* tier priced it and however far the market moved; with it on, never less than
\* the floor.
PaidWithinBounds ==
    \A v \in Validators : \A k \in DOMAIN feed[v].paid :
        LET floor == FloorFor(Floors, k, Own[v][k])
        IN  /\ feed[v].paid[k] >= floor
            /\ ~feed[v].mode["lium"] => feed[v].paid[k] <= Own[v][k]

\* In the first half the resolved prices are q; the second made its card of q.
PricedWith(v, q) ==
    IF feed[v].pc = "price" THEN feed[v].per = q
    ELSE ~feed[v].mode["lium"] =>
            feed[v].paid = EffectiveCard(Own[v], Floors, feed[v].mode, q, NoPrices)

\* "live -> last-known -> card", in either half of a cycle and whatever disks, store,
\* processes and other validators do: a live price is the quote just fetched, a cached
\* one is a whole quote that this validator itself fetched, and the last one if the
\* disk took it and kept it; only if the disk did not, or nothing was ever fetched,
\* does it pay by somebody else's snapshot or by the card.
FallsBackToLastSeen ==
    \A v \in Validators :
        LET half == IF feed[v].pc = "price" THEN feed[v].source ELSE feed[v].priced
        IN  /\ half = "live" => PricedWith(v, seen[v].last)
            /\ half = "cache" => \E q \in seen[v].all : PricedWith(v, q)
            /\ half = "cache" /\ seen[v].kept => PricedWith(v, seen[v].last)
            /\ half \in {"published", "card"} => ~seen[v].kept \/ Empty(seen[v].last)

\* What is published, cached and read back is what Targon once quoted or what a card
\* says: floors, caps and the 110% of the market never feed back into the feed,
\* however long payout.json and the caches feed one another.
MarkupNeverFeedsBack ==
    LET Origin(per, cards) == \A k \in DOMAIN per :
            <<k, per[k]>> \in quoted \/ \E v \in cards : per[k] = Own[v][k]
    IN  /\ Origin(payout, {Owner})
        /\ \A v \in Validators :
            Origin(targonCache[v], {}) /\ Origin(feed[v].per, {v, Owner})

\* Once fetches work again and the market rests, every validator pays the price
\* the market quotes, and the store shows it.
FollowsTheMarket ==
    TargonAnswers /\ LiumAnswers ~>
        \/ ~(TargonAnswers /\ LiumAnswers)
        \/ /\ payout = PerClassFromSnapshot[targon]
           /\ \A v \in Validators : feed[v].paid =
                EffectiveCard(Own[v], Floors, mode, PerClassFromSnapshot[targon],
                              IF mode["lium"] THEN PerClassFromRows[lium] ELSE NoPrices)
=============================================================================
