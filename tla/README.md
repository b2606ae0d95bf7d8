# KubeTEE subnet validator: a TLA+ verification project

TLA+ models of the KubeTEE (Bittensor SN90) validator, `src/validator/`, with TLC
configurations that check them on small instances and TLAPS proofs of the
properties that matter most. `PROJECT.json` holds the machine-readable index:
which definition translates which lines, which run checks which property, which
mutation of the code each property catches, the hazards and the findings.

## The system

A validator is one Python process that runs a cycle about every epoch
(`Validator.run_forever`, `run_cycle`): read the metagraph, read the fleet from
Rancher, adopt the price card, resolve the market prices, resolve the price of
alpha, judge every miner, split the emission pool, and set the weights on chain
once per epoch. One validator, the *publisher*, holds the object store's secret
and also writes `price-card.json` and `payout.json`; all others read them.
Cycles are sequential inside a process. What runs concurrently are the
validators, the owner and his script, the chain, the markets and the fleet; they
meet in the object store, the chain and Rancher, none of which offers a lock.

| component (source) | state it keeps | operations | what makes it correct |
|---|---|---|---|
| weight submission (`validator.py`, `chain_state.py`) | last submitted epoch, last set block, in memory | tempo, block and limit reads with fallbacks, cooldown, submit, retry | one vector per epoch, never silent, never repeated without a fault |
| price card exchange (`price_card.py`, `validator.py`, `set_pricing_flags.py`) | the stored object; per validator the last card, floors, switches | publish, flip, hand edit, adopt | a reader works with one published object, inside the envelope; flips survive |
| payout and market feeds (`targon_payout_feed.py`, `market_pricing.py`) | two disk caches, `payout.json` | live fetch, cache, published, card; clamp or market price | fallbacks in order, prices between floor and card, back to the market when it answers |
| compensation feed (`price_feed.py`, `chain_state.py`) | last TAO/USD in memory and on disk | five sources of TAO/USD, four of alpha to TAO, seed, publish, fallback | only quoted prices, live before remembered, no skip for want of a price that is known |
| readiness and scoring (`infrastructure_validation.py`, `miner_scoring.py`) | none | verdict, GPU count, weights | the dead and the unfit earn nothing, the healthy what is due |
| Rancher client (`rancher_client.py`) | the list of one read | follow pages with the token, or one signed request to the proxy | a list is complete or there is none; an outage ends |
| Rancher proxy (`rancher_proxy.py`, `version.py`) | a thread per request, in the owner's process | check stamp, permit and version, follow pages, answer | only fresh requests of permitted validators are served, with whole lists |
| validator cycle (`validator.py`) | last card, floors, submission; the locals of a cycle | the phases, their skips, submission, restart | a vector pays who earned it in that cycle; every cycle is counted |
| metrics, dashboard (`validator_metrics.py`, `dashboard.py`) | counters, gauges, two stored pages | record, publish | they show one cycle, in the end the present one |
| object store client (`hippius_store.py`) | none | GET, PUT | - |
| configuration, version, smoke scripts, docs, packaging | constants | - | - |

The owner's process also runs the proxy, whose threads follow pages for the
readers; a reader meets the owner only there, in the store and on chain.

What is hard here: reads at different times that are judged together; memory
that a restart loses; an object that several parties read, change and write whole;
a chain of fallbacks of which each tier may be stale and feeds the next (the
owner's own `payout.json` above all); phases of which one fails after others took
effect; a reader that gave up on a request the proxy still works on; clocks of three
parties; and the boundaries of the splits and clamps.

## The modules

| module | models | abstraction |
|---|---|---|
| `VoteLedger` | the promise of the epoch loop: votes with ascending epochs, never taken back | abstract specification |
| `WeightSubmission` | `_set_weights_once_per_epoch` and the chain it talks to | heights are numbers; a vector is the height it was decided and included at and its epoch |
| `WeightSubmission_proofs` | proofs | |
| `PriceCard` | parsing, clamping, resolving a card; the price paid | pure operators; integer prices in a unit in which the percentages are exact |
| `CardExchange` | publisher, script, hand edits and readers around `price-card.json` | GET and PUT are separate steps; an object is a record |
| `CardExchange_proofs` | proofs | |
| `PayoutFeed` | the tiers of the Targon feed, Lium, `effective_card`, `payout.json` | a snapshot is a set of rows; extends `PriceCard` |
| `PayoutFeed_proofs` | proofs | |
| `PriceFeed` | TAO/USD, alpha to TAO, seeding, fallback, pool | a price carries the owner's cycle it was quoted in, so that age can be spoken about |
| `PriceFeed_proofs` | proofs | |
| `Readiness` | `validate_miner`, `_miner_gpu_breakdown`, `compute_weights` | pure operators; weights are integers over a common denominator, so sums are exact |
| `Readiness_proofs` | lemmas on what its operators compute: sums, verdicts, the split | |
| `Fleet` | the cycle's reads of metagraph, clusters and nodes while the fleet changes | extends `Readiness`; time in units longer than a heartbeat |
| `Fleet_proofs` | proofs | |
| `EvidenceRead` | the promise of reading a Rancher collection: a regular read, or none | abstract specification |
| `RancherAccess` | `RancherClient` with its two ways to Rancher, the proxy's threads, the version gate | ids are numbers, a marker a position among them; ages in units of the clients' timeout; refines `EvidenceRead` |
| `RancherAccess_proofs` | proofs | |
| `ValidatorCycle` | `run_cycle` and `run_forever` from end to end: skips, submission, counters, gauges, dashboard, restarts | what a phase computes is in the other modules; a weight is the hotkey it is meant for |
| `ValidatorCycle_proofs` | proofs | |
| `MC*` | constants of the runs | |

Actions carry the names of the functions or of the branch they take. A cycle is
cut where the code waits: each chain read, GET, PUT and list is a step of its own,
everything between two of them one step (the process is sequential). `pc` is
the place in the cycle; a record (`cyc`, `feed`, `view`) holds its locals.
The chain, the markets, the fleet and the hand that edits the store are outside
the repository and marked external in the map.

- **WeightSubmission.** `TempoFromChain`, then `SkipEpoch` or `OpenEpoch` (block
  read, already attempted?), `SkipCooldown` or `Attempt` (rate limit), then
  `Include` by the chain, and `Acknowledged` or `LostAck`, or `Rejected`. Only
  `Acknowledged` changes what is remembered. `Tick` lets blocks pass between any
  two of them. `Restart` forgets.
- **CardExchange.** `PublisherGet`/`PublisherPut` are `_publisher_pricing` and
  `_publish_card`; `ScriptGet`/`ScriptPut` the script; `ReaderCycle` is
  `resolve_card` and `require_card` in one step, as it has a single GET.
  `Exclusive` confines the owner to the time between publishes; nothing in the
  code does, so it is a hypothesis, lifted in `card_adopted`. A failed PUT is the `HippiusError`
  that `_publish_card` catches; `PublisherPutBreaks` is one that breaks off, stored or not, and ends the cycle.
- **PayoutFeed.** `FirstResolve` (which also adopts the switches) and `SecondResolve` are the two
  resolutions of `_targon_card`; then the publisher's `PublishPayout` and `LiumSnapshot`, or `SkipCycle`.
  `Banner` is the resolution before the first cycle. The caches are best-effort, as `_save_cache` swallows
  every `OSError`: a write may be refused and leave the older file, or one that does not parse (`Written`), and
  a `Restart` finds the files or, in a new container, none. `seen` is a history variable of what a validator
  fetched live and whether the disk took and kept the last of it; it outlives restarts, and no action reads it.
- **PriceFeed.** `StartCycle` (seed), `ReadTao`, `ReadAlpha`, `Fallback`, `ReadPool`,
  `Publish`, in the order of `run_cycle`. A call has three outcomes: an answer; an error the code catches (a
  source that is not `up`, a failed GET or PUT), after which it falls back; or it breaks off while the answer
  is read, which is no `URLError` and ends the cycle as "unexpected" (`Break`). `end` tells the last from the
  skip "price_feed". `SaveTao` is the disk cache, best-effort too.
- **Fleet.** `ReadMetagraph`, `ListClusters`, one `ListNodes` per cluster, then `Score`,
  which judges by the clock of its own moment, as `node_posture` does. Each node has its own
  clock (`skew`), with which Rancher stamps its heartbeats.
- **RancherAccess.** The owner: `OwnerStarts`, `OwnerPage` for each page. A reader: `ReaderSends`,
  then the proxy's thread takes over with `CheckStamp` (`_verify_hotkey_with_msg` up to the window),
  `ReadGraph` (metagraph, permit, version), `FollowPage` for each page, `Answer`. `Reply` reaches the
  reader only if it still waits: `ReaderTimesOut` leaves the thread behind, and the next
  request takes another slot. An outcome is "evidence", "rancher" (`RancherEvidenceError`, caught by
  `run_cycle`) or "unexpected" (what `run_cycle` does not catch). The signature is left out, as
  that of an honest reader verifies, and so is the allowlist, as `RancherClient` asks for nothing else.
- **ValidatorCycle.** `ReadMetagraph`, `ReadEvidence`, `ResolveCard`, `FindPrice`, `Score`, then one of
  `SubmitNothing`, `Accepted`, `Rejected`, `AnswerLost`, then `Record` and, for a publisher, `PutJson` and
  `PutHtml`. `Skip` is `record_skip` with the return, or `run_forever`'s handler, which the price phase and a
  publisher's card PUT may reach, too. `NewEpoch` and
  `CooldownOver` stand for the arithmetic of `WeightSubmission`. `seen` is a history variable:
  who was registered and ready during the cycle; no action reads it.

## The runs

Each passing run's properties hold on its whole state space; every property also has
a mutation of the modelled code that it catches. The runs named *violation* exhibit a
disagreement between the code and what its documentation says.

| run | shows |
|---|---|
| `submission_once` | skips, rejections and an unreadable limit never cost a second vector in an epoch |
| `submission_ledger` | the loop refines `VoteLedger` under unreadable tempo, block and limit and under a changing tempo |
| `submission_crash` | with restarts and lost answers the chain's weights are never older than two epochs, and each repeated vector is paid for by a fault |
| `card_exclusive` | without interleaving and publisher outages, flips survive re-publishing, failed writes and restarts, and the card's epoch never goes back |
| `card_adopted` | races, outages, restarts and malformed hand edits never make a reader mix objects, leave the envelope or adopt the compiled-in card, and once they are over the reader works with what is published |
| `payout_tiers` | fallbacks in order: a dark cycle pays a quote the validator fetched, the last one if the disk took and kept it; prices in their bounds; no clamp or markup fed back through caches and `payout.json`; after outages, lost files and refused writes prices return to the market when it answers |
| `feed_outage` | quoted prices only, live before remembered, no skip for want of a price that is known |
| `access_evidence` | through failing pages, changing collections and permits, readers that give up and restarts of the proxy, what a client scores with is a regular read of Rancher (refinement of `EvidenceRead`), is served on a permit held during that read, and comes again after an outage |
| `cycle_outcomes` | whichever phase fails and however uids change hands, a vector pays who earned it in the cycle that submits it; every cycle is counted; the gauges are of one cycle; chain, gauges and dashboard come to agree with what is the case |
| `fleet_paid` | healthy clusters with fit hardware are paid exactly (but for the slowest cycles), no healthy one too much, unfit and dark ones nothing (the staging miner's too when it is dark), the split adds up with and without the owner in the metagraph |

### Findings

Two disagreements are exhibited by runs of their own:

| run | the code | the documentation |
|---|---|---|
| `submission_tempo` | epoch numbers of different tempos are compared: after the tempo is raised the validator is silent until the height catches up (validator.py:704) | "set_weights once per chain epoch" (validator.py:4) |
| `card_priced` | readers price with their own card, not the published one they adopted (targon_payout_feed.py:187) | "the consensus parameter every validator prices with" (price_card.py:1) |

Others were met while translating. The models carry what the code does; no run is
devoted to them, and the first four appear when a constant of a passing run is
changed as said.

- A flip between the publisher's GET and PUT is overwritten (validator.py:450; "so the flip survives and
  propagates", set_pricing_flags.py:19): `Exclusive = FALSE` in `card_exclusive.cfg`.
- A restart forgets the submitted epoch (validator.py:83; "one `set_weights` per epoch",
  README.md:144): add `"restart"` to `Faults` in `submission_once.cfg`.
- One failed GET of the publisher resets the switches (validator.py:477): `"publisherGet"` in
  `card_exclusive.cfg`.
- The script writes back the whole object it read, over a publish in between
  (set_pricing_flags.py:133; "epoch/prices/floors untouched", line 16): `Exclusive = FALSE` there.
- The cooldown counts from the block read before inclusion (validator.py:720, 743; "Wait for the
  chain's weights_rate_limit cooldown", line 711), so an attempt may come too early; it is retried.
- Caches and the card itself are published as Targon's snapshot (validator.py:586; "real
  observed data", docs/COMPETITIVE-PRICING.md:176). `MarkupNeverFeedsBack` says what does hold.
- A dark feed's card counts as a quote in market mode: 110% of the card where "pays the floor" is
  documented (targon_payout_feed.py:299, 359; validator/README.md:137).
- Gauge and prices come from two resolutions (validator.py:565, 570; validator_metrics.py:30).
- The staging miner's verdict is overridden, the ban included (validator.py:241;
  docs/CLUSTER_NAMING_CONVENTION.md:162); `UnfitEarnNothing` excludes it by name.
- Without the owner's uid an idle epoch is split among all (miner_scoring.py:121; line 15);
  `UnfitEarnNothing` has the exception.
- The GPUs need not be on a worker (infrastructure_validation.py:408; line 8).
- The published price is read before, and over, memory (validator.py:139; price_feed.py:9).
- The pool is 1.0 without a spot price (chain_state.py:152; README.md:471).
- The last fallback of the rate is alpha per TAO (price_feed.py:214; line 188).
- During an outage the owner publishes an old TAO price and reads it back without end (validator.py:213;
  "one cycle stale", validator/README.md:184). `PricesWereQuoted` says what does hold.
- A read of Taostats or CoinGecko that times out, or is cut short, is no `URLError`: it passes the handlers of
  `tao_usd` and `run_cycle` and costs the cycle, CoinGecko untried and a price in memory (price_feed.py:54; "A 429 /
  outage must not skip the cycle when any of those succeed", line 12). This is `Break`; `KnownPriceIsEnough` is
  about the skips for want of a price only.
- The same gap ends a cycle in the Rancher client (rancher_client.py:134; "Any transport/HTTP/parse problem raises RancherEvidenceError", line 5) and in the
  store's GET and PUT ("Returns None on any failure", hippius_store.py:47), hence `PublisherPutBreaks`.
- A cache write that fails is silent, so a dark cycle may pay an older quote, `payout.json` or the card although a
  newer quote was fetched (targon_payout_feed.py:177; "last known (cached on disk)", line 18). `FallsBackToLastSeen` says what does hold.
- The proxy answers 403 to unknown query parameters (rancher_proxy.py:162; "dropped before
  forwarding", line 17).
- A cycle whose submission is rejected is counted as skip and as ok (validator.py:755; cycles "partitioned by
  outcome", validator_metrics.py:7). `EveryCycleCounted` has the exception.
- The pricing source gauge has no label for "published" (validator_metrics.py:102; line 31).
- A marker of Rancher that repeats is followed for ever (rancher_client.py:158).

### Bounds, and why they are enough

- `submission_*`: tempo 6 (3 and 6 where it changes), fallback tempo 4, rate limits 2 and
  3, heights 7 to 18, 22, 24 or 30: two to seven epochs, so that a vector can
  land, be cooled down from, be followed by a tempo change and land again. The fallback 4 is
  neither tempo nor a multiple of one, as 360 need not be. Two faults meet in one epoch.
  `CycleBlocks` = 2 starts a cycle several times per epoch, as `cycle_seconds` (360 s, 30 blocks) does
  in a tempo of 360. In `submission_crash` two faults delay a vector to an age of 11 blocks at height 23,
  the most that `EpochsOutlastFaults` (below) allows; a third would take it past two epochs.
  The chain stops at `MaxBlock`, hence `CHECK_DEADLOCK FALSE`.
- `card_*`: two readers, symmetric (one in `card_adopted`, whose liveness property rules symmetry
  out: readers do not meet), two classes (one whose
  publisher price differs from the compiled-in one), two or three flips, two faults. The five hand
  edits are one per branch of the parser. Height 2 lets a stamp go back.
- `payout_tiers`: one reader and the owner, two classes, three Targon answers (full, partial with
  a zero rate and a rate above the card, none usable) and two Lium answers; one move puts an outage
  or another quote between the two resolutions of one cycle, and an answer without usable rows is an outage that
  needs no fault. Two faults are a refused write, or a lost file, and an outage on top. The switches are
  the default or all on; with all off a validator pays its card, whatever the feeds say.
- `feed_outage`: two prices, one rate, two changes, two faults, two owner cycles. A price is told apart by the cycle it is quoted in, so two prices suffice.
  Two faults are, for instance, a refused write of the disk cache and a restart that finds the older file.
- `fleet_paid`: two clusters and four nodes, chosen for the branches of the policy (no GPU
  count, half a node, no usable stamp, confidential by TDX only, alias label; clocks one unit ahead and one
  behind), the owner registered or not; pools of 1, the fallback, and 200 on either side of what can be
  earned (56). Times 3 to 7 against a maximal age of 2 with cycles of up to 2: a node that dies at once is stale
  for the last cycle even by a clock that is ahead, and the slowest cycle judges a node whose clock is
  behind as stale. Two events and one failed read. Time ends at `MaxTime`, hence `CHECK_DEADLOCK FALSE`.
- `access_evidence`: two ids on pages of one; one reader, as readers share nothing but Rancher, with two
  request slots: a thread it left behind and the one it waits for. A window of two timeouts, as 60 s is of
  30 s; clocks at the edge of the window and beyond it. Two changes of objects or permits, one
  delay and one fault: a request that waits and one that times out.
- `cycle_outcomes`: two uids and hotkeys, so that a uid can be added, taken over and trimmed. Two
  changes and two faults: a phase fails in the cycle after one in which another did.

### Fairness

Four runs check liveness. `run_forever` starts a cycle after every cycle, catches every
exception, and each remote call has a timeout; so the steps of a cycle are weakly fair
(`ReaderCycle`, `PublisherGet`, `PublisherPut`; `Proceed`, the next step of a validator's
cycle in `PayoutFeed`; `OwnerStep`, `ReaderStep`; `Cycle`). A thread of the proxy
goes on until it has answered (`ThreadStep`), epochs and cooldowns pass (`NewEpoch`,
`CooldownOver`) since the chain produces blocks. A script that has read goes on to write. No fairness is
assumed of flips, edits, moves of the market, faults or restarts; outages end
because their number is bounded, which is the hypothesis of all four properties ("once outages
have passed"). `FreshWeights` is a safety property and needs no fairness: `Tick` is bounded by
`CycleBlocks` between the ends of two cycles, that is, cycles follow one another in time.

## The proofs

Seven modules, one per component, hold theorems; `Readiness_proofs` holds the lemmas about the operators
`Fleet` is built from. All of it holds for every value of the constants that satisfies the named assumptions of
the modules (`ConstantsAssumption`, `CardAssumption`, `ExchangeAssumption`, both `FeedAssumption`s,
`PolicyAssumption`, `FleetAssumption`, `AccessAssumption`, `CycleAssumption`): natural numbers where the
code has counts and positive ones where it refuses others, finite fleets, lists and snapshots, list ids that do not
repeat; and any number of validators, request slots, classes, uids, nodes, ids, faults, events, flips, changes, and
hand edits with numeric prices.

| module | theorem | states | under |
|---|---|---|---|
| `WeightSubmission` | `TypeCorrect` | `Spec => []TypeOK` | - |
| | `LedgerImplemented` | `Spec => LedgerSpec`: the loop refines `VoteLedger` | `NothingForgotten`: no restart, no lost answer |
| | `OnceEachEpoch` | `Spec => []OncePerEpoch` | `ReliableChain`: of the faults only skip, reject and an unreadable limit |
| | `RepeatsHaveCauses` | `Spec => []RepeatsAreFaults` | `SteadyTempo`: it stays and can be read |
| | `WeightsStayFresh` | `Spec => []FreshWeights` | `SteadyTempo`, `EpochsOutlastFaults` |
| `CardExchange` | `AdoptedAsPublished` | `Spec => []AdoptedWhole` | - |
| | `EnvelopeHolds` | `Spec => []InEnvelope` | - |
| | `FlipsPreserved` | `Spec => []FlipSurvives` | `FlipsUndisturbed`: exclusive, readable by the publisher, no hand edits, what it writes parses |
| | `EpochsAdvance` | `Spec => EpochNeverRollsBack` | `EpochsUndisturbed`: exclusive, no hand edits, the height can be read |
| | `CardTypes` | `Spec => []TypeOK` | - |
| `PayoutFeed` | `DarkCyclesPayTheLastQuote` | `Spec => []FallsBackToLastSeen` | - |
| | `MarkupStaysOut` | `Spec => []MarkupNeverFeedsBack` | - |
| | `FeedTypes` | `Spec => []TypeOK` | `CardsArePositive` |
| | `BoundsHold` | `Spec => []PaidWithinBounds` | `CardsArePositive`: no override is zero or less |
| `PriceFeed` | `FeedTypes` | `Spec => []TypeOK` | - |
| | `QuotedPricesOnly` | `Spec => []PricesWereQuoted` | - |
| | `LiveFirst` | `Spec => []LiveBeatsRemembered` | - |
| | `OutagesSkipNothing` | `Spec => KnownPriceIsEnough` | - |
| `Fleet` | `FleetTypes` | `Spec => []TypeOK` | - |
| | `EachItsShare` | `Spec => []SplitIsFair` | - |
| | `TheDarkEarnNothing` | `Spec => DarkEarnNothing` | - |
| | `TheUnfitEarnNothing` | `Spec => UnfitEarnNothing` | - |
| | `TheHealthyArePaid` | `Spec => HealthyArePaid` | - |
| `RancherAccess` | `AccessTypes` | `Spec => []TypeOK` | - |
| | `PermittedAreServed` | `Spec => []ServedRightly` | - |
| | `ReadsAreRegular` | `Spec => EvidenceSpec`: reads refine `EvidenceRead` | - |
| `ValidatorCycle` | `CycleTypeCorrect` | `Spec => []TypeOK` | - |
| | `CountedOnce` | `Spec => EveryCycleCounted` | - |
| | `GaugesAreOfOneCycle` | `Spec => []GaugesOfOneCycle` | - |
| | `PaidAsEarned` | `Spec => PaysWhoEarned` | - |

### The hypotheses

They are needed, and say what the code rests on. The changes of constants listed under the findings drop
`NothingForgotten`, `ReliableChain`, `FlipsUndisturbed` and `EpochsUndisturbed`.

- `SteadyTempo` in `RepeatsHaveCauses`: epochs are numbered by the tempo of the day, so after a change
  and a restart two different epochs may share a number (tempo 2, then 6, and `MaxFaults = 2`: TLC finds it).
- `EpochsOutlastFaults` in `WeightsStayFresh`: each fault may cost a cycle, so two epochs suffice only if
  `CycleBlocks * (MaxFaults + 1) <= InitTempo + 1` and a cooldown and a cycle fit in an epoch. In the deployment
  these are cycles of 30 blocks and what they take, a limit of 100 and a tempo of 360. With
  `MaxFaults = 3` in `submission_crash.cfg` (and `MaxBlock = 25`) TLC finds a vector 13 blocks old at tempo 6.
- `CardsArePositive`: nothing in config.py refuses an override that is zero or negative.

### The arguments

- *Once per epoch.* `OncePerEpoch` says nothing of what the process remembers and is not
  inductive. `LedgerInv` adds that each landed epoch is remembered, or is the last one and
  the process is about to be told (`pc = "included"`), that landed epochs ascend, and that a
  cycle past the early return holds a later epoch than the remembered one. This gives the
  refinement: the only visible step is `Include`, which appends a later epoch.
  `EpochIsTheChains` adds that, tempo constant and reads answered, the epoch a cycle computes
  is the chain's at the height it decided, which turns distinct epochs into distinct
  chain epochs.
- *Repeats.* `RepeatInv` counts: repeated vectors and those *owed* are at most the faults so far. One is owed
  for a landed epoch the process has forgotten, one for a cycle that misread the height. A fault raises
  the sum by at most one, and a repeated inclusion uses up what was owed.
- *Fresh weights.* `FreshInv`: what is remembered lies before the last vector (`RemembersThePast`), and the last
  cycle ended at most an epoch, and one cycle per fault, after it (`LateForFaults`). A cycle that ends
  without a fault and without landing ends within an epoch of the last vector: its epoch was not open
  (`SkippedEpochIsRecent`), the cooldown was not over (`CooldownEndsEarly`), or the chain refused it for that reason.
- *Adopted whole.* `AdoptedInv`: `store` is in the history `everPut`, and each reader's triple has
  the shape of a triple and is that of one object of the history. A reader step has three
  outcomes (`ReaderOutcomes`): unchanged, the same triple with source "cache", or the store's.
- *Envelope.* `NumericInv`: every object ever stored, and the one the script holds, has integer
  prices. `BandLands` then says that a clamped integer lies in its band, and the triple is that of
  one object by the previous theorem.
- *Flips and the stamp.* `FlipInv`: the store parses and carries the intended switches, and so does the
  publisher between GET and PUT, when the script is idle. `EpochInv`: the stored height is not ahead of the
  chain's, and the object the script holds has the stored height.
- *Payouts.* `FeedInv`: a validator's cache is empty or a quote it fetched, the last one while the disk has kept
  that (`CacheInv`), `payout.json` has only quotes and card prices (`StoreInv`), and the prices of either half
  of a cycle are what its tier supplies by the history until then (`Supplies`, `HalfInv`). What makes markup stay out is that `per` and `paid` are told apart
  everywhere between resolving and publishing. `BestRates` rests on `LargestOfFinite`.
- *Compensation.* `QuoteInv`: memory, disk and store hold quotes, stamped with a cycle not in the future. The two
  TAO/USD prices of a cycle are in order because the first is what is remembered until the second is read (`CycleInv`);
  `FreshInv` adds, of a cycle whose sources answered all along, that it needs no fallback. `LackInv` says why one is
  in its fallback: no source of TAO/USD answered all along and nothing is in memory, or nobody had a rate all along.
  A failed GET is told from an empty `payout.json` by the fault it counts (`CountInv`).
- *The fleet.* `WorldInv`: heartbeats are not in the future and a node that is heard has just been. `ViewInv`:
  each row of a view was true of its object at some moment since the cycle began, and, of an
  object nothing happened to, still is but for the age of its heartbeat. So a verdict
  about a stale view can be carried over to the fleet as it is at `Score`: `TheDarkEarnNothing` bounds
  the age of the evidence, `TheUnfitEarnNothing` and `TheHealthyArePaid` compare with the present labels and conditions.
  `TheHealthyArePaid` further needs that the sums by class that `_miner_gpu_breakdown` makes, weighted with the
  card, are the sum over nodes (`TotalByClass`). `ResultInv` is `SplitIsFair` itself: each of the three
  normalisations of `compute_weights` adds up (`IdleSplit`, `EarnedSplit`).
- *Sums* are folds over finite sets. `SubsetInduction` (well-founded induction on the subsets of a finite set,
  stated of a set of subsets instead of a predicate) gives `FoldExists`, and from it every law of `Total` used:
  adding and removing an element, scaling, disjoint unions, monotonicity.
- *The cycle.* `CountedInv` says phase by phase what the cycle has been counted as; a cycle ends by a `Skip`
  while the count is empty, or after `Record`. `SightInv` relates the locals of a cycle to what was the
  case during it: what it read was so at some moment of it, and what was so throughout, it has read.
  `PaysWhoEarned` is not inductive without it: the step that submits knows only the locals.
- *Access.* A thread that outlives its reader's patience must not answer a later read of the same reader.
  `AttachedInv`: a reader waits for the one thread attached to it, so an idle reader that starts again
  has none; `EntitledInv`: an attached thread past the metagraph belongs to a reader that had its permit
  during the read it waits in.
- *Regular reads.* Each step maps to one of `EvidenceRead` or to a stutter. `ListInv` says of each reader and
  of each thread attached to it that the ids it holds lie before its marker, were there at some moment of the
  read, and include all that were there throughout and lie before the marker; an answer is complete when no marker is left.
  A page is the first ids after a marker, which takes an enumeration of a finite set by rank (`RankGrows`).

Only model-checked is liveness (`Converges`, `FollowsTheMarket`, `EventuallyServed`, `WeightsFollow`):
reasoning with fairness and ENABLED is beyond the prover. Every invariant, action property and refinement
that a passing run checks has a theorem.

## Not modelled

- `--once` and dry runs, which leave out steps and add none.
- SigV4, signed headers, URL and weight encodings, the proxy's allowlist: pure functions of their input.
- Configuration parsing, the rendering of the dashboard, smoke scripts: no state a cycle reads. The
  gauges other than those of the uids: each is set from one value of the cycle.
- The bittensor client and its reconnect. A second publisher: the deployment guide has one.
- Rancher beyond what is assumed of it: markers advance in the order of the ids. `EvidenceRead` rests on that.

## Plan

Done: `WeightSubmission`, `CardExchange`, `PayoutFeed`, `Fleet`, `PriceFeed`, `RancherAccess` and
`ValidatorCycle`, in this order of importance, and a theorem for every invariant, action property and
refinement that a run checks.

1. Weaker hypotheses: `FlipsPreserved` and `EpochsAdvance` with hand edits that parse and keep the stamp;
   `WeightsStayFresh` with the faults counted since the last vector instead of from the start.
2. Across modules: that the cycle of `ValidatorCycle` is an abstraction of the phases of the others.
3. Two publishers, and overrides that do not parse, as values of the constants of `CardExchange`.

## Running

    tlc -workers 2 -config card_adopted.cfg MCCardExchange
    tlc -workers 2 -config submission_ledger.cfg WeightSubmission
    tlc -workers 2 -config cycle_outcomes.cfg MCValidatorCycle
    tlapm WeightSubmission_proofs.tla
    tlapm Fleet_proofs.tla
