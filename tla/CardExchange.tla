---------------------------- MODULE CardExchange ----------------------------
(***************************************************************************)
(* price-card.json in the object store and everyone who touches it: the    *)
(* owner's validator re-publishes it every cycle, the owner's script       *)
(* set_pricing_flags.py flips its switches, the owner may edit it by hand, *)
(* and every reader adopts it at the start of a cycle.                     *)
(*                                                                         *)
(* The store offers GET and PUT, no compare-and-swap: publisher and script *)
(* both read, think and write the whole object.  A validator remembers the *)
(* card it adopted in memory only.  What may go wrong is the set Faults,   *)
(* at most MaxFaults times; the owner acts at most MaxFlips times; the     *)
(* chain's height, stamped on a published card, is bounded by MaxEpoch.    *)
(* Exclusive says that the owner acts only between two publishes; nothing  *)
(* in the code makes it so.                                                *)
(***************************************************************************)
EXTENDS PriceCard, Sequences

CONSTANTS
    Readers,        \* the validators without the object store's secret
    Own,            \* TargonPayoutFeed._card: compiled-in card and override
    FloorOverride,  \* the publisher's KUBETEE_GPU_USD_FLOOR_PRICES
    Exclusive,
    HandEdits,      \* objects the owner may write to the store by hand
    Faults,         \* of FaultKinds, those a run allows
    MaxFaults, MaxFlips, MaxEpoch

Publisher  == "publisher"
Validators == Readers \cup {Publisher}
FaultKinds == {"readerGet", "publisherGet", "blockRead", "put", "restart"}

\* Every object has these parts; an empty one stands for one that is left out.
Parts == {"version", "epoch", "prices", "floors", "pricing"}

Numeric(obj) ==
    /\ \A k \in DOMAIN obj.prices : obj.prices[k] \in Int
    /\ \A k \in DOMAIN obj.floors : obj.floors[k] \in Int

ASSUME ExchangeAssumption ==
    /\ Publisher \notin Readers
    /\ Exclusive \in BOOLEAN
    /\ \A v \in Validators : Classes \subseteq DOMAIN Own[v]
    /\ \A v \in Validators : \A k \in DOMAIN Own[v] : Own[v][k] \in Int
    /\ \A k \in DOMAIN FloorOverride : FloorOverride[k] \in Int
    /\ \A obj \in HandEdits : DOMAIN obj = Parts /\ Numeric(obj)
    /\ Faults \subseteq FaultKinds
    /\ MaxFaults \in Nat /\ MaxFlips \in Nat /\ MaxEpoch \in Nat

VARIABLES
    store,      \* price-card.json
    epoch,      \* the chain's height as the publisher would stamp it
    last,       \* per validator: _last_card, _last_floors, _last_pricing
    pub,        \* the publisher between its GET and its PUT
    script,     \* set_pricing_flags.py between its GET and its PUT
    intended,   \* the switches of the owner's last act that reached the store
    everPut,    \* every object the store ever held
    faults, flips

vars == <<store, epoch, last, pub, script, intended, everPut, faults, flips>>

\* What a failed GET leaves a caller with: nothing that parses.
Unreadable == [version |-> 0, epoch |-> 0, prices |-> NoPrices,
               floors |-> NoPrices, pricing |-> NoPrices]

Idle == [pc |-> "idle"]

OwnFloors == PublisherFloors(Own[Publisher], FloorOverride)

PublishedCard(height, pricing) ==
    BuildPriceCard(height, Own[Publisher], OwnFloors, pricing)

Fault(kind) ==
    /\ kind \in Faults
    /\ faults < MaxFaults
    /\ faults' = faults + 1

NoFault == UNCHANGED faults

Init ==
    /\ store = PublishedCard(0, DefaultPricing)
    /\ epoch = 0
    /\ last = [v \in Validators |-> NoCard]
    /\ pub = Idle /\ script = Idle
    /\ intended = DefaultPricing
    /\ everPut = {store}
    /\ faults = 0 /\ flips = 0

Put(obj) ==
    /\ store' = obj
    /\ everPut' = everPut \cup {obj}

\* A GET of the store: the object, or nothing when the call fails.
Get(obj, kind) ==
    \/ obj = store /\ NoFault
    \/ obj = Unreadable /\ Fault(kind)

NextBlock ==
    /\ epoch < MaxEpoch
    /\ epoch' = epoch + 1
    /\ UNCHANGED <<store, last, pub, script, intended, everPut, faults, flips>>

-----------------------------------------------------------------------------
(* The publisher: Validator._resolve_card when it holds the store's secret *)

\* Mutant: the published switches are not carried over.
PublisherGetDefaults ==
    /\ pub.pc = "idle"
    /\ Exclusive => script = Idle
    /\ pub' = [pc |-> "put", pricing |-> DefaultPricing]
    /\ UNCHANGED <<store, epoch, last, script, intended, everPut, faults, flips>>

\* _publisher_pricing: keep the switches of the published object, or fall back
\* to the defaults when it cannot be read or does not parse.
PublisherGet ==
    /\ pub.pc = "idle"
    /\ Exclusive => script = Idle
    /\ \E obj \in {store, Unreadable} :
        /\ Get(obj, "publisherGet")
        /\ pub' = [pc |-> "put",
                   pricing |-> IF Parses(obj) THEN PricingFromPayload(obj)
                               ELSE DefaultPricing]
    /\ UNCHANGED <<store, epoch, last, script, intended, everPut, flips>>

\* The card is stamped with the chain's height, or 0 when it cannot be read; the
\* triple is adopted even if the PUT is refused (HippiusError).
PublisherPut ==
    /\ pub.pc = "put"
    /\ \/ Put(PublishedCard(epoch, pub.pricing)) /\ NoFault
       \/ Put(PublishedCard(0, pub.pricing)) /\ Fault("blockRead")
       \/ UNCHANGED <<store, everPut>> /\ Fault("put")
    /\ last' = [last EXCEPT ![Publisher] =
                    [card |-> Own[Publisher], floors |-> OwnFloors,
                     pricing |-> pub.pricing, source |-> "published"]]
    /\ pub' = Idle
    /\ UNCHANGED <<epoch, script, intended, flips>>

\* The answer to the PUT breaks off, a timeout or a reset that put_json lets through:
\* the object may be stored or not, and the cycle ends before the triple is adopted.
PublisherPutBreaks ==
    /\ pub.pc = "put"
    /\ Fault("put")
    /\ Put(PublishedCard(epoch, pub.pricing)) \/ UNCHANGED <<store, everPut>>
    /\ pub' = Idle
    /\ UNCHANGED <<epoch, last, script, intended, flips>>

-----------------------------------------------------------------------------
(* The owner: set_pricing_flags.py, or an editor *)

\* Mutant: the script builds a new object instead of changing the one it read.
ScriptRebuilds(desired) ==
    /\ flips < MaxFlips /\ flips' = flips + 1
    /\ script = Idle
    /\ Exclusive => pub = Idle
    /\ Parses(store)
    /\ PricingFromPayload(store) # desired
    /\ script' = [pc |-> "put",
                  obj |-> BuildPriceCard(0, store.prices, store.floors, desired)]
    /\ UNCHANGED <<store, epoch, last, pub, intended, everPut, faults>>

\* GET, parse, set the switches; nothing is written when they are set already.
ScriptGet(desired) ==
    /\ flips < MaxFlips /\ flips' = flips + 1
    /\ script = Idle
    /\ Exclusive => pub = Idle
    /\ Parses(store)
    /\ PricingFromPayload(store) # desired
    /\ script' = [pc |-> "put", obj |-> [store EXCEPT !.pricing = desired]]
    /\ UNCHANGED <<store, epoch, last, pub, intended, everPut, faults>>

ScriptPut ==
    /\ script.pc = "put"
    /\ \/ /\ Put(script.obj)
          /\ intended' = script.obj.pricing
          /\ NoFault
       \/ UNCHANGED <<store, everPut, intended>> /\ Fault("put")
    /\ script' = Idle
    /\ UNCHANGED <<epoch, last, pub, flips>>

\* An object written by hand replaces the published one.
HandEdit(obj) ==
    /\ flips < MaxFlips /\ flips' = flips + 1
    /\ Exclusive => pub = Idle
    /\ Put(obj)
    /\ intended' = IF Parses(obj) THEN PricingFromPayload(obj) ELSE intended
    /\ UNCHANGED <<epoch, last, pub, script, faults>>

-----------------------------------------------------------------------------
(* A reader *)

\* The start of run_cycle: adopt what resolve_card yields, or raise (the loop
\* of run_forever tries again) when that is the compiled-in card at startup.
ReaderCycle(r) ==
    /\ \E obj \in {store, Unreadable} :
        /\ Get(obj, "readerGet")
        /\ LET resolved == ResolveCard(obj, last[r])
           IN  last' = IF CardUnavailable(resolved, last[r]) THEN last
                       ELSE [last EXCEPT ![r] = resolved]
    /\ UNCHANGED <<store, epoch, pub, script, intended, everPut, flips>>

Restart(v) ==
    /\ Fault("restart")
    /\ last' = [last EXCEPT ![v] = NoCard]
    /\ pub' = IF v = Publisher THEN Idle ELSE pub
    /\ UNCHANGED <<store, epoch, script, intended, everPut, flips>>

Next ==
    \/ NextBlock
    \/ PublisherGet \/ PublisherPut \/ PublisherPutBreaks
    \/ \E desired \in [Switches -> BOOLEAN] : ScriptGet(desired)
    \/ ScriptPut
    \/ \E obj \in HandEdits : HandEdit(obj)
    \/ \E r \in Readers : ReaderCycle(r)
    \/ \E v \in Validators : Restart(v)

\* run_forever keeps starting cycles, for a reader and for the publisher, and a
\* script that has read goes on to write.  Nobody has to flip a switch; outages
\* end because Faults are bounded by MaxFaults.
Fairness ==
    /\ \A r \in Readers : WF_vars(ReaderCycle(r))
    /\ WF_vars(PublisherGet) /\ WF_vars(PublisherPut) /\ WF_vars(ScriptPut)

Spec == Init /\ [][Next]_vars

FairSpec == Spec /\ Fairness

-----------------------------------------------------------------------------
(* Properties *)

PricedClasses == UNION {DOMAIN Own[v] : v \in Validators}
Pricing       == [Switches -> BOOLEAN]

\* Every validator always works with all switches set (a card that omits one
\* means its default) and with prices it can look up; what is about to be
\* written names every switch too.
TypeOK ==
    /\ DOMAIN last = Validators
    /\ \A v \in Validators :
        /\ DOMAIN last[v].card \cup DOMAIN last[v].floors \subseteq PricedClasses
        /\ last[v].pricing \in Pricing
        /\ last[v].source \in {"none", "published", "cache"}
    /\ pub # Idle => pub.pc = "put" /\ pub.pricing \in Pricing
    /\ script # Idle => script.pc = "put" /\ script.obj.pricing \in Pricing
    /\ intended \in Pricing
    /\ store \in everPut
    /\ epoch \in 0..MaxEpoch /\ faults \in 0..MaxFaults /\ flips \in 0..MaxFlips

\* The switches of the store are those of the owner's last act: re-publishing
\* preserves them (set_pricing_flags.py: "so the flip survives").  Three
\* parties read, keep and write the same object for this to hold.
FlipSurvives == Parses(store) => PricingFromPayload(store) = intended

\* The script rewrites the switches and nothing else ("epoch/prices/floors
\* untouched"): the height stamped on the published card never goes back.
EpochNeverRollsBack == [][store'.epoch >= store.epoch]_vars

\* The card, floors and switches a reader works with were published together in
\* one object: never the compiled-in card taken for an adopted one, never the
\* floors of one object with the switches of another.
AdoptedWhole ==
    \A r \in Readers : HoldsCard(last[r]) =>
        \E obj \in everPut :
            /\ Parses(obj)
            /\ [last[r] EXCEPT !.source = "published"] = ResolveCard(obj, NoCard)

\* Whatever object reaches the store, a reader's card stays inside [80%, 125%]
\* of the compiled-in card and its floors inside [50%, 125%], through outages,
\* caching and restarts.
InEnvelope ==
    \A r \in Readers : HoldsCard(last[r]) =>
        /\ \A k \in Classes : last[r].card[k] \in
                Percent(80, DefaultCard[k])..Percent(125, DefaultCard[k])
        /\ \A k \in DOMAIN last[r].floors : last[r].floors[k] \in
                Percent(50, DefaultCard[k])..Percent(125, DefaultCard[k])

\* The published card is "the consensus parameter every validator prices with":
\* when no feed pulls the price, a reader pays the card it adopted.
PaysThePublishedCard ==
    \A r \in Readers : HoldsCard(last[r]) =>
        EffectiveCard(Own[r], last[r].floors, [s \in Switches |-> FALSE],
                      NoPrices, NoPrices) = last[r].card

\* Once outages and flips have passed, every reader works with exactly what is
\* published: no reader keeps an older card for ever.
Converges == <>[](\A r \in Readers : last[r] = ResolveCard(store, NoCard))
=============================================================================
