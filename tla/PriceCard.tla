------------------------------ MODULE PriceCard ------------------------------
(***************************************************************************)
(* The GPU price card (price_card.py) and the price a validator pays per   *)
(* GPU class under it (targon_payout_feed.py, market_pricing.py).          *)
(*                                                                         *)
(* Prices are integers in a unit fine enough for the percentages below to  *)
(* be exact on the prices used.  A partial map (a JSON object, a feed) is  *)
(* a function on a subset of the classes; in a published object a price    *)
(* that is not positive stands for every value the parser refuses.         *)
(***************************************************************************)
EXTENDS Integers, FiniteSets

CONSTANTS
    Classes,        \* the GPU classes of DEFAULT_USD_CARD
    DefaultCard     \* DEFAULT_USD_CARD: the compiled-in price of each class

ASSUME CardAssumption ==
    /\ Classes # {}
    /\ DefaultCard \in [Classes -> Nat \ {0}]

Switches       == {"targon", "lium"}
DefaultPricing == [s \in Switches |-> s = "targon"]
NoPrices       == [k \in {} |-> 0]

Lesser(a, b)  == IF a <= b THEN a ELSE b
Greater(a, b) == IF a >= b THEN a ELSE b
Percent(p, x) == (p * x) \div 100

-----------------------------------------------------------------------------
(* The published object *)

\* A price or a floor is trusted inside a band around the compiled-in price.
Band(minPercent, maxPercent, k, x) ==
    Lesser(Percent(maxPercent, DefaultCard[k]),
           Greater(Percent(minPercent, DefaultCard[k]), x))

\* parse_price_card: one refused class or price refuses the whole card.
Parses(obj) ==
    /\ obj.version = 1
    /\ DOMAIN obj.prices # {}
    /\ DOMAIN obj.prices \subseteq Classes
    /\ \A k \in DOMAIN obj.prices : obj.prices[k] > 0

\* A bad floor is dropped by itself; no floor left is the same as none given.
FloorsFromPayload(obj) ==
    [k \in {c \in DOMAIN obj.floors \cap Classes : obj.floors[c] > 0} |->
        Band(50, 125, k, obj.floors[k])]

\* Mutant: a switch the object omits stays unset.
SwitchesAsGiven(obj) == obj.pricing

\* _pricing_from_payload: a switch that is omitted or no boolean has its default.
PricingFromPayload(obj) ==
    [s \in Switches |-> IF s \in DOMAIN obj.pricing /\ obj.pricing[s] \in BOOLEAN
                        THEN obj.pricing[s] ELSE DefaultPricing[s]]

\* Mutant: the envelope has no lower edge.
CapOnly(prices) ==
    [k \in Classes |->
        Lesser(Percent(125, DefaultCard[k]),
               IF k \in DOMAIN prices THEN prices[k] ELSE DefaultCard[k])]

ClampToEnvelope(prices) ==
    [k \in Classes |->
        Band(80, 125, k, IF k \in DOMAIN prices THEN prices[k] ELSE DefaultCard[k])]

BuildPriceCard(epoch, card, floors, pricing) ==
    [version |-> 1, epoch |-> epoch, prices |-> card, floors |-> floors,
     pricing |-> pricing]

\* The triple a validator works with; `card` is empty while it holds none.
NoCard == [card |-> NoPrices, floors |-> NoPrices, pricing |-> DefaultPricing,
           source |-> "none"]

HoldsCard(last) == DOMAIN last.card # {}

\* Mutant: a card once held is never given up for the published one.
KeepHeldCard(obj, last) ==
    IF HoldsCard(last) THEN [last EXCEPT !.source = "cache"]
    ELSE IF Parses(obj)
    THEN [card |-> ClampToEnvelope(obj.prices), floors |-> FloorsFromPayload(obj),
          pricing |-> PricingFromPayload(obj), source |-> "published"]
    ELSE [card |-> DefaultCard, floors |-> NoPrices, pricing |-> DefaultPricing,
          source |-> "default"]

\* resolve_card: the published object, else the triple of the previous cycle,
\* else the compiled-in card.
ResolveCard(obj, last) ==
    IF Parses(obj)
    THEN [card |-> ClampToEnvelope(obj.prices), floors |-> FloorsFromPayload(obj),
          pricing |-> PricingFromPayload(obj), source |-> "published"]
    ELSE IF HoldsCard(last)
    THEN [last EXCEPT !.source = "cache"]
    ELSE [card |-> DefaultCard, floors |-> NoPrices, pricing |-> DefaultPricing,
          source |-> "default"]

\* Mutant: a validator starts off the compiled-in card.
AlwaysAvailable(resolved, last) == FALSE

\* require_card: a validator that never held a card must not start off the
\* compiled-in one.
CardUnavailable(resolved, last) ==
    resolved.source = "default" /\ ~HoldsCard(last)

-----------------------------------------------------------------------------
(* The price paid *)

\* _publisher_floors: the owner's positive floors, else 75% of the card.
PublisherFloors(card, override) ==
    [k \in DOMAIN card |->
        IF k \in DOMAIN override /\ override[k] > 0 THEN override[k]
        ELSE Percent(75, card[k])]

FloorFor(floors, k, price) ==
    IF k \in DOMAIN floors THEN Lesser(floors[k], price) ELSE Percent(75, price)

\* market_price: 110% of the best quote, or none when no feed quotes the class.
Quotes(k, lium, targon) ==
    {feed[k] : feed \in {f \in {lium, targon} : k \in DOMAIN f}}

MarketPrice(quotes) ==
    Percent(110, CHOOSE q \in quotes : \A r \in quotes : r <= q)

\* Mutant: only the classes the feed quotes are priced.
QuotedClassesOnly(own, floors, targon, lium) ==
    [k \in DOMAIN targon \cap DOMAIN own |->
        Greater(FloorFor(floors, k, own[k]), MarketPrice(Quotes(k, lium, targon)))]

MarketEffectiveCard(own, floors, targon, lium) ==
    [k \in DOMAIN own |->
        LET floor  == FloorFor(floors, k, own[k])
            quotes == Quotes(k, lium, targon)
        IN  IF quotes = {} THEN floor ELSE Greater(floor, MarketPrice(quotes))]

\* Mutant: the clamp forgets the cap.
UncappedCard(own, floors, targon) ==
    [k \in DOMAIN own |->
        Greater(FloorFor(floors, k, own[k]),
                IF k \in DOMAIN targon THEN targon[k] ELSE own[k])]

ClampedCard(own, floors, targon) ==
    [k \in DOMAIN own |->
        Lesser(own[k], Greater(FloorFor(floors, k, own[k]),
                               IF k \in DOMAIN targon THEN targon[k] ELSE own[k]))]

\* TargonPayoutFeed.effective_card: `own` is the compiled-in card with this
\* validator's own override, the switches and floors are the published card's.
EffectiveCard(own, floors, pricing, targon, lium) ==
    IF pricing["lium"] THEN MarketEffectiveCard(own, floors, targon, lium)
    ELSE IF pricing["targon"] THEN ClampedCard(own, floors, targon)
    ELSE own
=============================================================================
