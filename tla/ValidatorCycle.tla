---------------------------- MODULE ValidatorCycle ----------------------------
(***************************************************************************)
(* run_cycle from end to end, of a publisher or a reader: the phases in    *)
(* their order, every return and exception that ends a cycle early, the    *)
(* submission, what the cycle is counted as, what its gauges show and the  *)
(* dashboard the publisher leaves in the store.  What a phase computes is  *)
(* in the module of its component; here a card is there or not, a price is *)
(* known or not, a miner has ready GPUs or not.                            *)
(*                                                                         *)
(* Meanwhile uids are registered, taken over and trimmed, and miners       *)
(* become ready and cease to be.  The chain's epochs and its cooldown are  *)
(* two flags; WeightSubmission has their arithmetic.  The chain is         *)
(* external: it takes a vector unless it cools down or a uid of the vector *)
(* is gone.  Bounds: MaxChanges changes, MaxFaults faults.  A dry run,     *)
(* which submits nothing, and the other gauges are left out.               *)
(***************************************************************************)
EXTENDS Integers, Sequences, FiniteSets

CONSTANTS
    Uids, Hotkeys,
    Graphs,         \* what the metagraph may be at the start: uids to hotkeys
    Publishers,     \* what is_publisher may be in a run
    Faults,         \* of FaultKinds, those a run allows
    MaxFaults, MaxChanges

FaultKinds == {"metagraph", "rancher", "stall", "card", "price", "reject",
               "lostAck", "put", "restart"}
Skips      == {"rancher", "price_feed", "scoring", "set_weights", "unexpected"}
Nobody     == "nobody"      \* a weight of zero

ASSUME CycleAssumption ==
    /\ Nobody \notin Hotkeys /\ IsFiniteSet(Uids)
    /\ Graphs \subseteq UNION {[us -> Hotkeys] : us \in SUBSET Uids}
    /\ Publishers \subseteq BOOLEAN
    /\ Faults \subseteq FaultKinds
    /\ MaxFaults \in Nat /\ MaxChanges \in Nat

VARIABLES
    graph,      \* chain: the hotkey of each registered uid
    weights,    \* chain: for whom each uid's weight was meant
    cooling,    \* chain: the rate limit after the last vector is not over
    ready,      \* the hotkeys whose clusters would be credited
    publisher,  \* is the process a publisher
    attempted,  \* _last_submitted_epoch is the current epoch
    waits,      \* less than the rate limit has passed since _last_set_block
    holdsCard,  \* _last_card is not None
    pc,         \* the phase of run_cycle
    view,       \* its locals: miners, and which of them are ready
    outcomes,   \* what the cycle was counted as, in order
    shown,      \* the uid weight gauges
    pages,      \* dashboard.json and index.html: the miners they list
    seen,       \* history: what was the case during the cycle, see SeenNow
    origin,     \* history: seen, of the cycle shown is from
    faults, changes

world  == <<graph, cooling, ready>>
memory == <<attempted, waits, holdsCard>>
bounds == <<faults, changes>>
vars   == <<world, weights, publisher, memory, pc, view, outcomes, shown, pages,
            seen, origin, bounds>>

Unpaid == [u \in Uids |-> Nobody]
NoView == [miners |-> <<>>, ready |-> {}]

Fault(kind) ==
    /\ kind \in Faults
    /\ faults < MaxFaults /\ faults' = faults + 1
    /\ UNCHANGED changes

Pairs(g) == {<<u, g[u]>> : u \in DOMAIN g}

Deserving(g, rs) == {p \in Pairs(g) : p[2] \in rs}

\* History of a cycle: who was registered where and who was ready at some moment
\* of it, and who deserved a weight all the time.
SeenNow == [at |-> Pairs(graph), ready |-> ready, always |-> Deserving(graph, ready)]
NotSeen == [at |-> {}, ready |-> {}, always |-> {}]

InCycle == pc \notin {"start", "idle"}

Init ==
    /\ graph \in Graphs
    /\ ready \in SUBSET Hotkeys
    /\ weights = Unpaid /\ cooling = FALSE
    /\ publisher \in Publishers
    /\ attempted = FALSE /\ waits = FALSE /\ holdsCard = FALSE
    /\ pc = "start" /\ view = NoView /\ outcomes = <<>>
    /\ shown = Unpaid /\ pages = [json |-> Unpaid, html |-> Unpaid]
    /\ seen = NotSeen /\ origin = NotSeen
    /\ faults = 0 /\ changes = 0

-----------------------------------------------------------------------------
(* The chain and the fleet *)

Observed ==
    seen' = IF InCycle
            THEN [at     |-> seen.at \cup Pairs(graph'),
                  ready  |-> seen.ready \cup ready',
                  always |-> seen.always \cap Deserving(graph', ready')]
            ELSE seen

Changes ==
    /\ changes < MaxChanges /\ changes' = changes + 1
    /\ Observed
    /\ UNCHANGED <<cooling, publisher, memory, pc, view, outcomes, shown, pages,
                   origin, faults>>

\* A hotkey registers: a new uid, or one it takes over; weights name uids.
Register(u) ==
    /\ \E h \in Hotkeys \ {graph[v] : v \in DOMAIN graph} :
            graph' = [v \in DOMAIN graph \cup {u} |-> IF v = u THEN h ELSE graph[v]]
    /\ UNCHANGED <<ready, weights>>
    /\ Changes

\* The subnet is trimmed; the weights of the uid go with it.
Trim(u) ==
    /\ u \in DOMAIN graph /\ DOMAIN graph # {u}
    /\ graph' = [v \in DOMAIN graph \ {u} |-> graph[v]]
    /\ weights' = [weights EXCEPT ![u] = Nobody]
    /\ UNCHANGED ready
    /\ Changes

ReadinessChanges(h) ==
    /\ ready' = IF h \in ready THEN ready \ {h} ELSE ready \cup {h}
    /\ UNCHANGED <<graph, weights>>
    /\ Changes

NewEpoch ==
    /\ attempted /\ attempted' = FALSE
    /\ UNCHANGED <<world, weights, publisher, waits, holdsCard, pc, view, outcomes,
                   shown, pages, seen, origin, bounds>>

CooldownOver ==
    /\ cooling \/ waits
    /\ cooling' = FALSE /\ waits' = FALSE
    /\ UNCHANGED <<graph, ready, weights, publisher, attempted, holdsCard, pc, view,
                   outcomes, shown, pages, seen, origin, bounds>>

-----------------------------------------------------------------------------
(* The cycle *)

\* What the cycle's phases leave alone, but for what they name.
Phase(next) ==
    /\ pc' = next
    /\ UNCHANGED <<world, publisher, seen>>

Quiet == UNCHANGED <<weights, memory, shown, pages, origin>>

\* Mutant: a return without record_skip.
Uncounted(reason) ==
    /\ Phase("idle") /\ view' = NoView
    /\ UNCHANGED outcomes

\* run_cycle returns after record_skip, or raises and run_forever records it.
Skip(reason) ==
    /\ Phase("idle") /\ view' = NoView
    /\ outcomes' = Append(outcomes, reason)

\* run_forever: a publisher puts the startup banner, without miners.
Banner ==
    /\ pc = "start" /\ Phase("idle")
    /\ \/ UNCHANGED bounds
          /\ pages' = IF publisher THEN [json |-> Unpaid, html |-> Unpaid] ELSE pages
       \/ Fault("put") /\ UNCHANGED pages
       \/ Fault("put") /\ pages' = [pages EXCEPT !.json = Unpaid]
    /\ UNCHANGED <<weights, memory, view, outcomes, shown, origin>>

ReadMetagraph ==
    /\ pc = "idle"
    /\ seen' = SeenNow
    /\ \/ /\ pc' = "evidence" /\ outcomes' = <<>>
          /\ \/ view' = [NoView EXCEPT !.miners = graph] /\ UNCHANGED bounds
             \/ view' = NoView /\ Fault("metagraph")     \* it names no neurons
       \/ /\ Fault("metagraph")                          \* it cannot be read
          /\ pc' = "idle" /\ view' = NoView /\ outcomes' = <<"unexpected">>
    /\ UNCHANGED <<world, publisher>> /\ Quiet

\* Mutant: an outage of Rancher is met with what the last cycle knew.
LastKnownEvidence ==
    /\ pc = "evidence"
    /\ \/ /\ view' = [view EXCEPT !.ready = ready]
          /\ Phase("card") /\ UNCHANGED <<outcomes, bounds>>
       \/ /\ view' = [view EXCEPT !.ready = {shown[u] : u \in Uids} \ {Nobody}]
          /\ Fault("rancher") /\ Phase("card") /\ UNCHANGED outcomes
       \/ Fault("stall") /\ Skip("unexpected")
    /\ Quiet

\* Clusters and nodes: a RancherEvidenceError is caught, a TimeoutError is not.
ReadEvidence ==
    /\ pc = "evidence"
    /\ \/ /\ view' = [view EXCEPT !.ready = ready]
          /\ Phase("card") /\ UNCHANGED <<outcomes, bounds>>
       \/ Fault("rancher") /\ Skip("rancher")
       \/ Fault("stall") /\ Skip("unexpected")
    /\ Quiet

\* Mutant: a reader that never held a published card goes on with the default.
StartOffDefault ==
    /\ pc = "card"
    /\ \/ /\ UNCHANGED bounds \/ (~publisher /\ holdsCard /\ Fault("card"))
          /\ holdsCard' = TRUE /\ Phase("price") /\ UNCHANGED <<view, outcomes>>
       \/ /\ ~publisher /\ ~holdsCard /\ Fault("card")
          /\ Phase("price") /\ UNCHANGED <<holdsCard, view, outcomes>>
       \/ /\ publisher /\ Fault("card") /\ Skip("unexpected") /\ UNCHANGED holdsCard
    /\ UNCHANGED <<weights, attempted, waits, shown, pages, origin>>

\* A publisher has its card, unless its PUT breaks off, which raises; a reader that
\* cannot read the published one keeps the card of its last cycle, or raises when
\* there is none.
ResolveCard ==
    /\ pc = "card"
    /\ \/ /\ UNCHANGED bounds \/ (~publisher /\ holdsCard /\ Fault("card"))
          /\ holdsCard' = TRUE /\ Phase("price") /\ UNCHANGED <<view, outcomes>>
       \/ /\ publisher \/ ~holdsCard
          /\ Fault("card") /\ Skip("unexpected") /\ UNCHANGED holdsCard
    /\ UNCHANGED <<weights, attempted, waits, shown, pages, origin>>

\* No price from any source, or a call of a source or of the store that breaks off.
FindPrice ==
    /\ pc = "price"
    /\ \/ UNCHANGED bounds /\ Phase("score") /\ UNCHANGED <<view, outcomes>>
       \/ Fault("price") /\ \E reason \in {"price_feed", "unexpected"} : Skip(reason)
    /\ Quiet

\* No miners, no vector; otherwise every uid of the metagraph has its weight.
Score ==
    /\ pc = "score"
    /\ IF DOMAIN view.miners = {} THEN Skip("scoring")
       ELSE Phase("submit") /\ UNCHANGED <<view, outcomes>>
    /\ UNCHANGED bounds /\ Quiet

Vector ==
    [u \in Uids |-> IF u \in DOMAIN view.miners /\ view.miners[u] \in view.ready
                    THEN view.miners[u] ELSE Nobody]

ChainTakes == ~cooling /\ DOMAIN view.miners \subseteq DOMAIN graph

\* Mutant: when nobody is ready there is nothing to submit.
NobodyToPay == attempted \/ waits \/ Vector = Unpaid

\* Already attempted in this epoch, or the cooldown is not over.
NotNow == attempted \/ waits

\* The cycle goes on without a submission.
SubmitNothing ==
    /\ pc = "submit" /\ NotNow
    /\ Phase("record")
    /\ UNCHANGED <<view, outcomes, bounds>> /\ Quiet

Submits == pc = "submit" /\ ~NotNow

Accepted ==
    /\ Submits /\ ChainTakes
    /\ weights' = Vector /\ cooling' = TRUE
    /\ attempted' = TRUE /\ waits' = TRUE
    /\ pc' = "record"
    /\ UNCHANGED <<graph, ready, publisher, holdsCard, view, outcomes, shown, pages,
                   seen, origin, bounds>>

\* set_weights raises; it is counted as a skip, and the cycle goes on.
Rejected ==
    /\ Submits
    /\ (~ChainTakes /\ UNCHANGED bounds) \/ Fault("reject")
    /\ outcomes' = Append(outcomes, "set_weights")
    /\ Phase("record")
    /\ UNCHANGED view /\ Quiet

\* The same, but the chain holds the vector.
AnswerLost ==
    /\ Submits /\ ChainTakes /\ Fault("lostAck")
    /\ weights' = Vector /\ cooling' = TRUE
    /\ outcomes' = Append(outcomes, "set_weights")
    /\ pc' = "record"
    /\ UNCHANGED <<graph, ready, publisher, memory, view, shown, pages, seen, origin>>

\* Mutant: the gauges of uids that are no longer in the vector keep their value.
RecordWithoutReset ==
    /\ pc = "record"
    /\ outcomes' = Append(outcomes, "ok")
    /\ shown' = [u \in Uids |-> IF u \in DOMAIN view.miners THEN Vector[u] ELSE shown[u]]
    /\ origin' = seen
    /\ IF publisher THEN Phase("json") /\ UNCHANGED view
                    ELSE Phase("idle") /\ view' = NoView
    /\ UNCHANGED <<weights, memory, pages, bounds>>

\* record_cycle: whether or not a vector was submitted.
Record ==
    /\ pc = "record"
    /\ outcomes' = Append(outcomes, "ok")
    /\ shown' = Vector /\ origin' = seen
    /\ IF publisher THEN Phase("json") /\ UNCHANGED view
                    ELSE Phase("idle") /\ view' = NoView
    /\ UNCHANGED <<weights, memory, pages, bounds>>

\* publish_dashboard: two PUTs; a failed one is caught and ends it.
PutJson ==
    /\ pc = "json"
    /\ \/ /\ pages' = [pages EXCEPT !.json = Vector]
          /\ Phase("html") /\ UNCHANGED <<view, bounds>>
       \/ /\ Fault("put") /\ UNCHANGED pages
          /\ Phase("idle") /\ view' = NoView
    /\ UNCHANGED <<weights, memory, outcomes, shown, origin>>

PutHtml ==
    /\ pc = "html"
    /\ \/ pages' = [pages EXCEPT !.html = Vector] /\ UNCHANGED bounds
       \/ Fault("put") /\ UNCHANGED pages
    /\ Phase("idle") /\ view' = NoView
    /\ UNCHANGED <<weights, memory, outcomes, shown, origin>>

\* The container restarts: memory and metrics are gone, the store stays.
Restart ==
    /\ Fault("restart")
    /\ attempted' = FALSE /\ waits' = FALSE /\ holdsCard' = FALSE
    /\ pc' = "start" /\ view' = NoView /\ outcomes' = <<>>
    /\ shown' = Unpaid /\ seen' = NotSeen /\ origin' = NotSeen
    /\ UNCHANGED <<world, weights, publisher, pages>>

Cycle ==
    \/ Banner \/ ReadMetagraph \/ ReadEvidence \/ ResolveCard \/ FindPrice \/ Score
    \/ SubmitNothing \/ Accepted \/ Rejected \/ AnswerLost
    \/ Record \/ PutJson \/ PutHtml

World ==
    \/ \E u \in Uids : Register(u) \/ Trim(u)
    \/ \E h \in Hotkeys : ReadinessChanges(h)

Next == Cycle \/ World \/ NewEpoch \/ CooldownOver \/ Restart

Spec == Init /\ [][Next]_vars

\* run_forever runs cycle after cycle; blocks, and with them epochs, go on.
FairSpec == Spec /\ WF_vars(Cycle) /\ WF_vars(NewEpoch) /\ WF_vars(CooldownOver)

-----------------------------------------------------------------------------
(* Properties *)

\* Every variable has its type; a reader never passes the card phase, and no
\* process scores, without a card.
TypeOK ==
    /\ DOMAIN graph \subseteq Uids /\ ready \subseteq Hotkeys
    /\ \A v \in {weights, shown, pages.json, pages.html} :
            v \in [Uids -> Hotkeys \cup {Nobody}]
    /\ {cooling, attempted, waits, holdsCard, publisher} \subseteq BOOLEAN
    /\ pc \in {"start", "idle", "evidence", "card", "price", "score", "submit",
              "record", "json", "html"}
    /\ pc \in {"price", "score", "submit", "record", "json", "html"} => holdsCard
    /\ outcomes \in Seq(Skips \cup {"ok"})
    /\ pages # [json |-> Unpaid, html |-> Unpaid] => publisher

\* "skip the whole cycle rather than blaming miners": a vector that reaches the
\* chain pays only hotkeys that were registered under their uid and ready at a
\* moment of the very cycle that submitted it, and pays all that were so for the
\* whole of it.  Evidence of an earlier cycle is never used, whichever phases
\* failed in between and however often the submission was put off.
PaysWhoEarned ==
    [][pc = "submit" /\ pc' = "record" /\ weights' # weights =>
        /\ \A u \in Uids : weights'[u] # Nobody =>
                <<u, weights'[u]>> \in seen.at /\ weights'[u] \in seen.ready
        /\ \A p \in seen'.always : weights'[p[1]] = p[2]]_vars

\* Cycles are counted by their outcome: one that ends was counted exactly once,
\* as ok or as a skip, but for one whose submission was rejected, which is both.
EveryCycleCounted ==
    [][InCycle /\ pc' = "idle" =>
        \/ outcomes' = <<"ok">>
        \/ \E s \in Skips \ {"set_weights"} : outcomes' = <<s>>
        \/ outcomes' = <<"set_weights", "ok">>]_vars

\* The gauges are those of one cycle: no uid shows a weight that the cycle they
\* are from did not give it, above all none that had left the metagraph by then.
GaugesOfOneCycle ==
    \A u \in Uids : shown[u] # Nobody =>
        <<u, shown[u]>> \in origin.at /\ shown[u] \in origin.ready

Due == [u \in Uids |-> IF u \in DOMAIN graph /\ graph[u] \in ready
                        THEN graph[u] ELSE Nobody]

\* When uids, readiness and services have settled, so do the weights on chain,
\* the gauges and both pages of the publisher, and on what is the case: no skip,
\* rejection, lost answer or restart leaves a vector meant for someone else, or
\* for the former owner of a uid, in place for good.
WeightsFollow ==
    <>[](/\ weights = Due /\ shown = Due
         /\ publisher => pages = [json |-> Due, html |-> Due])
=============================================================================
