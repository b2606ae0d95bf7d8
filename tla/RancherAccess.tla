---------------------------- MODULE RancherAccess ----------------------------
(***************************************************************************)
(* How a validator obtains Rancher's lists.  The subnet owner follows the  *)
(* pages itself with its bearer token; every other validator sends one     *)
(* signed request to the proxy in the owner's process, where a thread per  *)
(* request checks the time stamp, reads the metagraph, follows the pages   *)
(* with the owner's token and answers with the whole list in one piece.    *)
(*                                                                         *)
(* A reader waits at most Timeout for the answer; the thread does not know *)
(* and goes on.  Objects come and go while pages are followed, permits     *)
(* while requests are checked.                                             *)
(*                                                                         *)
(* Rancher and the chain are external to the repository.  A marker stands  *)
(* for a position in the order of the ids: the next page holds what comes  *)
(* after it.  Signatures are those of honest readers and always verify.    *)
(* Ages are in units of the 30 seconds of the clients' timeout.  Bounds:   *)
(* Slots requests of one reader at a time, MaxChanges, MaxDelays,          *)
(* MaxFaults.                                                              *)
(***************************************************************************)
EXTENDS Integers, FiniteSets

CONSTANTS
    Ids,            \* ids of a collection, as numbers in their order
    Limit,          \* 1000 in the code: objects of a page
    Owner,          \* the owner's validator, the client with the token
    Readers,        \* the validators without one
    Slots,          \* request threads of one reader that may be alive at once
    Profiles,       \* per reader: its clock against the proxy's, its version
    MinVersions,    \* values KUBETEE_PROXY_MIN_VERSION may have
    Window,         \* _TS_WINDOW
    Timeout,        \* the timeout of urlopen
    Faults, MaxFaults, MaxChanges, MaxDelays

NoGate  == -1       \* the minimum version is not set
Invalid == 0        \* a version, or minimum, that is missing or no semver
NoMarker == 0

FaultKinds == {"page", "stall", "chain", "net", "cut", "restart"}
Clients    == {Owner} \cup Readers
Threads    == Readers \X Slots

ASSUME AccessAssumption ==
    /\ Ids \subseteq Nat \ {NoMarker} /\ IsFiniteSet(Ids)
    /\ Limit \in Nat \ {0}
    /\ Owner \notin Readers
    /\ Profiles \subseteq [skew : Int, version : Nat]
    /\ MinVersions \subseteq Nat \cup {NoGate}
    /\ Slots \subseteq Nat /\ Window \in Nat /\ Timeout \in Nat \ {0}
    /\ Faults \subseteq FaultKinds
    /\ MaxFaults \in Nat /\ MaxChanges \in Nat /\ MaxDelays \in Nat

VARIABLES
    objects,    \* Rancher: the ids of the collection
    permit,     \* chain: which readers are registered with a validator permit
    profile,    \* per reader: its skew and version
    minVersion, \* the proxy's environment
    client,     \* per client: where its read is, and its list
    thread,     \* per slot: the proxy's thread, its request and its list
    must, may,  \* history: objects that were there all, or some, of a read
    entitled,   \* history: readers that held a permit at some time of the read
    faults, changes, delays

history == <<must, may, entitled>>
bounds  == <<faults, changes, delays>>
vars    == <<objects, permit, profile, minVersion, client, thread, history, bounds>>

Fault(kind) ==
    /\ kind \in Faults
    /\ faults < MaxFaults /\ faults' = faults + 1
    /\ UNCHANGED <<changes, delays>>

-----------------------------------------------------------------------------
(* RancherClient._get_all_pages, used by the owner and by every thread *)

\* How often each id is on the list, and the marker of the next page.
EmptyList == [count |-> [i \in Ids |-> 0], marker |-> NoMarker]

After(marker) == {i \in objects : i > marker}

Page(marker) ==
    {i \in After(marker) : Cardinality({j \in After(marker) : j < i}) < Limit}

\* The marker Rancher returns: where the next page begins, if there is one.
NextMarker(marker) ==
    IF Page(marker) = After(marker) THEN NoMarker
    ELSE CHOOSE i \in Page(marker) : \A j \in Page(marker) : j <= i

\* items.extend(...) and the marker of the answer.
Extend(list) ==
    [count  |-> [i \in Ids |-> IF i \in Page(list.marker) THEN list.count[i] + 1
                                                           ELSE list.count[i]],
     marker |-> NextMarker(list.marker)]

LastPage(list) == NextMarker(list.marker) = NoMarker

-----------------------------------------------------------------------------

NoRead    == [pc |-> "idle", list |-> EmptyList, outcome |-> "none"]
NoRequest == [pc |-> "free", attached |-> FALSE, age |-> 0, list |-> EmptyList]

Init ==
    /\ objects \in SUBSET Ids
    /\ permit = Readers
    /\ profile \in [Readers -> Profiles]
    /\ minVersion \in MinVersions
    /\ client = [c \in Clients |-> NoRead]
    /\ thread = [q \in Threads |-> NoRequest]
    /\ must = [c \in Clients |-> {}] /\ may = must
    /\ entitled = {}
    /\ faults = 0 /\ changes = 0 /\ delays = 0

Reading == {c \in Clients : client[c].pc # "idle"}

\* An object comes or goes.
ObjectChanges ==
    /\ changes < MaxChanges /\ changes' = changes + 1
    /\ \E i \in Ids : objects' = IF i \in objects THEN objects \ {i} ELSE objects \cup {i}
    /\ must' = [c \in Clients |-> must[c] \cap objects']
    /\ may'  = [c \in Clients |-> IF c \in Reading THEN may[c] \cup objects' ELSE {}]
    /\ UNCHANGED <<permit, profile, minVersion, client, thread, entitled, faults, delays>>

\* A validator gains or loses its permit.
PermitChanges ==
    /\ changes < MaxChanges /\ changes' = changes + 1
    /\ \E r \in Readers : permit' = IF r \in permit THEN permit \ {r} ELSE permit \cup {r}
    /\ entitled' = entitled \cup (permit' \cap Reading)
    /\ UNCHANGED <<objects, profile, minVersion, client, thread, must, may, faults, delays>>

\* Time that matters passes: requests wait in the proxy, readers for an answer.
Delay ==
    /\ delays < MaxDelays /\ delays' = delays + 1
    /\ \A q \in Threads : thread[q].attached => thread[q].age < Timeout
    /\ thread' = [q \in Threads |->
                    IF thread[q].attached \/ thread[q].pc = "stamp"
                    THEN [thread[q] EXCEPT !.age = @ + 1] ELSE thread[q]]
    /\ UNCHANGED <<objects, permit, profile, minVersion, client, history, faults, changes>>

-----------------------------------------------------------------------------
(* The clients *)

Starts(c, pc) ==
    /\ client[c].pc = "idle"
    /\ client' = [client EXCEPT ![c] = [NoRead EXCEPT !.pc = pc]]
    /\ must' = [must EXCEPT ![c] = objects]
    /\ may'  = [may EXCEPT ![c] = objects]
    /\ entitled' = (entitled \ {c}) \cup ({c} \cap permit)

\* run_cycle has a list, a RancherEvidenceError ("rancher"), or an exception it
\* does not catch ("unexpected").
Ends(c, outcome, list) ==
    /\ client' = [client EXCEPT ![c] = [pc |-> "idle", outcome |-> outcome, list |-> list]]
    /\ must' = [must EXCEPT ![c] = {}]
    /\ may'  = [may EXCEPT ![c] = {}]
    /\ UNCHANGED entitled

OwnerStarts ==
    /\ Starts(Owner, "paging")
    /\ UNCHANGED <<objects, permit, profile, minVersion, thread, bounds>>

OwnerPage ==
    /\ client[Owner].pc = "paging"
    /\ LET list == Extend(client[Owner].list)
       IN  IF list.marker = NoMarker
           THEN Ends(Owner, "evidence", list)
           ELSE client' = [client EXCEPT ![Owner].list = list] /\ UNCHANGED history
    /\ UNCHANGED <<objects, permit, profile, minVersion, thread, bounds>>

\* A URLError, invalid JSON or no data list becomes RancherEvidenceError; a
\* timeout of the answer is a TimeoutError, which is no URLError.
OwnerPageFails ==
    /\ client[Owner].pc = "paging"
    /\ \/ Fault("page") /\ Ends(Owner, "rancher", EmptyList)
       \/ Fault("stall") /\ Ends(Owner, "unexpected", EmptyList)
    /\ UNCHANGED <<objects, permit, profile, minVersion, thread>>

\* A reader signs a request with its own clock and sends it; the slots are taken
\* in order, one name for a thread being as good as another.
ReaderSends(q) ==
    /\ thread[q].pc = "free"
    /\ \A s \in Slots : s < q[2] => thread[q[1], s].pc # "free"
    /\ Starts(q[1], "waiting")
    /\ thread' = [thread EXCEPT ![q] =
            [pc |-> "stamp", attached |-> TRUE, age |-> 0, list |-> EmptyList]]
    /\ UNCHANGED <<objects, permit, profile, minVersion, bounds>>

\* The proxy cannot be reached: a URLError.
ReaderUnreachable(q) ==
    /\ thread[q].attached /\ thread[q].pc = "stamp" /\ thread[q].age = 0
    /\ Fault("net")
    /\ Ends(q[1], "rancher", EmptyList)
    /\ thread' = [thread EXCEPT ![q] = NoRequest]
    /\ UNCHANGED <<objects, permit, profile, minVersion>>

\* urlopen times out while it waits for the answer; the thread stays.
ReaderTimesOut(q) ==
    /\ thread[q].attached /\ thread[q].age >= Timeout
    /\ Ends(q[1], "unexpected", EmptyList)
    /\ thread' = [thread EXCEPT ![q].attached = FALSE]
    /\ UNCHANGED <<objects, permit, profile, minVersion, bounds>>

-----------------------------------------------------------------------------
(* A thread of the proxy *)

\* The answer reaches the reader if that still waits, and the thread ends.
Reply(q, outcome, list) ==
    /\ thread' = [thread EXCEPT ![q] = NoRequest]
    /\ IF thread[q].attached THEN Ends(q[1], outcome, list)
                             ELSE UNCHANGED <<client, history>>

Advance(q, pc) ==
    /\ thread' = [thread EXCEPT ![q].pc = pc]
    /\ UNCHANGED <<client, history>>

\* 403 and 502 are HTTPErrors, hence URLErrors.
Refuse(q) == Reply(q, "rancher", EmptyList)

\* now - ts, by the two clocks.
Drift(q) == thread[q].age + profile[q[1]].skew

\* Mutant: the window is open at its end.
InsideWindow(q) == Drift(q) \in (1 - Window)..(Window - 1)

InWindow(q) == Drift(q) \in (-Window)..Window

CheckStamp(q) ==
    /\ thread[q].pc = "stamp"
    /\ IF InWindow(q) THEN Advance(q, "graph") ELSE Refuse(q)
    /\ UNCHANGED <<objects, permit, profile, minVersion, bounds>>

VersionAtLeast(version, minimum) ==
    minimum = Invalid \/ (version # Invalid /\ version >= minimum)

ClientVersionAllowed(r) ==
    minVersion = NoGate \/ VersionAtLeast(profile[r].version, minVersion)

\* Mutant: a metagraph that cannot be read lets the request pass.
FailOpen(q) ==
    /\ thread[q].pc = "graph"
    /\ \/ UNCHANGED bounds
          /\ IF q[1] \in permit /\ ClientVersionAllowed(q[1])
             THEN Advance(q, "list") ELSE Refuse(q)
       \/ Fault("chain") /\ Advance(q, "list")
    /\ UNCHANGED <<objects, permit, profile, minVersion>>

\* The metagraph is read anew for every request; then the version is looked at.
ReadGraph(q) ==
    /\ thread[q].pc = "graph"
    /\ \/ UNCHANGED bounds
          /\ IF q[1] \in permit /\ ClientVersionAllowed(q[1])
             THEN Advance(q, "list") ELSE Refuse(q)
       \/ Fault("chain") /\ Refuse(q)
    /\ UNCHANGED <<objects, permit, profile, minVersion>>

FollowPage(q) ==
    /\ thread[q].pc = "list"
    /\ thread' = [thread EXCEPT ![q].list = Extend(@),
                                ![q].pc = IF LastPage(thread[q].list) THEN "answer" ELSE @]
    /\ UNCHANGED <<objects, permit, profile, minVersion, client, history, bounds>>

\* Mutant: what was read before a page failed is the answer.
PartialList(q) ==
    /\ thread[q].pc = "list"
    /\ Fault("page") \/ Fault("stall")
    /\ Advance(q, "answer")
    /\ UNCHANGED <<objects, permit, profile, minVersion>>

\* Any exception of the owner's client is a 502: no partial list.
PageFails(q) ==
    /\ thread[q].pc = "list"
    /\ Fault("page") \/ Fault("stall")
    /\ Refuse(q)
    /\ UNCHANGED <<objects, permit, profile, minVersion>>

\* The whole list in one answer without a marker, so the reader asks no more; an
\* answer cut short is an IncompleteRead, which is no URLError.
Answer(q) ==
    /\ thread[q].pc = "answer"
    /\ \/ UNCHANGED bounds /\ Reply(q, "evidence", thread[q].list)
       \/ Fault("cut") /\ Reply(q, "unexpected", EmptyList)
    /\ UNCHANGED <<objects, permit, profile, minVersion>>

\* Mutant: readers are not told that the process they wait for is gone.
QuietRestart ==
    /\ Fault("restart")
    /\ minVersion' \in MinVersions
    /\ thread' = [q \in Threads |-> NoRequest]
    /\ client' = [client EXCEPT ![Owner] = NoRead]
    /\ must' = [must EXCEPT ![Owner] = {}]
    /\ may'  = [may EXCEPT ![Owner] = {}]
    /\ UNCHANGED <<objects, permit, profile, entitled>>

\* The owner's process restarts, perhaps with another minimum version: its own
\* read is gone, and so are the threads and their connections.
Restart ==
    /\ Fault("restart")
    /\ minVersion' \in MinVersions
    /\ thread' = [q \in Threads |-> NoRequest]
    /\ LET lost == {Owner} \cup {r \in Readers : client[r].pc = "waiting"}
       IN  /\ client' = [c \in Clients |->
                            IF c = Owner THEN NoRead
                            ELSE IF c \in lost THEN [NoRead EXCEPT !.outcome = "unexpected"]
                            ELSE client[c]]
           /\ must' = [c \in Clients |-> IF c \in lost THEN {} ELSE must[c]]
           /\ may'  = [c \in Clients |-> IF c \in lost THEN {} ELSE may[c]]
    /\ UNCHANGED <<objects, permit, profile, entitled>>

OwnerStep   == OwnerStarts \/ OwnerPage \/ OwnerPageFails
ReaderStep(r) == \E q \in {r} \X Slots :
                    ReaderSends(q) \/ ReaderUnreachable(q) \/ ReaderTimesOut(q)
ThreadStep(q) == CheckStamp(q) \/ ReadGraph(q) \/ FollowPage(q) \/ PageFails(q) \/ Answer(q)

Next ==
    \/ ObjectChanges \/ PermitChanges \/ Delay \/ Restart
    \/ OwnerStep
    \/ \E r \in Readers : ReaderStep(r)
    \/ \E q \in Threads : ThreadStep(q)

Spec == Init /\ [][Next]_vars

\* Cycles follow one another, and so do the steps of a thread.
FairSpec ==
    /\ Spec
    /\ WF_vars(OwnerStep)
    /\ \A r \in Readers : WF_vars(ReaderStep(r))
    /\ \A q \in Threads : WF_vars(ThreadStep(q))

-----------------------------------------------------------------------------
(* Properties *)

List == [count : [Ids -> Nat], marker : Ids \cup {NoMarker}]

\* Every variable has its type, a reader waits for exactly one thread, and no
\* thread is attached to a reader that does not wait.
TypeOK ==
    /\ objects \subseteq Ids /\ permit \subseteq Readers /\ entitled \subseteq Clients
    /\ profile \in [Readers -> Profiles] /\ minVersion \in MinVersions
    /\ \A c \in Clients :
        /\ client[c].pc \in {"idle", IF c = Owner THEN "paging" ELSE "waiting"}
        /\ client[c].outcome \in {"none", "evidence", "rancher", "unexpected"}
        /\ must[c] \subseteq may[c] /\ may[c] \subseteq Ids
        /\ \A i \in Ids : client[c].list.count[i] \in Nat
    /\ \A q \in Threads : thread[q].pc \in {"free", "stamp", "graph", "list", "answer"}
    /\ \A r \in Readers :
        LET mine == {q \in {r} \X Slots : thread[q].attached}
        IN  Cardinality(mine) = IF client[r].pc = "waiting" THEN 1 ELSE 0

\* "fail-closed pagination": through one page or many, directly or through the
\* proxy, a list a validator scores with is one EvidenceRead allows: a page that
\* fails, a proxy that restarts or an object that comes between two pages never
\* makes a miner's cluster vanish from it or be on it twice.
Evidence ==
    [c \in Clients |-> IF client[c].outcome = "evidence" THEN client[c].list.count
                       ELSE [i \in Ids |-> -1]]

Read == INSTANCE EvidenceRead WITH reading <- Reading, evidence <- Evidence

EvidenceSpec == Read!Spec

\* "registered on the subnet and have validator_permit=True in the live
\* metagraph": a reader holds a list only if it had its permit at some moment of
\* the very read that brought it, however permits change while a request waits
\* and whatever the chain answers.
ServedRightly ==
    \A r \in Readers : client[r].outcome = "evidence" => r \in entitled

Welcome(r) ==
    /\ r \in permit /\ ClientVersionAllowed(r)
    /\ profile[r].skew \in (-Window)..Window

\* An outage ends: the owner, and every reader that keeps its permit, has a clock
\* within the window and a version the proxy takes, obtain evidence again and
\* again once faults are over, whatever requests they gave up on.
EventuallyServed ==
    /\ []<>(client[Owner].outcome = "evidence")
    /\ \A r \in Readers :
        <>[]Welcome(r) => []<>(client[r].outcome = "evidence")
=============================================================================
