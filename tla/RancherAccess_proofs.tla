------------------------ MODULE RancherAccess_proofs ------------------------
(***************************************************************************)
(* Proofs about RancherAccess, for any number of readers and request       *)
(* slots, any collection, page size, clocks, versions, faults and delays.  *)
(***************************************************************************)
EXTENDS RancherAccess, FiniteSetTheorems, WellFoundedInduction, TLAPS

\* Clients and threads are records with their fields.
ShapeInv ==
    /\ DOMAIN client = Clients
    /\ DOMAIN thread = Threads
    /\ \A c \in Clients :
            client[c] = [pc |-> client[c].pc, list |-> client[c].list,
                         outcome |-> client[c].outcome]
    /\ \A q \in Threads :
            thread[q] = [pc |-> thread[q].pc, attached |-> thread[q].attached,
                         age |-> thread[q].age, list |-> thread[q].list]

\* A reader waits for the one thread that is attached to it.
AttachedInv ==
    /\ \A q \in Threads : thread[q].attached => client[q[1]].pc = "waiting"
    /\ \A q, s \in Threads :
            thread[q].attached /\ thread[s].attached /\ q[1] = s[1] => q = s

\* A reader that waits and is permitted is entitled, and so is one whose request
\* got past the metagraph.
EntitledInv ==
    /\ \A r \in Readers : client[r].pc # "idle" /\ r \in permit => r \in entitled
    /\ \A q \in Threads :
            thread[q].attached /\ thread[q].pc \in {"list", "answer"} => q[1] \in entitled

AccessInv == ShapeInv /\ AttachedInv /\ EntitledInv /\ ServedRightly

-----------------------------------------------------------------------------

LEMMA ThreadOfReader ==
    ASSUME NEW q \in Threads
    PROVE  q[1] \in Readers /\ q[1] \in Clients /\ q[1] # Owner
BY AccessAssumption DEF Threads, Clients

LEMMA AccessInvInit == Init => AccessInv
<1> SUFFICES ASSUME Init PROVE AccessInv
  OBVIOUS
<1>1. /\ client = [c \in Clients |-> NoRead]
      /\ thread = [q \in Threads |-> NoRequest]
  BY DEF Init
<1>2. ShapeInv
  BY <1>1 DEF ShapeInv, NoRead, NoRequest
<1>3. AttachedInv
  BY <1>1, ThreadOfReader DEF AttachedInv, NoRequest
<1>4. EntitledInv /\ ServedRightly
  BY <1>1, ThreadOfReader DEF EntitledInv, ServedRightly, NoRead, NoRequest, Clients
<1>5. QED
  BY <1>2, <1>3, <1>4 DEF AccessInv

\* A read ends, and with it the attachment of its thread.
LEMMA EndKeepsInv ==
    ASSUME AccessInv, NEW q \in Threads, thread[q].attached,
           NEW outcome, NEW list, Ends(q[1], outcome, list),
           outcome = "evidence" => thread[q].pc = "answer",
           NEW pc, NEW age, NEW read,
           DOMAIN thread' = Threads,
           thread'[q] = [pc |-> pc, attached |-> FALSE, age |-> age, list |-> read],
           \A s \in Threads \ {q} : thread'[s] = thread[s],
           UNCHANGED permit
    PROVE  AccessInv'
<1> USE DEF AccessInv
<1>1. q[1] \in Readers /\ q[1] \in Clients
  BY ThreadOfReader
<1>2. /\ DOMAIN client' = Clients
      /\ client'[q[1]] = [pc |-> "idle", outcome |-> outcome, list |-> list]
      /\ \A c \in Clients \ {q[1]} : client'[c] = client[c]
      /\ UNCHANGED entitled
  BY <1>1 DEF Ends, ShapeInv
<1>3. ShapeInv'
  BY <1>2 DEF ShapeInv
<1>4. AttachedInv'
  BY <1>2, ThreadOfReader DEF AttachedInv
<1>5. EntitledInv'
  BY <1>2 DEF EntitledInv, Clients
<1>6. ServedRightly'
  BY <1>2 DEF EntitledInv, ServedRightly, Clients
<1>7. QED
  BY <1>3, <1>4, <1>5, <1>6

\* An answer, to a reader that waits or to nobody.
LEMMA ReplyKeepsInv ==
    ASSUME AccessInv, NEW q \in Threads, NEW outcome, NEW list, Reply(q, outcome, list),
           outcome = "evidence" => thread[q].pc = "answer",
           UNCHANGED permit
    PROVE  AccessInv'
<1>1. /\ DOMAIN thread' = Threads
      /\ thread'[q] = NoRequest
      /\ \A s \in Threads \ {q} : thread'[s] = thread[s]
  BY DEF Reply, AccessInv, ShapeInv
<1>2. CASE thread[q].attached
  <2>1. Ends(q[1], outcome, list)
    BY <1>2 DEF Reply
  <2>2. QED
    BY <1>1, <1>2, <2>1, EndKeepsInv DEF NoRequest
<1>3. CASE ~thread[q].attached
  <2>1. UNCHANGED <<client, entitled>>
    BY <1>3 DEF Reply, history
  <2>2. ShapeInv'
    BY <1>1, <2>1 DEF AccessInv, ShapeInv, NoRequest
  <2>3. AttachedInv'
    BY <1>1, <2>1 DEF AccessInv, AttachedInv, NoRequest
  <2>4. EntitledInv' /\ ServedRightly'
    BY <1>1, <2>1 DEF AccessInv, EntitledInv, ServedRightly, NoRequest
  <2>5. QED
    BY <2>2, <2>3, <2>4 DEF AccessInv
<1>4. QED
  BY <1>2, <1>3

\* A thread takes a step of which no client hears.
LEMMA SilentStep ==
    ASSUME AccessInv, NEW q \in Threads, NEW pc, NEW age, NEW list,
           DOMAIN thread' = Threads,
           thread'[q] = [pc |-> pc, attached |-> thread[q].attached, age |-> age,
                         list |-> list],
           \A s \in Threads \ {q} : thread'[s] = thread[s],
           UNCHANGED <<client, permit, entitled>>,
           pc \in {"list", "answer"} =>
              thread[q].pc \in {"list", "answer"} \/ q[1] \in permit
    PROVE  AccessInv'
<1> USE DEF AccessInv
<1>1. q[1] \in Readers
  BY ThreadOfReader
<1>2. \A s \in Threads : thread'[s].attached = thread[s].attached
  OBVIOUS
<1>3. ShapeInv'
  BY DEF ShapeInv
<1>4. AttachedInv'
  BY <1>2 DEF AttachedInv
<1>5. EntitledInv'
  BY <1>1 DEF EntitledInv, AttachedInv
<1>6. ServedRightly'
  BY DEF ServedRightly
<1>7. QED
  BY <1>3, <1>4, <1>5, <1>6

LEMMA ThreadKeepsInv ==
    ASSUME AccessInv, NEW q \in Threads, ThreadStep(q)
    PROVE  AccessInv'
<1>0. /\ DOMAIN thread = Threads
      /\ thread[q] = [pc |-> thread[q].pc, attached |-> thread[q].attached,
                      age |-> thread[q].age, list |-> thread[q].list]
  BY DEF AccessInv, ShapeInv
<1>1. ASSUME NEW next, Advance(q, next), UNCHANGED permit,
             next \in {"list", "answer"} =>
                thread[q].pc \in {"list", "answer"} \/ q[1] \in permit
      PROVE  AccessInv'
  <2>1. /\ DOMAIN thread' = Threads
        /\ thread'[q] = [pc |-> next, attached |-> thread[q].attached,
                         age |-> thread[q].age, list |-> thread[q].list]
        /\ \A s \in Threads \ {q} : thread'[s] = thread[s]
    BY <1>0, <1>1 DEF Advance
  <2>2. UNCHANGED <<client, permit, entitled>>
    BY <1>1 DEF Advance, history
  <2>3. QED
    BY <1>1, <2>1, <2>2, SilentStep
<1>2. Refuse(q) /\ UNCHANGED permit => AccessInv'
  BY ReplyKeepsInv DEF Refuse
<1>3. CASE CheckStamp(q)
  <2>1. UNCHANGED permit /\ (Refuse(q) \/ Advance(q, "graph"))
    BY <1>3 DEF CheckStamp
  <2>2. QED
    BY <1>1, <1>2, <2>1
<1>4. CASE ReadGraph(q)
  <2>1. UNCHANGED permit /\ (Refuse(q) \/ (q[1] \in permit /\ Advance(q, "list")))
    BY <1>4 DEF ReadGraph
  <2>2. QED
    BY <1>1, <1>2, <2>1
<1>5. CASE FollowPage(q)
  <2> DEFINE next == IF LastPage(thread[q].list) THEN "answer" ELSE thread[q].pc
             list == Extend(thread[q].list)
  <2>1. /\ thread[q].pc = "list"
        /\ UNCHANGED <<client, permit, entitled>>
        /\ thread' = [thread EXCEPT ![q].list = list, ![q].pc = next]
    BY <1>5 DEF FollowPage, history
  <2> HIDE DEF next, list
  <2>2. /\ DOMAIN thread' = Threads
        /\ \A s \in Threads \ {q} : thread'[s] = thread[s]
    BY <1>0, <2>1
  <2>3. thread'[q] = [thread[q] EXCEPT !.list = list, !.pc = next]
    BY <1>0, <2>1
  <2>4. thread'[q] = [pc |-> next, attached |-> thread[q].attached,
                      age |-> thread[q].age, list |-> list]
    BY <1>0, <2>3
  <2>5. QED
    BY <2>1, <2>2, <2>4, SilentStep
<1>6. CASE PageFails(q)
  BY <1>2, <1>6 DEF PageFails
<1>7. CASE Answer(q)
  BY <1>7, ReplyKeepsInv DEF Answer
<1>8. QED
  BY <1>3, <1>4, <1>5, <1>6, <1>7 DEF ThreadStep

-----------------------------------------------------------------------------

\* What happens around a read: objects and permits change, and time passes.
LEMMA SurroundingsKeepInv ==
    ASSUME AccessInv, ObjectChanges \/ PermitChanges \/ Delay
    PROVE  AccessInv'
<1>1. CASE ObjectChanges
  BY <1>1 DEF ObjectChanges, AccessInv, ShapeInv, AttachedInv, EntitledInv, ServedRightly
<1>2. CASE PermitChanges
  <2>1. /\ UNCHANGED <<client, thread>>
        /\ entitled' = entitled \cup (permit' \cap Reading)
    BY <1>2 DEF PermitChanges
  <2>2. ShapeInv' /\ AttachedInv' /\ ServedRightly'
    BY <2>1 DEF AccessInv, ShapeInv, AttachedInv, ServedRightly
  <2>3. EntitledInv'
    BY <2>1 DEF AccessInv, EntitledInv, Reading, Clients
  <2>4. QED
    BY <2>2, <2>3 DEF AccessInv
<1>3. CASE Delay
  <2>1. /\ UNCHANGED <<client, permit, entitled>>
        /\ thread' = [q \in Threads |->
                        IF thread[q].attached \/ thread[q].pc = "stamp"
                        THEN [thread[q] EXCEPT !.age = @ + 1] ELSE thread[q]]
    BY <1>3 DEF Delay, history
  <2>2. DOMAIN thread' = Threads
    BY <2>1
  <2>3. \A q \in Threads :
            /\ thread'[q] = [pc |-> thread'[q].pc, attached |-> thread'[q].attached,
                             age |-> thread'[q].age, list |-> thread'[q].list]
            /\ thread'[q].pc = thread[q].pc
            /\ thread'[q].attached = thread[q].attached
    <3> TAKE q \in Threads
    <3>1. thread[q] = [pc |-> thread[q].pc, attached |-> thread[q].attached,
                       age |-> thread[q].age, list |-> thread[q].list]
      BY DEF AccessInv, ShapeInv
    <3>2. \/ thread'[q] = thread[q]
          \/ thread'[q] = [thread[q] EXCEPT !.age = thread[q].age + 1]
      BY <2>1
    <3>3. \/ thread'[q] = thread[q]
          \/ thread'[q] = [pc |-> thread[q].pc, attached |-> thread[q].attached,
                           age |-> thread[q].age + 1, list |-> thread[q].list]
      BY <3>1, <3>2
    <3>4. QED
      BY <3>1, <3>3
  <2>4. ShapeInv'
    BY <2>1, <2>2, <2>3 DEF AccessInv, ShapeInv
  <2>5. AttachedInv'
    BY <2>1, <2>3 DEF AccessInv, AttachedInv
  <2>6. EntitledInv' /\ ServedRightly'
    BY <2>1, <2>3 DEF AccessInv, EntitledInv, ServedRightly
  <2>7. QED
    BY <2>4, <2>5, <2>6 DEF AccessInv
<1>4. QED
  BY <1>1, <1>2, <1>3

\* With the owner's process go all threads, and every read that waits for one.
LEMMA RestartKeepsInv ==
    ASSUME AccessInv, Restart
    PROVE  AccessInv'
<1> DEFINE lost == {Owner} \cup {r \in Readers : client[r].pc = "waiting"}
<1>1. /\ thread' = [q \in Threads |-> NoRequest]
      /\ client' = [c \in Clients |->
                        IF c = Owner THEN NoRead
                        ELSE IF c \in lost THEN [NoRead EXCEPT !.outcome = "unexpected"]
                        ELSE client[c]]
  BY DEF Restart
<1>2. /\ DOMAIN thread' = Threads
      /\ \A q \in Threads : thread'[q] = NoRequest
  BY <1>1
<1>3. DOMAIN client' = Clients
  BY <1>1
<1>4. \A c \in Clients :
          \/ client'[c] = client[c] /\ c # Owner
          \/ client'[c] = [pc |-> "idle", list |-> EmptyList, outcome |-> "none"]
          \/ client'[c] = [pc |-> "idle", list |-> EmptyList, outcome |-> "unexpected"]
  BY <1>1 DEF NoRead
<1>5. ShapeInv'
  BY <1>2, <1>3, <1>4 DEF AccessInv, ShapeInv, NoRequest
<1>6. AttachedInv'
  BY <1>2 DEF AttachedInv, NoRequest
<1>7. UNCHANGED <<permit, entitled>>
  BY DEF Restart
<1>8. EntitledInv'
  BY <1>2, <1>4, <1>7 DEF AccessInv, EntitledInv, NoRequest, Clients
<1>9. ServedRightly'
  BY <1>4, <1>7 DEF AccessInv, ServedRightly, Clients
<1>10. QED
  BY <1>5, <1>6, <1>8, <1>9 DEF AccessInv

\* A read starts with an empty list and no outcome.
LEMMA StartOfRead ==
    ASSUME NEW pc
    PROVE  [NoRead EXCEPT !.pc = pc] = [pc |-> pc, list |-> EmptyList, outcome |-> "none"]
BY DEF NoRead

\* The owner's own reads concern no reader.
LEMMA OwnerKeepsInv ==
    ASSUME AccessInv, OwnerStep
    PROVE  AccessInv'
<1>1. /\ DOMAIN client = Clients /\ Owner \in Clients
      /\ client[Owner] = [pc |-> client[Owner].pc, list |-> client[Owner].list,
                          outcome |-> client[Owner].outcome]
  BY DEF AccessInv, ShapeInv, Clients
<1>2. UNCHANGED <<thread, permit>>
  BY DEF OwnerStep, OwnerStarts, OwnerPage, OwnerPageFails
<1>3. /\ DOMAIN client' = Clients
      /\ client'[Owner] = [pc |-> client'[Owner].pc, list |-> client'[Owner].list,
                           outcome |-> client'[Owner].outcome]
      /\ \A c \in Clients \ {Owner} : client'[c] = client[c]
      /\ \A r \in Readers : r \in entitled' <=> r \in entitled
  <2>1. ASSUME NEW outcome, NEW list, Ends(Owner, outcome, list) PROVE <1>3!:
    BY <1>1, <2>1 DEF Ends
  <2>2. CASE OwnerStarts
    <3>1. /\ client' = [client EXCEPT ![Owner] =
                          [pc |-> "paging", list |-> EmptyList, outcome |-> "none"]]
          /\ entitled' = (entitled \ {Owner}) \cup ({Owner} \cap permit)
      BY <2>2, StartOfRead DEF OwnerStarts, Starts
    <3>2. QED
      BY <1>1, <3>1, AccessAssumption
  <2>3. CASE OwnerPage
    <3> DEFINE list == Extend(client[Owner].list)
    <3>1. \/ Ends(Owner, "evidence", list)
          \/ client' = [client EXCEPT ![Owner].list = list] /\ UNCHANGED entitled
      BY <2>3 DEF OwnerPage, history
    <3> HIDE DEF list
    <3>2. QED
      BY <1>1, <2>1, <3>1
  <2>4. CASE OwnerPageFails
    BY <2>1, <2>4 DEF OwnerPageFails
  <2>5. QED
    BY <2>2, <2>3, <2>4 DEF OwnerStep
<1>4. ShapeInv'
  BY <1>2, <1>3 DEF AccessInv, ShapeInv
<1>5. AttachedInv'
  BY <1>2, <1>3, ThreadOfReader DEF AccessInv, AttachedInv
<1>6. EntitledInv' /\ ServedRightly'
  BY <1>2, <1>3, ThreadOfReader, AccessAssumption
     DEF AccessInv, EntitledInv, ServedRightly, Clients
<1>7. QED
  BY <1>4, <1>5, <1>6 DEF AccessInv

\* A reader that starts a read is idle: no older thread of its is attached.
LEMMA SendKeepsInv ==
    ASSUME AccessInv, NEW q \in Threads, ReaderSends(q)
    PROVE  AccessInv'
<1>1. q[1] \in Readers /\ q[1] \in Clients
  BY ThreadOfReader
<1>2. /\ client[q[1]].pc = "idle"
      /\ client' = [client EXCEPT ![q[1]] =
                      [pc |-> "waiting", list |-> EmptyList, outcome |-> "none"]]
      /\ thread' = [thread EXCEPT ![q] =
                      [pc |-> "stamp", attached |-> TRUE, age |-> 0, list |-> EmptyList]]
      /\ entitled' = (entitled \ {q[1]}) \cup ({q[1]} \cap permit)
      /\ UNCHANGED permit
  <2>1. /\ Starts(q[1], "waiting")
        /\ thread' = [thread EXCEPT ![q] =
                [pc |-> "stamp", attached |-> TRUE, age |-> 0, list |-> EmptyList]]
        /\ UNCHANGED permit
    BY Zenon DEF ReaderSends
  <2>2. QED
    BY <2>1, StartOfRead DEF Starts
<1>3. /\ DOMAIN client' = Clients /\ DOMAIN thread' = Threads
      /\ client'[q[1]] = [pc |-> "waiting", list |-> EmptyList, outcome |-> "none"]
      /\ \A c \in Clients \ {q[1]} : client'[c] = client[c]
      /\ thread'[q] = [pc |-> "stamp", attached |-> TRUE, age |-> 0, list |-> EmptyList]
      /\ \A s \in Threads \ {q} : thread'[s] = thread[s]
  BY <1>1, <1>2 DEF AccessInv, ShapeInv
<1>4. \A s \in Threads : thread[s].attached => s[1] # q[1]
  BY <1>2 DEF AccessInv, AttachedInv
<1>5. ShapeInv'
  BY <1>3 DEF AccessInv, ShapeInv
<1>6. AttachedInv'
  BY <1>3, <1>4, ThreadOfReader DEF AccessInv, AttachedInv
<1>7. EntitledInv'
  BY <1>1, <1>2, <1>3, <1>4, ThreadOfReader DEF AccessInv, EntitledInv, Clients
<1>8. ServedRightly'
  BY <1>1, <1>2, <1>3 DEF AccessInv, ServedRightly, Clients
<1>9. QED
  BY <1>5, <1>6, <1>7, <1>8 DEF AccessInv

LEMMA ReaderKeepsInv ==
    ASSUME AccessInv, NEW r \in Readers, ReaderStep(r)
    PROVE  AccessInv'
<1>1. PICK q \in Threads :
          ReaderSends(q) \/ ReaderUnreachable(q) \/ ReaderTimesOut(q)
  BY DEF ReaderStep, Threads
<1>2. CASE ReaderSends(q)
  BY <1>2, SendKeepsInv
<1>3. CASE ReaderUnreachable(q)
  <2>1. /\ thread[q].attached /\ Ends(q[1], "rancher", EmptyList)
        /\ DOMAIN thread' = Threads
        /\ thread'[q] =
              [pc |-> "free", attached |-> FALSE, age |-> 0, list |-> EmptyList]
        /\ \A s \in Threads \ {q} : thread'[s] = thread[s]
        /\ UNCHANGED permit
    BY <1>3 DEF ReaderUnreachable, NoRequest, AccessInv, ShapeInv
  <2>2. QED
    BY <2>1, EndKeepsInv
<1>4. CASE ReaderTimesOut(q)
  <2>1. /\ thread[q].attached /\ UNCHANGED permit
        /\ Ends(q[1], "unexpected", EmptyList)
        /\ thread' = [thread EXCEPT ![q].attached = FALSE]
    BY <1>4 DEF ReaderTimesOut
  <2>2. /\ DOMAIN thread = Threads
        /\ thread[q] = [pc |-> thread[q].pc, attached |-> thread[q].attached,
                        age |-> thread[q].age, list |-> thread[q].list]
    BY DEF AccessInv, ShapeInv
  <2>3. /\ DOMAIN thread' = Threads
        /\ thread'[q] = [thread[q] EXCEPT !.attached = FALSE]
        /\ \A s \in Threads \ {q} : thread'[s] = thread[s]
    BY <2>1, <2>2
  <2>4. thread'[q] = [pc |-> thread[q].pc, attached |-> FALSE,
                      age |-> thread[q].age, list |-> thread[q].list]
    BY <2>2, <2>3
  <2>5. QED
    <3> DEFINE pc == thread[q].pc
               age == thread[q].age
               list == thread[q].list
    <3>1. thread'[q] = [pc |-> pc, attached |-> FALSE, age |-> age, list |-> list]
      BY <2>4
    <3> HIDE DEF pc, age, list
    <3>2. QED
      BY <2>1, <2>3, <3>1, EndKeepsInv
<1>5. QED
  BY <1>1, <1>2, <1>3, <1>4

LEMMA StutterKeepsInv ==
    ASSUME AccessInv, UNCHANGED vars
    PROVE  AccessInv'
BY DEF vars, history, AccessInv, ShapeInv, AttachedInv, EntitledInv, ServedRightly

LEMMA NextKeepsInv ==
    ASSUME AccessInv, [Next]_vars
    PROVE  AccessInv'
<1>1. CASE Next
  <2>1. CASE \E r \in Readers : ReaderStep(r)
    BY <2>1, ReaderKeepsInv
  <2>2. CASE \E q \in Threads : ThreadStep(q)
    BY <2>2, ThreadKeepsInv
  <2>3. QED
    BY <1>1, <2>1, <2>2, SurroundingsKeepInv, RestartKeepsInv, OwnerKeepsInv DEF Next
<1>2. CASE UNCHANGED vars
  BY <1>2, StutterKeepsInv
<1>3. QED
  BY <1>1, <1>2

\* A validator other than the owner's holds a list of the proxy only if it was
\* registered with a permit at some moment of the read that brought the list
\* (rancher_proxy.py asks the live metagraph for every request): for any number
\* of readers, requests given up on, clocks, pages, delays, restarts and faults.
THEOREM PermittedAreServed == Spec => []ServedRightly
<1>1. Init => AccessInv
  BY AccessInvInit
<1>2. AccessInv /\ [Next]_vars => AccessInv'
  BY NextKeepsInv
<1>3. AccessInv => ServedRightly
  BY DEF AccessInv
<1>4. QED
  BY <1>1, <1>2, <1>3, PTL DEF Spec

-----------------------------------------------------------------------------
(* Pages *)

\* A set of natural numbers that is not empty has a least element.
LEMMA LeastNatural ==
    ASSUME NEW T \in SUBSET Nat, T # {}
    PROVE  \E x \in T : \A y \in T : x <= y
<1> DEFINE R == OpToRel(<, Nat)
<1>1. IsWellFoundedOn(R, Nat)
  BY NatLessThanWellFounded
<1> HIDE DEF R
<1>2. PICK x \in T : \A y \in T : <<y, x>> \notin R
  BY <1>1, WFMin
<1>3. \A y \in T : ~(y < x)
  BY <1>2 DEF R, OpToRel
<1>4. QED
  BY <1>3

\* What follows a marker is a finite set of ids beyond it.
LEMMA AfterIsFinite ==
    ASSUME objects \subseteq Ids, NEW m \in Nat
    PROVE  /\ After(m) \subseteq objects /\ After(m) \subseteq Nat \ {0}
           /\ \A i \in After(m) : i > m
           /\ \A i \in objects : i > m => i \in After(m)
           /\ IsFiniteSet(After(m))
<1>1. After(m) \subseteq Ids
  BY DEF After
<1>2. IsFiniteSet(After(m))
  BY <1>1, FS_Subset, AccessAssumption
<1>3. QED
  BY <1>1, <1>2, AccessAssumption DEF After, NoMarker

\* How many ids of what follows a marker come before i.
Rank(m, i) == Cardinality({j \in After(m) : j < i})

LEMMA RankIsNat ==
    ASSUME objects \subseteq Ids, NEW m \in Nat, NEW i
    PROVE  Rank(m, i) \in Nat
<1>1. {j \in After(m) : j < i} \in SUBSET After(m)
  OBVIOUS
<1>2. IsFiniteSet({j \in After(m) : j < i})
  BY <1>1, AfterIsFinite, FS_Subset
<1>3. QED
  BY <1>2, FS_CardinalityType DEF Rank

\* A later id has more before it.
LEMMA RankGrows ==
    ASSUME objects \subseteq Ids, NEW m \in Nat,
           NEW i \in After(m), NEW k \in After(m), i < k
    PROVE  Rank(m, i) < Rank(m, k)
<1> DEFINE before(x) == {j \in After(m) : j < x}
<1>1. /\ IsFiniteSet(before(i)) /\ IsFiniteSet(before(k))
  <2>1. before(i) \in SUBSET After(m) /\ before(k) \in SUBSET After(m)
    OBVIOUS
  <2>2. QED
    BY <2>1, AfterIsFinite, FS_Subset
<1>2. i \in Nat /\ k \in Nat /\ i \notin before(i)
  BY AfterIsFinite
<1>3. before(i) \cup {i} \in SUBSET before(k)
  BY <1>2, AfterIsFinite
<1>4. Cardinality(before(i) \cup {i}) = Cardinality(before(i)) + 1
  BY <1>1, <1>2, FS_AddElement
<1>5. Cardinality(before(i) \cup {i}) <= Cardinality(before(k))
  BY <1>1, <1>3, FS_Subset
<1>6. Cardinality(before(i)) \in Nat /\ Cardinality(before(k)) \in Nat
  BY <1>1, FS_CardinalityType
<1>7. QED
  BY <1>4, <1>5, <1>6 DEF Rank

\* A page is what follows the marker up to some id.
LEMMA PageIsPrefix ==
    ASSUME objects \subseteq Ids, NEW m \in Nat
    PROVE  /\ Page(m) = {i \in After(m) : Rank(m, i) < Limit}
           /\ \A i \in Page(m), j \in After(m) : j <= i => j \in Page(m)
<1>1. Page(m) = {i \in After(m) : Rank(m, i) < Limit}
  BY DEF Page, Rank
<1>2. ASSUME NEW i \in Page(m), NEW j \in After(m), j <= i
      PROVE  j \in Page(m)
  <2>1. i \in After(m) /\ i \in Nat /\ j \in Nat /\ Rank(m, i) < Limit
    BY <1>1, AfterIsFinite
  <2>2. Rank(m, j) <= Rank(m, i)
    <3>1. CASE j = i
      BY <3>1, RankIsNat
    <3>2. CASE j < i
      BY <2>1, <3>2, RankGrows, RankIsNat
    <3>3. QED
      BY <1>2, <2>1, <3>1, <3>2
  <2>3. Rank(m, i) \in Nat /\ Rank(m, j) \in Nat
    BY RankIsNat
  <2>4. QED
    BY <1>1, <2>1, <2>2, <2>3, AccessAssumption
<1>3. QED
  BY <1>1, <1>2

\* A page with something after it has a last id.
LEMMA PageHasLast ==
    ASSUME objects \subseteq Ids, NEW m \in Nat, Page(m) # After(m)
    PROVE  \E i \in Page(m) : \A j \in Page(m) : j <= i
<1>1. After(m) \in SUBSET Nat /\ After(m) # {}
  BY AfterIsFinite, PageIsPrefix
<1>2. PICK first \in After(m) : \A j \in After(m) : first <= j
  BY <1>1, LeastNatural
<1>3. {j \in After(m) : j < first} = {}
  BY <1>1, <1>2
<1>4. Rank(m, first) = 0
  BY <1>3, FS_EmptySet DEF Rank
<1>5. first \in Page(m)
  BY <1>4, PageIsPrefix, AccessAssumption
<1> DEFINE room == {Limit - Rank(m, i) : i \in Page(m)}
<1>6. room \in SUBSET Nat
  <2>1. \A i \in Page(m) : Rank(m, i) \in Nat /\ Rank(m, i) < Limit
    BY PageIsPrefix, RankIsNat
  <2>2. QED
    BY <2>1, AccessAssumption
<1>7. room # {}
  BY <1>5
<1> HIDE DEF room
<1>8. PICK least \in room : \A x \in room : least <= x
  BY <1>6, <1>7, LeastNatural
<1>9. PICK i \in Page(m) : least = Limit - Rank(m, i)
  BY <1>8 DEF room
<1>10. ASSUME NEW j \in Page(m) PROVE j <= i
  <2>1. Limit - Rank(m, i) <= Limit - Rank(m, j)
    BY <1>8, <1>9 DEF room
  <2>2. Rank(m, i) \in Nat /\ Rank(m, j) \in Nat
    BY RankIsNat
  <2>3. ~(Rank(m, i) < Rank(m, j))
    BY <2>1, <2>2, AccessAssumption
  <2>4. i \in After(m) /\ j \in After(m) /\ i \in Nat /\ j \in Nat
    BY <1>1, PageIsPrefix
  <2>5. QED
    BY <2>3, <2>4, RankGrows
<1>11. QED
  BY <1>10

\* The next page begins after the last id of this one, if there is more.
LEMMA NextMarkerIsLast ==
    ASSUME objects \subseteq Ids, NEW m \in Nat
    PROVE  \/ NextMarker(m) = NoMarker /\ Page(m) = After(m)
           \/ /\ NextMarker(m) \in Page(m)
              /\ \A j \in Page(m) : j <= NextMarker(m)
<1>1. CASE Page(m) = After(m)
  BY <1>1 DEF NextMarker
<1>2. CASE Page(m) # After(m)
  <2>1. \E i \in Page(m) : \A j \in Page(m) : j <= i
    BY <1>2, PageHasLast
  <2>2. NextMarker(m) = CHOOSE i \in Page(m) : \A j \in Page(m) : j <= i
    BY <1>2 DEF NextMarker
  <2>3. QED
    BY <2>1, <2>2
<1>3. QED
  BY <1>1, <1>2

-----------------------------------------------------------------------------
(* Lists *)

\* How often a regular list may have an id.
Allowed(i, lower, upper) ==
    IF i \in lower THEN {1} ELSE IF i \in upper THEN {0, 1} ELSE {0}

Whole(list, lower, upper) ==
    \A i \in Ids : list.count[i] \in Allowed(i, lower, upper)

\* A list with the pages up to a marker is regular up to it, and has no more.
Partial(list, lower, upper) ==
    /\ list.marker \in Nat
    /\ \A i \in Ids :
        list.count[i] \in IF i <= list.marker THEN Allowed(i, lower, upper) ELSE {0}

LEMMA EmptyListIsPartial ==
    ASSUME NEW lower, NEW upper
    PROVE  Partial(EmptyList, lower, upper)
<1>1. \A i \in Ids : i \in Nat /\ i # 0
  BY AccessAssumption DEF NoMarker
<1>2. EmptyList.marker = 0 /\ \A i \in Ids : EmptyList.count[i] = 0
  BY DEF EmptyList, NoMarker
<1>3. QED
  BY <1>1, <1>2 DEF Partial

\* Objects that come or go leave a list as good as it was.
LEMMA ChangeKeepsList ==
    ASSUME NEW list, NEW lower, NEW upper, NEW lower2, NEW upper2,
           lower2 \subseteq lower, lower \subseteq upper, upper \subseteq upper2
    PROVE  /\ Whole(list, lower, upper) => Whole(list, lower2, upper2)
           /\ Partial(list, lower, upper) => Partial(list, lower2, upper2)
<1>1. \A i \in Ids : Allowed(i, lower, upper) \subseteq Allowed(i, lower2, upper2)
  BY DEF Allowed
<1>2. QED
  BY <1>1 DEF Whole, Partial

\* One page more: the list is whole after the last page, else still partial.
LEMMA ExtendList ==
    ASSUME objects \subseteq Ids, NEW list, NEW lower, NEW upper,
           lower \subseteq objects, objects \subseteq upper, Partial(list, lower, upper)
    PROVE  /\ LastPage(list) => Whole(Extend(list), lower, upper)
           /\ ~LastPage(list) => Partial(Extend(list), lower, upper)
           /\ LastPage(list) <=> Extend(list).marker = NoMarker
<1> DEFINE m    == list.marker
           next == NextMarker(m)
           new  == Extend(list)
<1>1. m \in Nat /\ \A i \in Ids : i \in Nat /\ i # 0
  BY AccessAssumption DEF Partial, NoMarker
<1>2. /\ new.marker = next
      /\ \A i \in Ids : new.count[i] = IF i \in Page(m) THEN list.count[i] + 1
                                                        ELSE list.count[i]
  BY DEF Extend
<1>3. LastPage(list) <=> next = NoMarker
  BY DEF LastPage
<1>4. /\ Page(m) \subseteq After(m)
      /\ \A i \in Page(m), j \in After(m) : j <= i => j \in Page(m)
  BY <1>1, PageIsPrefix
<1>5. /\ \A i \in After(m) : i \in objects /\ i > m /\ i \in Nat
      /\ \A i \in objects : i > m => i \in After(m)
  BY <1>1, AfterIsFinite
<1>6. \/ next = NoMarker /\ Page(m) = After(m)
      \/ next \in Page(m) /\ \A j \in Page(m) : j <= next
  BY <1>1, NextMarkerIsLast
<1> HIDE DEF m, next, new
<1>7. \A i \in Ids : i <= m => new.count[i] \in Allowed(i, lower, upper)
  BY <1>1, <1>2, <1>4, <1>5 DEF Partial, m
<1>8. \A i \in Ids : i > m => list.count[i] = 0
  BY <1>1 DEF Partial, m
<1>9. \A i \in Page(m) : i \in Ids /\ new.count[i] = 1 /\ 1 \in Allowed(i, lower, upper)
  BY <1>2, <1>4, <1>5, <1>8 DEF Allowed
<1>10. \A i \in Ids : i > m /\ i \notin Page(m) => new.count[i] = 0
  BY <1>2, <1>8
<1>11. CASE next = NoMarker
  <2>1. Page(m) = After(m)
    BY <1>1, <1>4, <1>5, <1>6, <1>11 DEF NoMarker
  <2>2. \A i \in Ids : i > m /\ i \notin Page(m) => i \notin objects
    BY <1>5, <2>1
  <2>3. \A i \in Ids : i > m /\ i \notin Page(m) => 0 \in Allowed(i, lower, upper)
    BY <2>2 DEF Allowed
  <2>4. Whole(new, lower, upper)
    BY <1>1, <1>7, <1>9, <1>10, <2>3 DEF Whole
  <2>5. QED
    BY <1>2, <1>3, <1>11, <2>4 DEF new
<1>12. CASE next # NoMarker
  <2>1. next \in Page(m) /\ next \in Nat /\ next > m /\ \A j \in Page(m) : j <= next
    BY <1>4, <1>5, <1>6, <1>12
  <2>2. \A i \in Ids : i > m /\ i <= next /\ i \notin Page(m) => i \notin objects
    BY <1>4, <1>5, <2>1
  <2>3. \A i \in Ids : i > m /\ i <= next /\ i \notin Page(m)
                            => 0 \in Allowed(i, lower, upper)
    BY <2>2 DEF Allowed
  <2>4. \A i \in Ids : i > next => i > m /\ i \notin Page(m)
    BY <1>1, <2>1
  <2>5. Partial(new, lower, upper)
    BY <1>1, <1>2, <1>7, <1>9, <1>10, <2>1, <2>3, <2>4 DEF Partial
  <2>6. QED
    BY <1>2, <1>3, <1>12, <2>5 DEF new
<1>13. QED
  BY <1>11, <1>12

-----------------------------------------------------------------------------
(* The invariant *)

\* What was there all the time of a read is there now, and what is there now was
\* there at some time of it.
ClientRead(c) ==
    /\ client[c].pc = "idle" => must[c] = {} /\ may[c] = {}
    /\ client[c].pc # "idle" =>
            /\ must[c] \subseteq objects /\ objects \subseteq may[c]
            /\ client[c].outcome = "none"
    /\ \A i \in Ids : client[c].list.count[i] \in Nat

\* What the owner has read so far, and what the thread of a reader that waits has,
\* is a list of that read.
OwnerRead ==
    client[Owner].pc # "idle" => Partial(client[Owner].list, must[Owner], may[Owner])

ThreadRead(q) ==
    thread[q].attached =>
        IF thread[q].pc = "answer"
        THEN Whole(thread[q].list, must[q[1]], may[q[1]])
        ELSE Partial(thread[q].list, must[q[1]], may[q[1]])

SetsInv ==
    /\ objects \subseteq Ids
    /\ must \in [Clients -> SUBSET Ids] /\ may \in [Clients -> SUBSET Ids]

ListInv ==
    /\ SetsInv
    /\ \A c \in Clients : ClientRead(c)
    /\ OwnerRead
    /\ \A q \in Threads : ThreadRead(q)

LEMMA ListInvInit == Init => ListInv /\ Read!Init
<1> SUFFICES ASSUME Init PROVE ListInv /\ Read!Init
  OBVIOUS
<1>1. /\ objects \in SUBSET Ids
      /\ client = [c \in Clients |-> NoRead]
      /\ thread = [q \in Threads |-> NoRequest]
      /\ must = [c \in Clients |-> {}] /\ may = must
  BY DEF Init
<1>2. SetsInv
  BY <1>1 DEF SetsInv
<1>3. \A c \in Clients : client[c] = [pc |-> "idle", list |-> EmptyList, outcome |-> "none"]
  BY <1>1 DEF NoRead
<1>4. \A i \in Ids : EmptyList.count[i] \in Nat
  BY DEF EmptyList
<1>5. \A c \in Clients : ClientRead(c)
  BY <1>1, <1>3, <1>4 DEF ClientRead
<1>6. OwnerRead
  BY <1>3 DEF OwnerRead, Clients
<1>7. \A q \in Threads : ThreadRead(q)
  BY <1>1 DEF ThreadRead, NoRequest
<1>8. Read!Init
  <2>1. Reading = {}
    BY <1>3 DEF Reading
  <2>2. Evidence = [c \in Clients |-> [i \in Ids |-> -1]]
    BY <1>3 DEF Evidence
  <2>3. QED
    BY <1>1, <2>1, <2>2 DEF Read!Init, Read!NoList
<1>9. QED
  BY <1>2, <1>5, <1>6, <1>7, <1>8 DEF ListInv

-----------------------------------------------------------------------------
(* What the clients' steps do to their reads *)

\* A read begins, of the list as it is now.
LEMMA BeginsRead ==
    ASSUME AccessInv, ListInv, NEW c \in Clients, NEW pc, pc # "idle",
           Starts(c, pc), UNCHANGED objects
    PROVE  /\ SetsInv' /\ \A d \in Clients : ClientRead(d)'
           /\ Read!Begin(c)
           /\ client'[c] = [pc |-> pc, list |-> EmptyList, outcome |-> "none"]
           /\ \A d \in Clients \ {c} :
                client'[d] = client[d] /\ must'[d] = must[d] /\ may'[d] = may[d]
<1>1. /\ client' = [client EXCEPT ![c] =
                      [pc |-> pc, list |-> EmptyList, outcome |-> "none"]]
      /\ must' = [must EXCEPT ![c] = objects]
      /\ may' = [may EXCEPT ![c] = objects]
      /\ client[c].pc = "idle"
  BY StartOfRead DEF Starts
<1>2. /\ DOMAIN client = Clients /\ objects \subseteq Ids
      /\ must \in [Clients -> SUBSET Ids] /\ may \in [Clients -> SUBSET Ids]
  BY DEF AccessInv, ShapeInv, ListInv, SetsInv
<1>3. /\ client'[c] = [pc |-> pc, list |-> EmptyList, outcome |-> "none"]
      /\ must'[c] = objects /\ may'[c] = objects
      /\ \A d \in Clients \ {c} :
            client'[d] = client[d] /\ must'[d] = must[d] /\ may'[d] = may[d]
  BY <1>1, <1>2
<1>4. SetsInv'
  BY <1>1, <1>2 DEF SetsInv
<1>5. \A d \in Clients : ClientRead(d)'
  <2>1. \A i \in Ids : EmptyList.count[i] \in Nat
    BY DEF EmptyList
  <2>2. QED
    BY <1>3, <2>1 DEF ListInv, ClientRead
<1>6. Read!Begin(c)
  <2>1. c \notin Reading /\ Reading' = Reading \cup {c}
    BY <1>1, <1>3 DEF Reading
  <2>2. /\ Evidence'[c] = [i \in Ids |-> -1]
        /\ \A d \in Clients \ {c} : Evidence'[d] = Evidence[d]
    BY <1>3 DEF Evidence
  <2>3. QED
    BY <1>3, <2>1, <2>2 DEF Read!Begin, Read!Others, Read!NoList
<1>7. QED
  BY <1>3, <1>4, <1>5, <1>6

\* A read ends, with a whole list or without one.
LEMMA EndsRead ==
    ASSUME AccessInv, ListInv, NEW c \in Clients, client[c].pc # "idle",
           NEW outcome, NEW list, Ends(c, outcome, list),
           \/ outcome # "evidence" /\ list = EmptyList
           \/ Whole(list, must[c], may[c]),
           UNCHANGED objects
    PROVE  /\ SetsInv' /\ \A d \in Clients : ClientRead(d)'
           /\ Read!End(c)
           /\ client'[c].pc = "idle"
           /\ \A d \in Clients \ {c} :
                client'[d] = client[d] /\ must'[d] = must[d] /\ may'[d] = may[d]
<1>1. /\ client' = [client EXCEPT ![c] =
                      [pc |-> "idle", outcome |-> outcome, list |-> list]]
      /\ must' = [must EXCEPT ![c] = {}]
      /\ may' = [may EXCEPT ![c] = {}]
  BY DEF Ends
<1>2. /\ DOMAIN client = Clients /\ objects \subseteq Ids
      /\ must \in [Clients -> SUBSET Ids] /\ may \in [Clients -> SUBSET Ids]
  BY DEF AccessInv, ShapeInv, ListInv, SetsInv
<1>3. /\ client'[c] = [pc |-> "idle", outcome |-> outcome, list |-> list]
      /\ must'[c] = {} /\ may'[c] = {}
      /\ \A d \in Clients \ {c} :
            client'[d] = client[d] /\ must'[d] = must[d] /\ may'[d] = may[d]
  BY <1>1, <1>2
<1>4. SetsInv'
  BY <1>1, <1>2 DEF SetsInv
<1>5. \A d \in Clients : ClientRead(d)'
  <2>1. \A i \in Ids : EmptyList.count[i] \in Nat
    BY DEF EmptyList
  <2>2. \A i \in Ids : list.count[i] \in Nat
    BY <2>1 DEF Whole, Allowed
  <2>3. QED
    BY <1>3, <2>2 DEF ListInv, ClientRead
<1>6. Read!End(c)
  <2>1. c \in Reading /\ Reading' = Reading \ {c}
    BY <1>3 DEF Reading
  <2>2. /\ Evidence'[c] = IF outcome = "evidence" THEN list.count ELSE [i \in Ids |-> -1]
        /\ \A d \in Clients \ {c} : Evidence'[d] = Evidence[d]
    BY <1>3 DEF Evidence
  <2>3. outcome = "evidence" => Read!Regular(list.count, must[c], may[c])
    BY DEF Whole, Allowed, Read!Regular
  <2>4. Evidence'[c] = Read!NoList \/ Read!Regular(Evidence'[c], must[c], may[c])
    BY <2>2, <2>3 DEF Read!NoList
  <2>5. QED
    BY <1>3, <2>1, <2>2, <2>4 DEF Read!End, Read!Others
<1>7. QED
  BY <1>3, <1>4, <1>5, <1>6

\* Nothing of which a client hears.
LEMMA ReadsUntouched ==
    ASSUME ListInv, UNCHANGED <<client, must, may, objects>>
    PROVE  /\ SetsInv' /\ OwnerRead' /\ \A d \in Clients : ClientRead(d)'
           /\ UNCHANGED Read!vars
BY DEF ListInv, SetsInv, OwnerRead, ClientRead, Read!vars, Reading, Evidence

-----------------------------------------------------------------------------
(* Every step keeps the invariant and is a step of EvidenceRead, or none *)

Implemented == ListInv' /\ [Read!Next]_(Read!vars)

\* A reader's read ends, and with it the attachment of its thread.
LEMMA ThreadEnds ==
    ASSUME AccessInv, ListInv, NEW q \in Threads, thread[q].attached,
           NEW outcome, NEW list, Ends(q[1], outcome, list),
           \/ outcome # "evidence" /\ list = EmptyList
           \/ Whole(list, must[q[1]], may[q[1]]),
           ~thread'[q].attached,
           \A s \in Threads \ {q} : thread'[s] = thread[s],
           UNCHANGED objects
    PROVE  Implemented
<1>1. q[1] \in Clients /\ q[1] # Owner
  BY ThreadOfReader
<1>2. client[q[1]].pc # "idle"
  BY DEF AccessInv, AttachedInv
<1>3. /\ SetsInv' /\ \A d \in Clients : ClientRead(d)'
      /\ Read!End(q[1])
      /\ \A d \in Clients \ {q[1]} :
            client'[d] = client[d] /\ must'[d] = must[d] /\ may'[d] = may[d]
  BY <1>1, <1>2, EndsRead
<1>4. OwnerRead'
  BY <1>1, <1>3 DEF ListInv, OwnerRead, Clients
<1>5. ASSUME NEW s \in Threads PROVE ThreadRead(s)'
  <2>1. CASE s = q
    BY <2>1 DEF ThreadRead
  <2>2. CASE s # q /\ thread[s].attached
    <3>1. s[1] # q[1] /\ s[1] \in Clients
      BY <2>2, ThreadOfReader DEF AccessInv, AttachedInv
    <3>2. QED
      BY <1>3, <2>2, <3>1 DEF ListInv, ThreadRead
  <2>3. CASE s # q /\ ~thread[s].attached
    BY <2>3 DEF ThreadRead
  <2>4. QED
    BY <2>1, <2>2, <2>3
<1>6. Read!Next
  BY <1>1, <1>3 DEF Read!Next
<1>7. QED
  BY <1>3, <1>4, <1>5, <1>6 DEF Implemented, ListInv

\* A thread takes a step of which no client hears.
LEMMA ThreadGoesOn ==
    ASSUME ListInv, NEW q \in Threads, ThreadRead(q)',
           \A s \in Threads \ {q} : thread'[s] = thread[s],
           UNCHANGED <<client, must, may, objects>>
    PROVE  Implemented
<1>1. \A s \in Threads \ {q} : ThreadRead(s)'
  BY DEF ListInv, ThreadRead
<1>2. QED
  BY <1>1, ReadsUntouched DEF Implemented, ListInv

LEMMA ThreadReplies ==
    ASSUME AccessInv, ListInv, NEW q \in Threads, NEW outcome, NEW list,
           Reply(q, outcome, list),
           \/ outcome # "evidence" /\ list = EmptyList
           \/ thread[q].attached => Whole(list, must[q[1]], may[q[1]]),
           UNCHANGED objects
    PROVE  Implemented
<1>1. /\ ~thread'[q].attached
      /\ \A s \in Threads \ {q} : thread'[s] = thread[s]
  BY DEF Reply, AccessInv, ShapeInv, NoRequest
<1>2. CASE thread[q].attached
  <2>1. Ends(q[1], outcome, list)
    BY <1>2 DEF Reply
  <2>2. QED
    BY <1>1, <1>2, <2>1, ThreadEnds
<1>3. CASE ~thread[q].attached
  <2>1. UNCHANGED <<client, must, may>>
    BY <1>3 DEF Reply, history
  <2>2. ThreadRead(q)'
    BY <1>1 DEF ThreadRead
  <2>3. QED
    BY <1>1, <2>1, <2>2, ThreadGoesOn
<1>4. QED
  BY <1>2, <1>3

LEMMA ThreadImplements ==
    ASSUME AccessInv, ListInv, NEW q \in Threads, ThreadStep(q)
    PROVE  Implemented
<1>1. UNCHANGED objects
  BY DEF ThreadStep, CheckStamp, ReadGraph, FollowPage, PageFails, Answer
<1>2. /\ DOMAIN thread = Threads
      /\ thread[q] = [pc |-> thread[q].pc, attached |-> thread[q].attached,
                      age |-> thread[q].age, list |-> thread[q].list]
  BY DEF AccessInv, ShapeInv
<1>3. ASSUME NEW next, Advance(q, next), next # "answer", thread[q].pc # "answer"
      PROVE  Implemented
  <2>1. /\ thread'[q] = [pc |-> next, attached |-> thread[q].attached,
                         age |-> thread[q].age, list |-> thread[q].list]
        /\ \A s \in Threads \ {q} : thread'[s] = thread[s]
    BY <1>2, <1>3 DEF Advance
  <2>2. UNCHANGED <<client, must, may, objects>>
    BY <1>1, <1>3 DEF Advance, history
  <2>3. ThreadRead(q)'
    BY <1>3, <2>1, <2>2 DEF ListInv, ThreadRead
  <2>4. QED
    BY <2>1, <2>2, <2>3, ThreadGoesOn
<1>4. Refuse(q) => Implemented
  BY <1>1, ThreadReplies DEF Refuse
<1>5. CASE CheckStamp(q)
  BY <1>3, <1>4, <1>5 DEF CheckStamp
<1>6. CASE ReadGraph(q)
  BY <1>3, <1>4, <1>6 DEF ReadGraph
<1>7. CASE FollowPage(q)
  <2> DEFINE next == IF LastPage(thread[q].list) THEN "answer" ELSE thread[q].pc
             list == Extend(thread[q].list)
  <2>1. /\ thread[q].pc = "list"
        /\ UNCHANGED <<client, must, may, objects>>
        /\ thread' = [thread EXCEPT ![q].list = list, ![q].pc = next]
    BY <1>7 DEF FollowPage, history
  <2>2. LastPage(thread[q].list) => next = "answer"
    OBVIOUS
  <2>3. ~LastPage(thread[q].list) => next = "list"
    BY <2>1
  <2>4. ASSUME thread[q].attached
        PROVE  /\ LastPage(thread[q].list) => Whole(list, must[q[1]], may[q[1]])
               /\ ~LastPage(thread[q].list) => Partial(list, must[q[1]], may[q[1]])
    <3>1. q[1] \in Clients /\ client[q[1]].pc # "idle"
      BY <2>4, ThreadOfReader DEF AccessInv, AttachedInv
    <3>2. /\ objects \subseteq Ids
          /\ must[q[1]] \subseteq objects /\ objects \subseteq may[q[1]]
          /\ Partial(thread[q].list, must[q[1]], may[q[1]])
      BY <2>1, <2>4, <3>1 DEF ListInv, SetsInv, ClientRead, ThreadRead
    <3>3. QED
      BY <3>2, ExtendList
  <2> HIDE DEF next, list
  <2>5. /\ \A s \in Threads \ {q} : thread'[s] = thread[s]
        /\ thread'[q] = [thread[q] EXCEPT !.list = list, !.pc = next]
    BY <1>2, <2>1
  <2>6. thread'[q] = [pc |-> next, attached |-> thread[q].attached,
                      age |-> thread[q].age, list |-> list]
    BY <1>2, <2>5
  <2>7. ThreadRead(q)'
    BY <2>1, <2>2, <2>3, <2>4, <2>6 DEF ThreadRead
  <2>8. QED
    BY <2>1, <2>5, <2>7, ThreadGoesOn
<1>8. CASE PageFails(q)
  BY <1>4, <1>8 DEF PageFails
<1>9. CASE Answer(q)
  <2>1. thread[q].attached => Whole(thread[q].list, must[q[1]], may[q[1]])
    BY <1>9 DEF Answer, ListInv, ThreadRead
  <2>2. Reply(q, "evidence", thread[q].list) \/ Reply(q, "unexpected", EmptyList)
    BY <1>9 DEF Answer
  <2>3. QED
    BY <1>1, <2>1, <2>2, ThreadReplies
<1>10. QED
  BY <1>5, <1>6, <1>7, <1>8, <1>9 DEF ThreadStep

\* Objects come and go while clients read: a change as EvidenceRead has it.
LEMMA ChangeImplements ==
    ASSUME AccessInv, ListInv, ObjectChanges
    PROVE  Implemented
<1>1. /\ UNCHANGED <<client, thread>>
      /\ must' = [c \in Clients |-> must[c] \cap objects']
      /\ may' = [c \in Clients |-> IF c \in Reading THEN may[c] \cup objects' ELSE {}]
  BY DEF ObjectChanges
<1>2. objects' \subseteq Ids
  BY DEF ObjectChanges, ListInv, SetsInv
<1>3. SetsInv'
  <2>1. /\ \A c \in Clients : must[c] \cap objects' \in SUBSET Ids
        /\ \A c \in Clients : (IF c \in Reading THEN may[c] \cup objects' ELSE {}) \in SUBSET Ids
    BY <1>2 DEF ListInv, SetsInv
  <2>2. QED
    BY <1>1, <1>2, <2>1 DEF SetsInv
<1>4. /\ \A c \in Clients : c \in Reading <=> client[c].pc # "idle"
      /\ UNCHANGED <<Reading, Evidence>>
  BY <1>1 DEF Reading, Evidence
<1>5. \A c \in Clients : ClientRead(c)'
  BY <1>1, <1>4 DEF ListInv, ClientRead
<1>6. ASSUME NEW c \in Clients, client[c].pc # "idle"
      PROVE  must'[c] \subseteq must[c] /\ must[c] \subseteq may[c] /\ may[c] \subseteq may'[c]
  BY <1>1, <1>4, <1>6 DEF ListInv, ClientRead
<1>7. OwnerRead'
  <2>1. Owner \in Clients
    BY DEF Clients
  <2>2. QED
    BY <1>1, <1>6, <2>1, ChangeKeepsList DEF ListInv, OwnerRead
<1>8. ASSUME NEW q \in Threads PROVE ThreadRead(q)'
  <2>1. CASE thread[q].attached
    <3>1. q[1] \in Clients /\ client[q[1]].pc # "idle"
      BY <2>1, ThreadOfReader DEF AccessInv, AttachedInv
    <3>2. /\ must'[q[1]] \subseteq must[q[1]] /\ must[q[1]] \subseteq may[q[1]]
          /\ may[q[1]] \subseteq may'[q[1]]
      BY <1>6, <3>1
    <3>3. IF thread[q].pc = "answer" THEN Whole(thread[q].list, must[q[1]], may[q[1]])
                                     ELSE Partial(thread[q].list, must[q[1]], may[q[1]])
      BY <2>1 DEF ListInv, ThreadRead
    <3>4. IF thread[q].pc = "answer" THEN Whole(thread[q].list, must'[q[1]], may'[q[1]])
                                     ELSE Partial(thread[q].list, must'[q[1]], may'[q[1]])
      BY <3>2, <3>3, ChangeKeepsList
    <3>5. QED
      BY <1>1, <3>4 DEF ThreadRead
  <2>2. CASE ~thread[q].attached
    BY <1>1, <2>2 DEF ThreadRead
  <2>3. QED
    BY <2>1, <2>2
<1>9. Read!Change
  <2>1. \A c \in Clients : c \notin Reading => must[c] = {}
    BY <1>4 DEF ListInv, ClientRead
  <2>2. must' = [c \in Clients |-> IF c \in Reading THEN must[c] \cap objects' ELSE {}]
    BY <1>1, <2>1
  <2>3. QED
    BY <1>1, <1>2, <1>4, <2>2 DEF Read!Change
<1>10. QED
  BY <1>3, <1>5, <1>7, <1>8, <1>9 DEF Implemented, ListInv, Read!Next

\* Permits change, and time passes.
LEMMA SurroundingsImplement ==
    ASSUME AccessInv, ListInv, PermitChanges \/ Delay \/ UNCHANGED vars
    PROVE  Implemented
<1>1. UNCHANGED <<client, must, may, objects>>
  BY DEF PermitChanges, Delay, vars, history
<1>2. ASSUME NEW q \in Threads
      PROVE  /\ thread'[q].pc = thread[q].pc
             /\ thread'[q].attached = thread[q].attached
             /\ thread'[q].list = thread[q].list
  <2>1. CASE PermitChanges \/ UNCHANGED vars
    BY <2>1 DEF PermitChanges, vars
  <2>2. CASE Delay
    <3>1. thread[q] = [pc |-> thread[q].pc, attached |-> thread[q].attached,
                       age |-> thread[q].age, list |-> thread[q].list]
      BY DEF AccessInv, ShapeInv
    <3>2. \/ thread'[q] = thread[q]
          \/ thread'[q] = [thread[q] EXCEPT !.age = thread[q].age + 1]
      BY <2>2 DEF Delay
    <3>3. \/ thread'[q] = thread[q]
          \/ thread'[q] = [pc |-> thread[q].pc, attached |-> thread[q].attached,
                           age |-> thread[q].age + 1, list |-> thread[q].list]
      BY <3>1, <3>2
    <3>4. QED
      BY <3>3
  <2>3. QED
    BY <2>1, <2>2
<1>3. \A q \in Threads : ThreadRead(q)'
  BY <1>1, <1>2 DEF ListInv, ThreadRead
<1>4. QED
  BY <1>1, <1>3, ReadsUntouched DEF Implemented, ListInv

\* With the owner's process go its read and those that wait for a thread.
LEMMA RestartImplements ==
    ASSUME AccessInv, ListInv, Restart
    PROVE  Implemented
<1> DEFINE lost == {Owner} \cup {r \in Readers : client[r].pc = "waiting"}
<1>1. /\ thread' = [q \in Threads |-> NoRequest]
      /\ client' = [c \in Clients |->
                        IF c = Owner THEN NoRead
                        ELSE IF c \in lost THEN [NoRead EXCEPT !.outcome = "unexpected"]
                        ELSE client[c]]
      /\ must' = [c \in Clients |-> IF c \in lost THEN {} ELSE must[c]]
      /\ may' = [c \in Clients |-> IF c \in lost THEN {} ELSE may[c]]
      /\ UNCHANGED objects
  BY DEF Restart
<1>2. lost \in SUBSET Clients /\ Owner \in lost
  BY DEF Clients
<1> HIDE DEF lost
<1>3. /\ \A q \in Threads : ~thread'[q].attached
      /\ client'[Owner].pc = "idle"
  BY <1>1, <1>2 DEF NoRead, NoRequest
<1>4. \A c \in lost :
        /\ \/ client'[c] = [pc |-> "idle", list |-> EmptyList, outcome |-> "none"]
           \/ client'[c] = [pc |-> "idle", list |-> EmptyList, outcome |-> "unexpected"]
        /\ must'[c] = {} /\ may'[c] = {}
  BY <1>1, <1>2 DEF NoRead
<1>5. \A c \in Clients \ lost :
        client'[c] = client[c] /\ must'[c] = must[c] /\ may'[c] = may[c]
  BY <1>1, <1>2
<1>6. SetsInv'
  BY <1>1 DEF ListInv, SetsInv
<1>7. \A i \in Ids : EmptyList.count[i] \in Nat
  BY DEF EmptyList
<1>8. \A c \in Clients : ClientRead(c)'
  <2> SUFFICES ASSUME NEW c \in Clients PROVE ClientRead(c)'
    OBVIOUS
  <2>1. CASE c \in lost
    <3>1. /\ client'[c].pc = "idle" /\ client'[c].list = EmptyList
          /\ must'[c] = {} /\ may'[c] = {}
      BY <1>4, <2>1
    <3>2. QED
      BY <1>7, <3>1 DEF ClientRead
  <2>2. CASE c \notin lost
    <3>1. client'[c] = client[c] /\ must'[c] = must[c] /\ may'[c] = may[c]
      BY <1>5, <2>2
    <3>2. QED
      BY <1>1, <3>1 DEF ListInv, ClientRead
  <2>3. QED
    BY <2>1, <2>2
<1>9. OwnerRead' /\ \A q \in Threads : ThreadRead(q)'
  BY <1>3 DEF OwnerRead, ThreadRead
<1>10. Read!Stop
  <2>1. Reading' = Reading \ lost
    BY <1>4, <1>5 DEF Reading
  <2>2. \A c \in Clients : IF c \in lost THEN Evidence'[c] = Read!NoList
                                         ELSE Evidence'[c] = Evidence[c]
    BY <1>4, <1>5 DEF Evidence, Read!NoList
  <2>3. QED
    BY <1>1, <1>2, <1>4, <1>5, <2>1, <2>2 DEF Read!Stop
<1>11. QED
  BY <1>6, <1>8, <1>9, <1>10 DEF Implemented, ListInv, Read!Next

\* The owner's read begins, goes on by a page, or ends.
LEMMA OwnerImplements ==
    ASSUME AccessInv, ListInv, OwnerStep
    PROVE  Implemented
<1>1. UNCHANGED <<thread, objects>>
  BY DEF OwnerStep, OwnerStarts, OwnerPage, OwnerPageFails
<1>2. Owner \in Clients
  BY DEF Clients
<1>3. ASSUME \A d \in Clients \ {Owner} : must'[d] = must[d] /\ may'[d] = may[d]
      PROVE  \A q \in Threads : ThreadRead(q)'
  <2> TAKE q \in Threads
  <2>1. q[1] \in Clients \ {Owner}
    BY ThreadOfReader
  <2>2. QED
    BY <1>1, <1>3, <2>1 DEF ListInv, ThreadRead
<1>4. ASSUME client[Owner].pc # "idle",
             NEW outcome, NEW list, Ends(Owner, outcome, list),
             \/ outcome # "evidence" /\ list = EmptyList
             \/ Whole(list, must[Owner], may[Owner])
      PROVE  Implemented
  <2>1. /\ SetsInv' /\ \A d \in Clients : ClientRead(d)'
        /\ Read!End(Owner)
        /\ client'[Owner].pc = "idle"
        /\ \A d \in Clients \ {Owner} :
              client'[d] = client[d] /\ must'[d] = must[d] /\ may'[d] = may[d]
    BY <1>1, <1>2, <1>4, EndsRead
  <2>2. OwnerRead'
    BY <2>1 DEF OwnerRead
  <2>3. QED
    BY <1>2, <1>3, <2>1, <2>2 DEF Implemented, ListInv, Read!Next
<1>5. CASE OwnerStarts
  <2>1. Starts(Owner, "paging")
    BY <1>5 DEF OwnerStarts
  <2>2. /\ SetsInv' /\ \A d \in Clients : ClientRead(d)'
        /\ Read!Begin(Owner)
        /\ client'[Owner] = [pc |-> "paging", list |-> EmptyList, outcome |-> "none"]
        /\ \A d \in Clients \ {Owner} :
              client'[d] = client[d] /\ must'[d] = must[d] /\ may'[d] = may[d]
    BY <1>1, <1>2, <2>1, BeginsRead
  <2>3. OwnerRead'
    BY <2>2, EmptyListIsPartial DEF OwnerRead
  <2>4. QED
    BY <1>2, <1>3, <2>2, <2>3 DEF Implemented, ListInv, Read!Next
<1>6. CASE OwnerPage
  <2> DEFINE list == Extend(client[Owner].list)
  <2>1. /\ client[Owner].pc = "paging"
        /\ objects \subseteq Ids
        /\ must[Owner] \subseteq objects /\ objects \subseteq may[Owner]
        /\ client[Owner].outcome = "none"
        /\ Partial(client[Owner].list, must[Owner], may[Owner])
    BY <1>2, <1>6 DEF OwnerPage, ListInv, SetsInv, ClientRead, OwnerRead
  <2>2. /\ list.marker = NoMarker => Whole(list, must[Owner], may[Owner])
        /\ list.marker # NoMarker => Partial(list, must[Owner], may[Owner])
    BY <2>1, ExtendList
  <2>3. IF list.marker = NoMarker
        THEN Ends(Owner, "evidence", list)
        ELSE client' = [client EXCEPT ![Owner].list = list] /\ UNCHANGED history
    BY <1>6 DEF OwnerPage
  <2>4. \A i \in Ids : list.count[i] \in Nat
    <3>1. \A i \in Ids : client[Owner].list.count[i] \in Nat
      BY <1>2 DEF ListInv, ClientRead
    <3>2. QED
      BY <3>1 DEF Extend
  <2> HIDE DEF list
  <2>5. CASE list.marker = NoMarker
    BY <1>4, <2>1, <2>2, <2>3, <2>5
  <2>6. CASE list.marker # NoMarker
    <3>1. /\ DOMAIN client = Clients
          /\ client[Owner] = [pc |-> client[Owner].pc, list |-> client[Owner].list,
                              outcome |-> client[Owner].outcome]
      BY <1>2 DEF AccessInv, ShapeInv
    <3>2. /\ client'[Owner] = [client[Owner] EXCEPT !.list = list]
          /\ \A d \in Clients \ {Owner} : client'[d] = client[d]
          /\ UNCHANGED <<must, may>>
      BY <1>2, <2>3, <2>6, <3>1 DEF history
    <3>3. client'[Owner] = [pc |-> "paging", list |-> list, outcome |-> "none"]
      BY <2>1, <3>1, <3>2
    <3>4. SetsInv' /\ \A q \in Threads : ThreadRead(q)'
      BY <1>1, <1>3, <3>2 DEF ListInv, SetsInv
    <3>5. \A d \in Clients : ClientRead(d)'
      BY <1>1, <2>1, <2>4, <3>2, <3>3 DEF ListInv, ClientRead
    <3>6. OwnerRead'
      BY <2>2, <2>6, <3>2, <3>3 DEF OwnerRead
    <3>7. UNCHANGED <<Reading, Evidence>>
      BY <2>1, <3>2, <3>3 DEF Reading, Evidence
    <3>8. QED
      BY <1>1, <3>2, <3>4, <3>5, <3>6, <3>7 DEF Implemented, ListInv, Read!vars
  <2>7. QED
    BY <2>5, <2>6
<1>7. CASE OwnerPageFails
  <2>1. /\ client[Owner].pc # "idle"
        /\ Ends(Owner, "rancher", EmptyList) \/ Ends(Owner, "unexpected", EmptyList)
    BY <1>7 DEF OwnerPageFails
  <2>2. QED
    BY <1>4, <2>1
<1>8. QED
  BY <1>5, <1>6, <1>7 DEF OwnerStep

\* A reader's read begins with a new thread, or ends before its thread answers.
LEMMA ReaderImplements ==
    ASSUME AccessInv, ListInv, NEW r \in Readers, ReaderStep(r)
    PROVE  Implemented
<1>1. PICK q \in Threads :
          ReaderSends(q) \/ ReaderUnreachable(q) \/ ReaderTimesOut(q)
  BY DEF ReaderStep, Threads
<1>2. /\ DOMAIN thread = Threads /\ q[1] \in Clients /\ q[1] # Owner
      /\ thread[q] = [pc |-> thread[q].pc, attached |-> thread[q].attached,
                      age |-> thread[q].age, list |-> thread[q].list]
  BY ThreadOfReader DEF AccessInv, ShapeInv
<1>3. CASE ReaderSends(q)
  <2>1. /\ Starts(q[1], "waiting") /\ UNCHANGED objects
        /\ thread' = [thread EXCEPT ![q] =
                [pc |-> "stamp", attached |-> TRUE, age |-> 0, list |-> EmptyList]]
    BY <1>3, Zenon DEF ReaderSends
  <2>2. /\ SetsInv' /\ \A d \in Clients : ClientRead(d)'
        /\ Read!Begin(q[1])
        /\ \A d \in Clients \ {q[1]} :
              client'[d] = client[d] /\ must'[d] = must[d] /\ may'[d] = may[d]
    BY <1>2, <2>1, BeginsRead
  <2>3. OwnerRead'
    BY <1>2, <2>2 DEF ListInv, OwnerRead, Clients
  <2>4. client[q[1]].pc = "idle"
    BY <2>1 DEF Starts
  <2>5. ASSUME NEW s \in Threads PROVE ThreadRead(s)'
    <3>1. CASE s = q
      <4>1. thread'[s] = [pc |-> "stamp", attached |-> TRUE, age |-> 0, list |-> EmptyList]
        BY <1>2, <2>1, <3>1
      <4>2. QED
        BY <4>1, EmptyListIsPartial DEF ThreadRead
    <3>2. CASE s # q
      <4>1. thread'[s] = thread[s]
        BY <1>2, <2>1, <3>2
      <4>2. CASE thread[s].attached
        <5>1. s[1] # q[1] /\ s[1] \in Clients
          BY <2>4, <4>2, ThreadOfReader DEF AccessInv, AttachedInv
        <5>2. must'[s[1]] = must[s[1]] /\ may'[s[1]] = may[s[1]]
          BY <2>2, <5>1
        <5>3. QED
          BY <4>1, <5>2 DEF ListInv, ThreadRead
      <4>3. CASE ~thread[s].attached
        BY <4>1, <4>3 DEF ThreadRead
      <4>4. QED
        BY <4>2, <4>3
    <3>3. QED
      BY <3>1, <3>2
  <2>6. QED
    BY <1>2, <2>2, <2>3, <2>5 DEF Implemented, ListInv, Read!Next
<1>4. CASE ReaderUnreachable(q)
  <2>1. /\ thread[q].attached /\ Ends(q[1], "rancher", EmptyList)
        /\ thread' = [thread EXCEPT ![q] = NoRequest] /\ UNCHANGED objects
    BY <1>4 DEF ReaderUnreachable
  <2>2. ~thread'[q].attached /\ \A s \in Threads \ {q} : thread'[s] = thread[s]
    BY <1>2, <2>1 DEF NoRequest
  <2>3. QED
    BY <2>1, <2>2, ThreadEnds
<1>5. CASE ReaderTimesOut(q)
  <2>1. /\ thread[q].attached /\ Ends(q[1], "unexpected", EmptyList)
        /\ thread' = [thread EXCEPT ![q].attached = FALSE] /\ UNCHANGED objects
    BY <1>5 DEF ReaderTimesOut
  <2>2. /\ thread'[q] = [thread[q] EXCEPT !.attached = FALSE]
        /\ \A s \in Threads \ {q} : thread'[s] = thread[s]
    BY <1>2, <2>1
  <2>3. ~thread'[q].attached
    BY <1>2, <2>2
  <2>4. QED
    BY <2>1, <2>2, <2>3, ThreadEnds
<1>6. QED
  BY <1>1, <1>3, <1>4, <1>5

LEMMA NextImplements ==
    ASSUME AccessInv, ListInv, [Next]_vars
    PROVE  Implemented
<1>1. CASE \E r \in Readers : ReaderStep(r)
  BY <1>1, ReaderImplements
<1>2. CASE \E q \in Threads : ThreadStep(q)
  BY <1>2, ThreadImplements
<1>3. QED
  BY <1>1, <1>2, ChangeImplements, SurroundingsImplement, RestartImplements,
     OwnerImplements DEF Next

\* Following pages with the token, or asking the proxy that does, implements
\* EvidenceRead (rancher_client.py's pagination fails closed): a list a validator
\* scores with has every object that was there during the whole read, none that
\* was at no time there and none twice.  It holds for any collection and page size,
\* with objects coming and going between pages, for any number of readers and of
\* requests they gave up on, for all failures of pages, chain, network, answers and
\* processes.
THEOREM ReadsAreRegular == Spec => EvidenceSpec
<1>1. Init => AccessInv /\ ListInv /\ Read!Init
  BY AccessInvInit, ListInvInit
<1>2. AccessInv /\ ListInv /\ [Next]_vars
          => AccessInv' /\ ListInv' /\ [Read!Next]_(Read!vars)
  BY NextKeepsInv, NextImplements DEF Implemented
<1>3. Spec => Read!Init /\ [][Read!Next]_(Read!vars)
  BY <1>1, <1>2, PTL DEF Spec
<1>4. QED
  BY <1>3 DEF EvidenceSpec, Read!Spec

-----------------------------------------------------------------------------
(* Types *)

Surroundings == <<permit, profile, minVersion>>

ClientTypes(c) ==
    /\ client[c].pc \in {"idle", IF c = Owner THEN "paging" ELSE "waiting"}
    /\ client[c].outcome \in {"none", "evidence", "rancher", "unexpected"}

\* A reader that waits has a thread to wait for.
WaitsForThread(r) ==
    client[r].pc = "waiting" => \E q \in {r} \X Slots : thread[q].attached

TypeInv ==
    /\ permit \subseteq Readers /\ entitled \subseteq Clients
    /\ profile \in [Readers -> Profiles] /\ minVersion \in MinVersions
    /\ \A c \in Clients : ClientTypes(c)
    /\ \A q \in Threads : thread[q].pc \in {"free", "stamp", "graph", "list", "answer"}
    /\ \A r \in Readers : WaitsForThread(r)

LEMMA TypeInvInit == Init => TypeInv
BY DEF Init, TypeInv, ClientTypes, WaitsForThread, NoRead, NoRequest, Clients

LEMMA EndKeepsTypes ==
    ASSUME AccessInv, TypeInv, NEW q \in Threads, thread[q].attached,
           NEW outcome \in {"evidence", "rancher", "unexpected"}, NEW list,
           Ends(q[1], outcome, list),
           thread'[q].pc \in {"free", "stamp", "graph", "list", "answer"},
           \A s \in Threads \ {q} : thread'[s] = thread[s],
           UNCHANGED Surroundings
    PROVE  TypeInv'
<1>1. q[1] \in Readers /\ q[1] \in Clients /\ q[1] # Owner
  BY ThreadOfReader
<1>2. /\ client'[q[1]] = [pc |-> "idle", outcome |-> outcome, list |-> list]
      /\ \A c \in Clients \ {q[1]} : client'[c] = client[c]
      /\ UNCHANGED entitled
  BY <1>1 DEF Ends, AccessInv, ShapeInv
<1>3. \A c \in Clients : ClientTypes(c)'
  BY <1>2 DEF TypeInv, ClientTypes
<1>4. ASSUME NEW r \in Readers, client'[r].pc = "waiting"
      PROVE  \E s \in {r} \X Slots : thread'[s].attached
  <2>1. r # q[1] /\ r \in Clients
    BY <1>2, <1>4 DEF Clients
  <2>2. client[r].pc = "waiting"
    BY <1>2, <1>4, <2>1
  <2>3. PICK s \in {r} \X Slots : thread[s].attached
    BY <2>2 DEF TypeInv, WaitsForThread
  <2>4. s # q /\ s \in Threads
    BY <2>1 DEF Threads
  <2>5. QED
    BY <2>3, <2>4
<1>5. QED
  BY <1>2, <1>3, <1>4 DEF TypeInv, WaitsForThread, Surroundings

LEMMA ReplyKeepsTypes ==
    ASSUME AccessInv, TypeInv, NEW q \in Threads,
           NEW outcome \in {"evidence", "rancher", "unexpected"}, NEW list,
           Reply(q, outcome, list), UNCHANGED Surroundings
    PROVE  TypeInv'
<1>1. /\ thread'[q].pc = "free"
      /\ \A s \in Threads \ {q} : thread'[s] = thread[s]
  BY DEF Reply, AccessInv, ShapeInv, NoRequest
<1>2. CASE thread[q].attached
  <2>1. Ends(q[1], outcome, list)
    BY <1>2 DEF Reply
  <2>2. QED
    BY <1>1, <1>2, <2>1, EndKeepsTypes
<1>3. CASE ~thread[q].attached
  <2>1. UNCHANGED <<client, entitled>>
    BY <1>3 DEF Reply, history
  <2>2. \A s \in Threads : thread[s].attached => thread'[s].attached
    BY <1>1, <1>3
  <2>3. \A r \in Readers : WaitsForThread(r)'
    BY <2>1, <2>2 DEF TypeInv, WaitsForThread, Threads
  <2>4. QED
    BY <1>1, <2>1, <2>3 DEF TypeInv, ClientTypes, Surroundings
<1>4. QED
  BY <1>2, <1>3

\* Threads keep their attachment, and no client hears of the step.
LEMMA SilentKeepsTypes ==
    ASSUME TypeInv, UNCHANGED <<client, entitled>>, UNCHANGED Surroundings,
           \A q \in Threads :
              /\ thread'[q].pc \in {"free", "stamp", "graph", "list", "answer"}
              /\ thread'[q].attached = thread[q].attached
    PROVE  TypeInv'
<1>1. \A r \in Readers : WaitsForThread(r)'
  BY DEF TypeInv, WaitsForThread, Threads
<1>2. QED
  BY <1>1 DEF TypeInv, ClientTypes, Surroundings

LEMMA ThreadKeepsTypes ==
    ASSUME AccessInv, TypeInv, NEW q \in Threads, ThreadStep(q)
    PROVE  TypeInv'
<1>1. UNCHANGED Surroundings
  BY DEF ThreadStep, CheckStamp, ReadGraph, FollowPage, PageFails, Answer, Surroundings
<1>2. /\ DOMAIN thread = Threads
      /\ thread[q] = [pc |-> thread[q].pc, attached |-> thread[q].attached,
                      age |-> thread[q].age, list |-> thread[q].list]
      /\ \A s \in Threads : thread[s].pc \in {"free", "stamp", "graph", "list", "answer"}
  BY DEF AccessInv, ShapeInv, TypeInv
<1>3. Refuse(q) => TypeInv'
  BY <1>1, ReplyKeepsTypes DEF Refuse
<1>4. ASSUME NEW next \in {"free", "stamp", "graph", "list", "answer"}, NEW list,
             DOMAIN thread' = Threads,
             thread'[q] = [pc |-> next, attached |-> thread[q].attached,
                           age |-> thread[q].age, list |-> list],
             \A s \in Threads \ {q} : thread'[s] = thread[s],
             UNCHANGED <<client, history>>
      PROVE  TypeInv'
  <2>1. \A s \in Threads :
              /\ thread'[s].pc \in {"free", "stamp", "graph", "list", "answer"}
              /\ thread'[s].attached = thread[s].attached
    BY <1>2, <1>4
  <2>2. UNCHANGED <<client, entitled>>
    BY <1>4 DEF history
  <2>3. QED
    BY <1>1, <2>1, <2>2, SilentKeepsTypes
<1>5. ASSUME NEW next \in {"free", "stamp", "graph", "list", "answer"}, Advance(q, next)
      PROVE  TypeInv'
  <2>1. /\ DOMAIN thread' = Threads
        /\ thread'[q] = [pc |-> next, attached |-> thread[q].attached,
                         age |-> thread[q].age, list |-> thread[q].list]
        /\ \A s \in Threads \ {q} : thread'[s] = thread[s]
        /\ UNCHANGED <<client, history>>
    BY <1>2, <1>5 DEF Advance
  <2> DEFINE list == thread[q].list
  <2>2. thread'[q] = [pc |-> next, attached |-> thread[q].attached,
                      age |-> thread[q].age, list |-> list]
    BY <2>1
  <2> HIDE DEF list
  <2>3. QED
    BY <1>4, <2>1, <2>2
<1>6. CASE CheckStamp(q)
  BY <1>3, <1>5, <1>6 DEF CheckStamp
<1>7. CASE ReadGraph(q)
  BY <1>3, <1>5, <1>7 DEF ReadGraph
<1>8. CASE FollowPage(q)
  <2> DEFINE next == IF LastPage(thread[q].list) THEN "answer" ELSE thread[q].pc
             list == Extend(thread[q].list)
  <2>1. /\ UNCHANGED <<client, history>>
        /\ thread' = [thread EXCEPT ![q].list = list, ![q].pc = next]
        /\ next \in {"free", "stamp", "graph", "list", "answer"}
    BY <1>2, <1>8 DEF FollowPage
  <2> HIDE DEF next, list
  <2>2. /\ DOMAIN thread' = Threads
        /\ \A s \in Threads \ {q} : thread'[s] = thread[s]
        /\ thread'[q] = [thread[q] EXCEPT !.list = list, !.pc = next]
    BY <1>2, <2>1
  <2>3. thread'[q] = [pc |-> next, attached |-> thread[q].attached,
                      age |-> thread[q].age, list |-> list]
    BY <1>2, <2>2
  <2>4. QED
    BY <1>4, <2>1, <2>2, <2>3
<1>9. CASE PageFails(q)
  BY <1>3, <1>9 DEF PageFails
<1>10. CASE Answer(q)
  <2>1. Reply(q, "evidence", thread[q].list) \/ Reply(q, "unexpected", EmptyList)
    BY <1>10 DEF Answer
  <2>2. QED
    BY <1>1, <2>1, ReplyKeepsTypes
<1>11. QED
  BY <1>6, <1>7, <1>8, <1>9, <1>10 DEF ThreadStep

LEMMA SurroundingsKeepTypes ==
    ASSUME AccessInv, TypeInv, ObjectChanges \/ PermitChanges \/ Delay \/ UNCHANGED vars
    PROVE  TypeInv'
<1>1. CASE ObjectChanges \/ UNCHANGED vars
  BY <1>1 DEF ObjectChanges, vars, history, TypeInv, ClientTypes, WaitsForThread
<1>2. CASE PermitChanges
  <2>1. /\ UNCHANGED <<client, thread, profile, minVersion>>
        /\ entitled' = entitled \cup (permit' \cap Reading)
    BY <1>2 DEF PermitChanges
  <2>2. permit' \subseteq Readers
    BY <1>2 DEF PermitChanges, TypeInv
  <2>3. QED
    BY <2>1, <2>2 DEF TypeInv, ClientTypes, WaitsForThread, Reading
<1>3. CASE Delay
  <2>1. /\ UNCHANGED <<client, entitled>> /\ UNCHANGED Surroundings
        /\ thread' = [q \in Threads |->
                        IF thread[q].attached \/ thread[q].pc = "stamp"
                        THEN [thread[q] EXCEPT !.age = @ + 1] ELSE thread[q]]
    BY <1>3 DEF Delay, history, Surroundings
  <2>2. \A q \in Threads :
          /\ thread'[q].pc \in {"free", "stamp", "graph", "list", "answer"}
          /\ thread'[q].attached = thread[q].attached
    <3> TAKE q \in Threads
    <3>1. /\ thread[q] = [pc |-> thread[q].pc, attached |-> thread[q].attached,
                          age |-> thread[q].age, list |-> thread[q].list]
          /\ thread[q].pc \in {"free", "stamp", "graph", "list", "answer"}
      BY DEF AccessInv, ShapeInv, TypeInv
    <3>2. \/ thread'[q] = thread[q]
          \/ thread'[q] = [thread[q] EXCEPT !.age = thread[q].age + 1]
      BY <2>1
    <3>3. \/ thread'[q] = thread[q]
          \/ thread'[q] = [pc |-> thread[q].pc, attached |-> thread[q].attached,
                           age |-> thread[q].age + 1, list |-> thread[q].list]
      BY <3>1, <3>2
    <3>4. QED
      BY <3>1, <3>3
  <2>3. QED
    BY <2>1, <2>2, SilentKeepsTypes
<1>4. QED
  BY <1>1, <1>2, <1>3

\* After a restart no reader waits.
LEMMA RestartKeepsTypes ==
    ASSUME AccessInv, TypeInv, Restart
    PROVE  TypeInv'
<1> DEFINE lost == {Owner} \cup {r \in Readers : client[r].pc = "waiting"}
<1>1. /\ \A q \in Threads : thread'[q] = NoRequest
      /\ UNCHANGED <<permit, profile, entitled>> /\ minVersion' \in MinVersions
  BY DEF Restart
<1>2. client' = [c \in Clients |->
                    IF c = Owner THEN NoRead
                    ELSE IF c \in lost THEN [NoRead EXCEPT !.outcome = "unexpected"]
                    ELSE client[c]]
  BY DEF Restart
<1>3. \A c \in Clients :
          \/ client'[c] = client[c] /\ c \notin lost
          \/ client'[c] = [pc |-> "idle", list |-> EmptyList, outcome |-> "none"]
          \/ client'[c] = [pc |-> "idle", list |-> EmptyList, outcome |-> "unexpected"]
  BY <1>2 DEF NoRead
<1>4. \A c \in Clients : ClientTypes(c)'
  BY <1>3 DEF TypeInv, ClientTypes
<1>5. \A r \in Readers : r \in Clients /\ client'[r].pc # "waiting"
  BY <1>3 DEF Clients
<1>6. QED
  BY <1>1, <1>4, <1>5 DEF TypeInv, WaitsForThread, NoRequest

LEMMA OwnerKeepsTypes ==
    ASSUME AccessInv, TypeInv, OwnerStep
    PROVE  TypeInv'
<1>1. UNCHANGED thread /\ UNCHANGED Surroundings
  BY DEF OwnerStep, OwnerStarts, OwnerPage, OwnerPageFails, Surroundings
<1>2. /\ DOMAIN client = Clients /\ Owner \in Clients
      /\ client[Owner] = [pc |-> client[Owner].pc, list |-> client[Owner].list,
                          outcome |-> client[Owner].outcome]
      /\ ClientTypes(Owner)
  BY DEF AccessInv, ShapeInv, Clients, TypeInv
<1>3. /\ ClientTypes(Owner)'
      /\ \A c \in Clients \ {Owner} : client'[c] = client[c]
      /\ entitled' \subseteq Clients
  <2>1. ASSUME NEW outcome \in {"evidence", "rancher", "unexpected"}, NEW list,
               Ends(Owner, outcome, list)
        PROVE  <1>3!:
    <3>1. /\ client'[Owner] = [pc |-> "idle", outcome |-> outcome, list |-> list]
          /\ \A c \in Clients \ {Owner} : client'[c] = client[c]
          /\ UNCHANGED entitled
      BY <1>2, <2>1 DEF Ends
    <3>2. QED
      BY <3>1 DEF ClientTypes, TypeInv
  <2>2. CASE OwnerStarts
    <3>1. /\ client' = [client EXCEPT ![Owner] =
                          [pc |-> "paging", list |-> EmptyList, outcome |-> "none"]]
          /\ entitled' = (entitled \ {Owner}) \cup ({Owner} \cap permit)
      BY <2>2, StartOfRead DEF OwnerStarts, Starts
    <3>2. /\ client'[Owner] = [pc |-> "paging", list |-> EmptyList, outcome |-> "none"]
          /\ \A c \in Clients \ {Owner} : client'[c] = client[c]
      BY <1>2, <3>1
    <3>3. QED
      BY <1>2, <3>1, <3>2 DEF ClientTypes, TypeInv
  <2>3. CASE OwnerPage
    <3> DEFINE list == Extend(client[Owner].list)
    <3>1. \/ Ends(Owner, "evidence", list)
          \/ client' = [client EXCEPT ![Owner].list = list] /\ UNCHANGED entitled
      BY <2>3 DEF OwnerPage, history
    <3> HIDE DEF list
    <3>2. CASE client' = [client EXCEPT ![Owner].list = list] /\ UNCHANGED entitled
      <4>1. /\ client'[Owner] = [client[Owner] EXCEPT !.list = list]
            /\ \A c \in Clients \ {Owner} : client'[c] = client[c]
        BY <1>2, <3>2
      <4>2. client'[Owner] = [pc |-> client[Owner].pc, list |-> list,
                              outcome |-> client[Owner].outcome]
        BY <1>2, <4>1
      <4>3. QED
        BY <1>2, <3>2, <4>1, <4>2 DEF ClientTypes, TypeInv
    <3>3. QED
      BY <2>1, <3>1, <3>2
  <2>4. CASE OwnerPageFails
    BY <2>1, <2>4 DEF OwnerPageFails
  <2>5. QED
    BY <2>2, <2>3, <2>4 DEF OwnerStep
<1>4. \A c \in Clients : ClientTypes(c)'
  BY <1>3 DEF TypeInv, ClientTypes
<1>5. \A r \in Readers : WaitsForThread(r)'
  <2>1. \A r \in Readers : r \in Clients \ {Owner}
    BY AccessAssumption DEF Clients
  <2>2. QED
    BY <1>1, <1>3, <2>1 DEF TypeInv, WaitsForThread
<1>6. QED
  BY <1>1, <1>3, <1>4, <1>5 DEF TypeInv, Surroundings

LEMMA ReaderKeepsTypes ==
    ASSUME AccessInv, TypeInv, NEW r \in Readers, ReaderStep(r)
    PROVE  TypeInv'
<1>1. PICK q \in {r} \X Slots :
          ReaderSends(q) \/ ReaderUnreachable(q) \/ ReaderTimesOut(q)
  BY DEF ReaderStep
<1>2. /\ q \in Threads /\ q[1] = r /\ r \in Clients /\ r # Owner
      /\ DOMAIN thread = Threads /\ DOMAIN client = Clients
  BY AccessAssumption DEF AccessInv, ShapeInv, Threads, Clients
<1>3. CASE ReaderSends(q)
  <2>1. /\ Starts(q[1], "waiting") /\ UNCHANGED <<permit, profile, minVersion>>
        /\ thread' = [thread EXCEPT ![q] =
                [pc |-> "stamp", attached |-> TRUE, age |-> 0, list |-> EmptyList]]
    BY <1>3, Zenon DEF ReaderSends
  <2>2. /\ client' = [client EXCEPT ![r] =
                        [pc |-> "waiting", list |-> EmptyList, outcome |-> "none"]]
        /\ entitled' = (entitled \ {r}) \cup ({r} \cap permit)
        /\ client[r].pc = "idle"
    BY <1>2, <2>1, StartOfRead DEF Starts
  <2>3. /\ client'[r] = [pc |-> "waiting", list |-> EmptyList, outcome |-> "none"]
        /\ \A c \in Clients \ {r} : client'[c] = client[c]
        /\ thread'[q] = [pc |-> "stamp", attached |-> TRUE, age |-> 0, list |-> EmptyList]
        /\ \A s \in Threads \ {q} : thread'[s] = thread[s]
    BY <1>2, <2>1, <2>2
  <2>4. \A c \in Clients : ClientTypes(c)'
    BY <1>2, <2>3 DEF TypeInv, ClientTypes
  <2>5. ASSUME NEW x \in Readers PROVE WaitsForThread(x)'
    <3>1. CASE x = r
      BY <1>2, <2>3, <3>1 DEF WaitsForThread
    <3>2. CASE x # r /\ client[x].pc = "waiting"
      <4>1. PICK s \in {x} \X Slots : thread[s].attached
        BY <3>2 DEF TypeInv, WaitsForThread
      <4>2. s # q /\ s \in Threads
        BY <3>2, <1>2 DEF Threads
      <4>3. QED
        BY <2>3, <4>1, <4>2 DEF WaitsForThread
    <3>3. CASE x # r /\ client[x].pc # "waiting"
      BY <2>3, <3>3 DEF WaitsForThread, Clients
    <3>4. QED
      BY <3>1, <3>2, <3>3
  <2>6. \A s \in Threads : thread'[s].pc \in {"free", "stamp", "graph", "list", "answer"}
    BY <2>3 DEF TypeInv
  <2>7. QED
    BY <1>2, <2>1, <2>2, <2>4, <2>5, <2>6 DEF TypeInv
<1>4. CASE ReaderUnreachable(q)
  <2>1. /\ thread[q].attached /\ Ends(q[1], "rancher", EmptyList)
        /\ thread' = [thread EXCEPT ![q] = NoRequest] /\ UNCHANGED Surroundings
    BY <1>4 DEF ReaderUnreachable, Surroundings
  <2>2. /\ thread'[q].pc = "free"
        /\ \A s \in Threads \ {q} : thread'[s] = thread[s]
    BY <1>2, <2>1 DEF NoRequest
  <2>3. QED
    BY <1>2, <2>1, <2>2, EndKeepsTypes
<1>5. CASE ReaderTimesOut(q)
  <2>1. /\ thread[q].attached /\ Ends(q[1], "unexpected", EmptyList)
        /\ thread' = [thread EXCEPT ![q].attached = FALSE] /\ UNCHANGED Surroundings
    BY <1>5 DEF ReaderTimesOut, Surroundings
  <2>2. /\ thread'[q] = [thread[q] EXCEPT !.attached = FALSE]
        /\ \A s \in Threads \ {q} : thread'[s] = thread[s]
    BY <1>2, <2>1
  <2>3. thread'[q].pc = thread[q].pc
    BY <1>2, <2>2 DEF AccessInv, ShapeInv
  <2>4. thread'[q].pc \in {"free", "stamp", "graph", "list", "answer"}
    BY <1>2, <2>3 DEF TypeInv
  <2>5. QED
    BY <1>2, <2>1, <2>2, <2>4, EndKeepsTypes
<1>6. QED
  BY <1>1, <1>3, <1>4, <1>5

LEMMA NextKeepsTypes ==
    ASSUME AccessInv, TypeInv, [Next]_vars
    PROVE  TypeInv'
<1>1. CASE \E r \in Readers : ReaderStep(r)
  BY <1>1, ReaderKeepsTypes
<1>2. CASE \E q \in Threads : ThreadStep(q)
  BY <1>2, ThreadKeepsTypes
<1>3. QED
  BY <1>1, <1>2, SurroundingsKeepTypes, RestartKeepsTypes, OwnerKeepsTypes DEF Next

\* A reader has one attached thread if it waits and none if it does not.
LEMMA OneThreadEach ==
    ASSUME AccessInv, TypeInv, NEW r \in Readers
    PROVE  LET mine == {q \in {r} \X Slots : thread[q].attached}
           IN  Cardinality(mine) = IF client[r].pc = "waiting" THEN 1 ELSE 0
<1> DEFINE mine == {q \in {r} \X Slots : thread[q].attached}
<1>1. \A q \in mine : q \in Threads /\ q[1] = r /\ thread[q].attached
  BY DEF Threads
<1>2. CASE client[r].pc = "waiting"
  <2>1. PICK q \in mine : TRUE
    BY <1>2 DEF TypeInv, WaitsForThread
  <2>2. mine = {q}
    BY <1>1, <2>1 DEF AccessInv, AttachedInv
  <2>3. Cardinality({q}) = 1
    BY FS_Singleton
  <2>4. QED
    BY <1>2, <2>2, <2>3
<1>3. CASE client[r].pc # "waiting"
  <2>1. mine = {}
    BY <1>1, <1>3 DEF AccessInv, AttachedInv
  <2>2. Cardinality({}) = 0
    BY FS_EmptySet
  <2>3. QED
    BY <1>3, <2>1, <2>2
<1>4. QED
  BY <1>2, <1>3

\* Every variable keeps its type, a reader waits for exactly one thread of the
\* proxy and no thread answers a reader that has given up: also after requests
\* that timed out, were lost, or died with the owner's process.
THEOREM AccessTypes == Spec => []TypeOK
<1>1. Init => AccessInv /\ ListInv /\ TypeInv
  BY AccessInvInit, ListInvInit, TypeInvInit
<1>2. AccessInv /\ ListInv /\ TypeInv /\ [Next]_vars => AccessInv' /\ ListInv' /\ TypeInv'
  BY NextKeepsInv, NextImplements, NextKeepsTypes DEF Implemented
<1>3. AccessInv /\ ListInv /\ TypeInv => TypeOK
  <2> SUFFICES ASSUME AccessInv, ListInv, TypeInv PROVE TypeOK
    OBVIOUS
  <2>1. ASSUME NEW c \in Clients
        PROVE  /\ must[c] \subseteq may[c] /\ may[c] \subseteq Ids
               /\ \A i \in Ids : client[c].list.count[i] \in Nat
    BY DEF ListInv, SetsInv, ClientRead
  <2>2. \A c \in Clients : ClientTypes(c)
    BY DEF TypeInv
  <2>3. \A r \in Readers :
          LET mine == {q \in {r} \X Slots : thread[q].attached}
          IN  Cardinality(mine) = IF client[r].pc = "waiting" THEN 1 ELSE 0
    BY OneThreadEach
  <2>4. QED
    BY <2>1, <2>2, <2>3 DEF TypeOK, TypeInv, ClientTypes, ListInv, SetsInv
<1>4. QED
  BY <1>1, <1>2, <1>3, PTL DEF Spec
=============================================================================
