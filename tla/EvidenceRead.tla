---------------------------- MODULE EvidenceRead ----------------------------
(***************************************************************************)
(* What reading a collection of Rancher promises to whoever scores with    *)
(* it: either no evidence at all, or a list that holds everything which    *)
(* was there during the whole read, nothing that was at no time there, and *)
(* nothing twice.  The read is not a snapshot: what comes or goes while it *)
(* lasts may be on the list or not.                                        *)
(***************************************************************************)
EXTENDS Integers

CONSTANTS Ids,      \* what the collection may hold
          Clients   \* who reads it

VARIABLES
    objects,    \* what it holds
    reading,    \* the clients whose read is under way
    must,       \* per client: what was there all the time of its read so far
    may,        \* per client: what was there at some time of it
    evidence    \* per client: how often its last list has each id, or NoList

vars == <<objects, reading, must, may, evidence>>

NoList == [i \in Ids |-> -1]

Init ==
    /\ objects \in SUBSET Ids
    /\ reading = {}
    /\ must = [c \in Clients |-> {}] /\ may = must
    /\ evidence = [c \in Clients |-> NoList]

\* An object comes or goes.
Change ==
    /\ objects' \in SUBSET Ids
    /\ must' = [c \in Clients |-> IF c \in reading THEN must[c] \cap objects' ELSE {}]
    /\ may'  = [c \in Clients |-> IF c \in reading THEN may[c] \cup objects' ELSE {}]
    /\ UNCHANGED <<reading, evidence>>

Others(c) == \A d \in Clients \ {c} :
    /\ must'[d] = must[d] /\ may'[d] = may[d] /\ evidence'[d] = evidence[d]

\* A client begins to read and gives up the evidence it had.
Begin(c) ==
    /\ c \notin reading /\ reading' = reading \cup {c}
    /\ must'[c] = objects /\ may'[c] = objects /\ evidence'[c] = NoList
    /\ Others(c)
    /\ UNCHANGED objects

Regular(list, lower, upper) ==
    \A i \in Ids : list[i] \in (IF i \in lower THEN {1}
                                ELSE IF i \in upper THEN {0, 1} ELSE {0})

\* The read ends, with a regular list or without one.
End(c) ==
    /\ c \in reading /\ reading' = reading \ {c}
    /\ evidence'[c] = NoList \/ Regular(evidence'[c], must[c], may[c])
    /\ must'[c] = {} /\ may'[c] = {}
    /\ Others(c)
    /\ UNCHANGED objects

\* The processes of some clients stop: their reads and their evidence are gone.
Stop ==
    /\ \E gone \in SUBSET Clients :
        /\ reading' = reading \ gone
        /\ \A c \in Clients :
            IF c \in gone
            THEN must'[c] = {} /\ may'[c] = {} /\ evidence'[c] = NoList
            ELSE must'[c] = must[c] /\ may'[c] = may[c] /\ evidence'[c] = evidence[c]
    /\ UNCHANGED objects

Next == Change \/ (\E c \in Clients : Begin(c) \/ End(c)) \/ Stop

Spec == Init /\ [][Next]_vars
=============================================================================
