--------------------------- MODULE MCCardExchange ---------------------------
(* Constants for the runs of CardExchange. *)
EXTENDS CardExchange, TLC

CONSTANTS r1, r2

MCReaders == {r1, r2}
MCClasses == {"H100", "B200"}
MCDefault == [k \in MCClasses |-> IF k = "H100" THEN 400 ELSE 800]
MCNone    == [k \in {} |-> 0]

\* The publisher raised its H100 price; the readers run the compiled-in card.
MCOwn == [v \in {r1, r2, "publisher"} |->
            IF v = "publisher" THEN [MCDefault EXCEPT !["H100"] = 440]
            ELSE MCDefault]

Obj(version, prices, floors, pricing) ==
    [version |-> version, epoch |-> 0, prices |-> prices, floors |-> floors,
     pricing |-> pricing]

\* Objects an owner (or a bug in another writer) may leave in the store: prices
\* far out of the envelope, floors out of band or of an unknown class, no
\* switches, a refused price, an unknown class, another version.
MCHandEdits ==
    LET h(p) == [k \in {"H100"} |-> p]
    IN  { Obj(1, h(40), [k \in {"H100", "TPU"} |-> 10], MCNone),
          Obj(1, h(9000), [k \in {"B200"} |-> 9000],
              [s \in {"lium"} |-> TRUE]),
          Obj(1, [k \in MCClasses |-> IF k = "H100" THEN 400 ELSE 0], MCNone, MCNone),
          Obj(1, [k \in {"TPU"} |-> 100], MCNone, MCNone),
          Obj(2, MCDefault, MCNone, MCNone) }

NoEdits == {}

\* Readers do not meet: one is enough where liveness rules symmetry out.
OneReader == {r1}
OneOwn    == [v \in {r1, "publisher"} |-> MCOwn[v]]

Symmetry == Permutations(MCReaders)
=============================================================================
