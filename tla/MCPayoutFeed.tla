---------------------------- MODULE MCPayoutFeed ----------------------------
(* Constants for the runs of PayoutFeed. *)
EXTENDS PayoutFeed

MCClasses == {"H100", "B200"}
MCDefault == [k \in MCClasses |-> IF k = "H100" THEN 400 ELSE 800]
\* The owner raised its H100 price; the reader runs the compiled-in card.
MCOwn     == [v \in {"reader", "owner"} |->
                IF v = "owner" THEN [MCDefault EXCEPT !["H100"] = 440] ELSE MCDefault]
MCReaders == {"reader"}
MCFloors  == [k \in {"H100"} |-> 320]

Row(k, unit, max) == [klass |-> k, unitRate |-> unit, maxPrice |-> max]
\* A full answer (two rates of one class, and a class that supplies nothing), one
\* with a zero rate, a CPU row and a price above the card, and no usable row.
FullRows  == {Row("H100", 350, 500), Row("H100", 200, 500), Row("B200", Null, 700)}
ZeroRows  == {Row("H100", 0, 500), Row("CPU", 20, 20), Row("B200", 900, 900)}
NoRows    == {Row("CPU", 20, 20), Row("H100", Null, 0)}
MCTargon  == {FullRows, ZeroRows, NoRows}

LiumRow(k, rented, all) == [klass |-> k, rented |-> rented, all |-> all]
MCLium == {{LiumRow("H100", 300, 250), LiumRow("H100", Null, 380)}, {}}

\* Clamped, and every switch on; with all of them off a validator pays its card.
MCModes   == {DefaultPricing, [s \in Switches |-> TRUE]}
=============================================================================
