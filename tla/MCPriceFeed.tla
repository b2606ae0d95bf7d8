----------------------------- MODULE MCPriceFeed -----------------------------
(* Constants for the runs of PriceFeed. *)
EXTENDS PriceFeed

MCReaders == {"reader"}
MCPrices  == {300, 350}
MCRate    == {20}
=============================================================================
