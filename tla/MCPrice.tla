------------------------------ MODULE MCPrice ------------------------------
(***************************************************************************)
(* Two hours and a half, three prices and two calls of summarize.          *)
(***************************************************************************)
EXTENDS PriceHistory

MCPrices == {1, 2, 3}
MCFaults == {"crash", "db"}
=============================================================================
