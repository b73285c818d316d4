------------------------------ MODULE MCLedger ------------------------------
(***************************************************************************)
(* A wallet of three operations.  The amounts make every case of complete  *)
(* happen (an absent, a partial, an exact and an excessive part) and make  *)
(* two debits compete for the funds.                                       *)
(***************************************************************************)
EXTENDS Ledger

MCAmounts == {-3, -2, 2, 3}
MCParts   == {0, 1, 2, 4}
=============================================================================
