----------------------------- MODULE MCWithdraw -----------------------------
(***************************************************************************)
(* Instances of the withdrawal protocol.  The funds of two withdrawals     *)
(* cover one at a time or both, depending on Initial.                      *)
(***************************************************************************)
EXTENDS WithdrawProtocol, TLC

MCAmount == [t \in Tx |-> 2]
Symmetry == Permutations(Tx) \cup Permutations(Loops) \cup Permutations(Workers)
=============================================================================
