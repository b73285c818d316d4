------------------------------ MODULE MCDeposit ------------------------------
(***************************************************************************)
(* Instances of the deposit protocol: deposits on transactions of their    *)
(* own, two outputs of one transaction, and an account no person has.      *)
(***************************************************************************)
EXTENDS Deposit

CONSTANTS d1, d2

MCAmount == [d \in Dep |-> IF d = d1 THEN 2 ELSE 3]
Alone == [d \in Dep |-> d]
Together == [d \in Dep |-> "batch"]
Second == {d2}
None == {}
=============================================================================
