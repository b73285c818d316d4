----------------------------- MODULE BalanceOps -----------------------------
(***************************************************************************)
(* The operations of src/db/models/person/balancesOps.ts on the wallet of  *)
(* one user in one currency.                                               *)
(*                                                                         *)
(* A wallet is the sub-document currencies.<currency> of a person: the     *)
(* available and locked balances, and the array of pending operations, of  *)
(* which the model keeps the amount under the operation's opid.  Amounts   *)
(* are counted in the smallest unit of the currency, so they are integers. *)
(*                                                                         *)
(* Every operator takes the wallet before the call and gives the wallet    *)
(* after it; the Can... and HasOp predicates hold when the call does not   *)
(* throw.  The get and the update of a call are one step because complete  *)
(* and cancel are called inside a MongoDB transaction by every caller.     *)
(*                                                                         *)
(* Here and in the other modules a definition marked Mistake is what the   *)
(* one that follows could have been by an error in the code; PROJECT.json  *)
(* names the property that tells them apart.                               *)
(***************************************************************************)
EXTENDS Integers, FiniteSetsExt

\* Mistake: the sign is kept.
Signed(n) == n

Abs(n) == IF n < 0 THEN -n ELSE n

IsWallet(w, Ops) ==
  /\ w = [available |-> w.available, locked |-> w.locked, pending |-> w.pending]
  /\ w.available \in Int
  /\ w.locked \in Int
  /\ DOMAIN w.pending \subseteq Ops
  /\ w.pending \in [DOMAIN w.pending -> Int]

NewWallet(funds) ==
  [available |-> funds, locked |-> 0, pending |-> [o \in {} |-> 0]]

(***************************************************************************)
(* get: 'OperationNotFound' unless the array holds the opid.               *)
(***************************************************************************)
HasOp(w, op) == op \in DOMAIN w.pending

(***************************************************************************)
(* remove: takes the operation out of the array and its modulus out of     *)
(* locked, and adds `change` to the available balance.                     *)
(***************************************************************************)
RemoveOp(w, op, change) ==
  [available |-> w.available + change,
   locked    |-> w.locked - Abs(w.pending[op]),
   pending   |-> [o \in DOMAIN w.pending \ {op} |-> w.pending[o]]]

(***************************************************************************)
(* completeTotal: an increase reaches the available balance, a decrease    *)
(* left it when the operation was added.                                   *)
(***************************************************************************)
CompleteTotal(w, op) ==
  RemoveOp(w, op, IF w.pending[op] < 0 THEN 0 ELSE w.pending[op])

(***************************************************************************)
(* The signed change completePartial makes to the pending amount: towards  *)
(* zero.                                                                   *)
(***************************************************************************)
\* Mistake: the pending amount moves away from zero.
Away(opAmount, amount) == IF opAmount > 0 THEN Abs(amount) ELSE -Abs(amount)

Towards(opAmount, amount) == IF opAmount > 0 THEN -Abs(amount) ELSE Abs(amount)

(***************************************************************************)
(* The $expr of completePartial's update.  It quantifies over the whole    *)
(* array, so any operation of the user may satisfy it for another.         *)
(***************************************************************************)
SomeOpCovers(w, amount) ==
  \E o \in DOMAIN w.pending : \/ w.pending[o] + amount >= 0
                              \/ w.pending[o] + Abs(amount) =< 0

CanCompletePartial(w, op, amount) ==
  /\ HasOp(w, op)
  /\ Abs(w.pending[op]) - Abs(amount) > 0
  /\ SomeOpCovers(w, Towards(w.pending[op], amount))

\* Mistake: the completed part stays locked.
PartialKeepsLocked(w, op, amount) ==
  [available |-> w.available + (IF w.pending[op] > 0 THEN Abs(amount) ELSE 0),
   locked    |-> w.locked,
   pending   |-> [w.pending EXCEPT ![op] = @ + Towards(@, amount)]]

CompletePartial(w, op, amount) ==
  [available |-> w.available + (IF w.pending[op] > 0 THEN Abs(amount) ELSE 0),
   locked    |-> w.locked - Abs(amount),
   pending   |-> [w.pending EXCEPT ![op] = @ + Towards(@, amount)]]

(***************************************************************************)
(* complete: an absent amount is the amount 0, which is falsy in the code. *)
(***************************************************************************)
IsTotal(w, op, amount) == amount = 0 \/ Abs(w.pending[op]) = Abs(amount)

CanComplete(w, op, amount) ==
  /\ HasOp(w, op)
  /\ IsTotal(w, op, amount) \/ CanCompletePartial(w, op, amount)

Complete(w, op, amount) ==
  IF IsTotal(w, op, amount) THEN CompleteTotal(w, op)
                            ELSE CompletePartial(w, op, amount)

(***************************************************************************)
(* cancel: a decrease gives the amount back, an increase only unlocks it.  *)
(***************************************************************************)
\* Mistake: an increase is given back too.
CancelRefundsCredit(w, op) == RemoveOp(w, op, Abs(w.pending[op]))

Cancel(w, op) ==
  RemoveOp(w, op, IF w.pending[op] < 0 THEN Abs(w.pending[op]) ELSE 0)

(***************************************************************************)
(* add: 'NotEnoughFunds' when the available balance would become negative. *)
(* A decrease moves from available to locked, an increase only locks.      *)
(***************************************************************************)
\* Mistake: locked funds count as available.
AddToLockedBalance(w, amount) == w.available + w.locked + amount >= 0

CanAdd(w, amount) == w.available + amount >= 0

Add(w, op, amount) ==
  [available |-> w.available + (IF amount < 0 THEN amount ELSE 0),
   locked    |-> w.locked + Abs(amount),
   pending   |-> [o \in DOMAIN w.pending \cup {op} |->
                    IF o = op THEN amount ELSE w.pending[o]]]

(***************************************************************************)
(* Sums over the pending array, for the invariants.                        *)
(***************************************************************************)
SumOf(f, S) == MapThenSumSet(LAMBDA x : f[x], S)
=============================================================================
