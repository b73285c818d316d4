------------------------------- MODULE Ledger -------------------------------
(***************************************************************************)
(* What the balance of one user in one currency promises, whatever calls   *)
(* the operations of BalanceOps: withdrawals, deposits, orders and trades  *)
(* all reach the balance through add, complete and cancel.                 *)
(*                                                                         *)
(* Next to the wallet the specification remembers, for every operation,    *)
(* the amount it was added with and how much of it was settled (completed) *)
(* and returned (cancelled).  It is the component specification of         *)
(* balancesOps and the abstract specification the protocols implement.     *)
(***************************************************************************)
EXTENDS BalanceOps

CONSTANTS
  Op,       \* the opids of the operations; an opid is a fresh ObjectId
  Amounts,  \* the signed amounts an operation may be added with
  Parts,    \* the amounts complete may be called with, 0 for none
  Initial   \* the available balance before the first operation

ASSUME OpAssumption      == IsFiniteSet(Op)
ASSUME AmountsAssumption == Amounts \subseteq Int \ {0}
ASSUME PartsAssumption   == Parts \subseteq Nat
ASSUME InitialAssumption == Initial \in Nat

VARIABLES
  wallet,   \* the sub-document of the person
  orig,     \* the amount each operation was added with, 0 before that
  settled,  \* how much of each operation was completed
  returned  \* how much of each operation was cancelled

vars == <<wallet, orig, settled, returned>>

TypeOK ==
  /\ IsWallet(wallet, Op)
  /\ orig \in [Op -> Int]
  /\ settled \in [Op -> Nat]
  /\ returned \in [Op -> Nat]

Init ==
  /\ wallet = NewWallet(Initial)
  /\ orig = [o \in Op |-> 0]
  /\ settled = [o \in Op |-> 0]
  /\ returned = [o \in Op |-> 0]

\* Mistake: an opid that was closed is added again.
AddTwice(o, amount) ==
  /\ ~HasOp(wallet, o)
  /\ CanAdd(wallet, amount)
  /\ wallet' = Add(wallet, o, amount)
  /\ orig' = [orig EXCEPT ![o] = amount]
  /\ UNCHANGED <<settled, returned>>

\* An opid is a fresh ObjectId: it is added once.
AddOp(o, amount) ==
  /\ orig[o] = 0
  /\ CanAdd(wallet, amount)
  /\ wallet' = Add(wallet, o, amount)
  /\ orig' = [orig EXCEPT ![o] = amount]
  /\ UNCHANGED <<settled, returned>>

\* A deposit that is already confirmed: both calls in one MongoDB transaction.
CreditOp(o, amount) ==
  /\ orig[o] = 0 /\ amount > 0
  /\ wallet' = Complete(Add(wallet, o, amount), o, 0)
  /\ orig' = [orig EXCEPT ![o] = amount]
  /\ settled' = [settled EXCEPT ![o] = amount]
  /\ UNCHANGED returned

CompleteOp(o, part) ==
  /\ CanComplete(wallet, o, part)
  /\ wallet' = Complete(wallet, o, part)
  /\ settled' = [settled EXCEPT ![o] =
                   @ + IF IsTotal(wallet, o, part) THEN Abs(wallet.pending[o]) ELSE part]
  /\ UNCHANGED <<orig, returned>>

CancelOp(o) ==
  /\ HasOp(wallet, o)
  /\ wallet' = Cancel(wallet, o)
  /\ returned' = [returned EXCEPT ![o] = @ + Abs(wallet.pending[o])]
  /\ UNCHANGED <<orig, settled>>

Next ==
  \E o \in Op :
    \/ \E amount \in Amounts : AddOp(o, amount) \/ CreditOp(o, amount)
    \/ \E part \in Parts : CompleteOp(o, part)
    \/ CancelOp(o)

Spec == Init /\ [][Next]_vars

-----------------------------------------------------------------------------
Credits == {o \in Op : orig[o] > 0}
Debits  == {o \in Op : orig[o] < 0}

SameSign(m, n) == (m > 0 /\ n > 0) \/ (m < 0 /\ n < 0)

PendingPart(o) == IF HasOp(wallet, o) THEN Abs(wallet.pending[o]) ELSE 0

\* The available balance never becomes negative, through any interleaving of
\* additions, partial completions and cancellations: the guard of add is the
\* only one, so no other operation may take from the available balance.
NeverOverdrawn == wallet.available >= 0

\* Nothing of an operation is lost or counted twice: what is still pending,
\* what was completed and what was returned add up to what it was added with,
\* and a pending operation keeps its sign and is never empty.
OpAccounted ==
  \A o \in Op :
    /\ PendingPart(o) + settled[o] + returned[o] = Abs(orig[o])
    /\ HasOp(wallet, o) => SameSign(wallet.pending[o], orig[o])

\* The locked balance is the sum of the pending operations, credits included.
LockedIsPending ==
  wallet.locked = SumOf([o \in Op |-> PendingPart(o)], Op)

\* The balance is conserved: what the user can spend is what he started with,
\* plus the credits completed, minus the debits neither returned nor undone.
Conserved ==
  wallet.available = Initial + SumOf(settled, Credits)
                   + SumOf(returned, Debits) - SumOf([o \in Op |-> Abs(orig[o])], Debits)

\* An operation that left the pending array (completed in whole or cancelled)
\* never comes back: no second settlement is possible afterwards.
ClosedForGood ==
  [][\A o \in Op : (orig[o] # 0 /\ ~HasOp(wallet, o)) =>
        /\ ~HasOp(wallet', o)
        /\ settled'[o] = settled[o] /\ returned'[o] = returned[o]]_vars
=============================================================================
