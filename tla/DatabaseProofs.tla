--------------------------- MODULE DatabaseProofs ---------------------------
(***************************************************************************)
(* Proofs about two models of the database of the main server, which share *)
(* nothing: the ledger of the balances, and the history of prices.         *)
(*                                                                         *)
(* The ledger, for every set of operations, of amounts and of parts, and   *)
(* every initial balance.  Its three state properties are proved together, *)
(* because the accounting of an operation is what bounds the changes of    *)
(* the balance: an operation is added once because one that has an         *)
(* original amount of 0 cannot be pending, and a pending amount is never   *)
(* 0, so completing or cancelling always closes something.                 *)
(*                                                                         *)
(* The history, for any number of reports, calls and minutes, any prices   *)
(* and any age of a month.  A call of summarize works on an hour that no   *)
(* report reaches any more, so what it read is either the whole hour       *)
(* still, or was replaced and the commit conflicts.                        *)
(***************************************************************************)
EXTENDS Ledger, PriceHistory, BalanceProofs

-----------------------------------------------------------------------------
IInv == TypeOK /\ NeverOverdrawn /\ OpAccounted

\* The accounting of one operation: the conjunct of OpAccounted.
Accounted(o) ==
  /\ PendingPart(o) + settled[o] + returned[o] = Abs(orig[o])
  /\ HasOp(wallet, o) => SameSign(wallet.pending[o], orig[o])

LEMMA InitIInv == Init => IInv
<1> SUFFICES ASSUME Init PROVE IInv
  OBVIOUS
<1>1. TypeOK
  BY InitialAssumption DEF Init, TypeOK, IsWallet, NewWallet
<1>2. NeverOverdrawn
  BY InitialAssumption DEF Init, NeverOverdrawn, NewWallet
<1>3. OpAccounted
  BY DEF Init, OpAccounted, NewWallet, HasOp, PendingPart, Abs
<1> QED
  BY <1>1, <1>2, <1>3 DEF IInv

(***************************************************************************)
(* What the invariant says of a pending operation.                         *)
(***************************************************************************)
LEMMA PendingFacts ==
  ASSUME IInv, NEW o \in Op, HasOp(wallet, o)
  PROVE  /\ wallet.pending[o] \in Int \ {0}
         /\ Abs(wallet.pending[o]) \in Nat \ {0}
         /\ orig[o] # 0
         /\ Abs(wallet.pending[o]) + settled[o] + returned[o] = Abs(orig[o])
<1>1. wallet.pending[o] \in Int
  BY DEF IInv, TypeOK, IsWallet, HasOp
<1>2. SameSign(wallet.pending[o], orig[o]) /\ orig[o] \in Int
  BY DEF IInv, TypeOK, OpAccounted
<1>3. wallet.pending[o] # 0 /\ orig[o] # 0
  BY <1>1, <1>2 DEF SameSign
<1>4. Abs(wallet.pending[o]) \in Nat \ {0}
  BY <1>1, <1>3 DEF Abs
<1>5. Abs(wallet.pending[o]) + settled[o] + returned[o] = Abs(orig[o])
  BY DEF IInv, OpAccounted, PendingPart
<1> QED
  BY <1>1, <1>3, <1>4, <1>5

LEMMA AddStep ==
  ASSUME IInv, NEW o \in Op, NEW amount \in Amounts, AddOp(o, amount)
  PROVE  IInv'
<1>1. amount \in Int \ {0} /\ wallet' = Add(wallet, o, amount) /\ orig[o] = 0
  BY AmountsAssumption DEF AddOp
<1>2. ~HasOp(wallet, o)
  BY <1>1, PendingFacts
<1>3. IsWallet(wallet, Op)
  BY DEF IInv, TypeOK
<1>4. /\ IsWallet(wallet', Op)
      /\ wallet'.available = wallet.available + (IF amount < 0 THEN amount ELSE 0)
      /\ DOMAIN wallet'.pending = DOMAIN wallet.pending \cup {o}
      /\ wallet'.pending[o] = amount
      /\ \A p \in DOMAIN wallet.pending \ {o} : wallet'.pending[p] = wallet.pending[p]
  BY <1>1, <1>3, AddGives
<1>5. TypeOK'
  BY <1>1, <1>4 DEF IInv, TypeOK, AddOp
<1>6. NeverOverdrawn'
  <2>1. wallet.available \in Int /\ wallet.available >= 0 /\ wallet.available + amount >= 0
    BY <1>3 DEF IInv, NeverOverdrawn, AddOp, CanAdd, IsWallet
  <2> QED
    BY <1>1, <1>4, <2>1 DEF NeverOverdrawn
<1>7. ASSUME NEW p \in Op PROVE Accounted(p)'
  <2>1. CASE p = o
    <3>1. settled'[p] = settled[p] /\ returned'[p] = returned[p] /\ orig'[p] = amount
      BY <2>1 DEF AddOp, IInv, TypeOK
    <3>2. settled[p] = 0 /\ returned[p] = 0
      BY <2>1, <1>1, <1>2 DEF IInv, TypeOK, OpAccounted, PendingPart, Abs
    <3>3. HasOp(wallet', p) /\ wallet'.pending[p] = amount
      BY <2>1, <1>4 DEF HasOp
    <3>4. Abs(amount) \in Nat
      BY <1>1, AbsIsModulus
    <3> QED
      BY <1>1, <3>1, <3>2, <3>3, <3>4 DEF Accounted, PendingPart, SameSign
  <2>2. CASE p # o
    <3>1. settled'[p] = settled[p] /\ returned'[p] = returned[p] /\ orig'[p] = orig[p]
      BY <2>2 DEF AddOp, IInv, TypeOK
    <3>2. /\ HasOp(wallet', p) <=> HasOp(wallet, p)
          /\ HasOp(wallet, p) => wallet'.pending[p] = wallet.pending[p]
      BY <2>2, <1>4 DEF HasOp
    <3>3. Accounted(p)
      BY DEF IInv, OpAccounted, Accounted
    <3> QED
      BY <3>1, <3>2, <3>3 DEF Accounted, PendingPart
  <2> QED
    BY <2>1, <2>2
<1> QED
  BY <1>5, <1>6, <1>7 DEF IInv, OpAccounted, Accounted

LEMMA CreditStep ==
  ASSUME IInv, NEW o \in Op, NEW amount \in Amounts, CreditOp(o, amount)
  PROVE  IInv'
<1>1. amount \in Nat \ {0} /\ orig[o] = 0 /\ Abs(amount) = amount
  BY AmountsAssumption, AbsIsModulus DEF CreditOp
<1>2. ~HasOp(wallet, o)
  BY <1>1, PendingFacts
<1>3. IsWallet(wallet, Op) /\ wallet.available \in Nat
  BY DEF IInv, TypeOK, IsWallet, NeverOverdrawn
<1>4. /\ IsWallet(wallet', Op)
      /\ wallet'.available = wallet.available + amount
      /\ DOMAIN wallet'.pending = DOMAIN wallet.pending
      /\ \A p \in DOMAIN wallet.pending : wallet'.pending[p] = wallet.pending[p]
  BY <1>1, <1>2, <1>3, CreditGives DEF CreditOp
<1>5. TypeOK'
  BY <1>1, <1>4 DEF IInv, TypeOK, CreditOp
<1>6. NeverOverdrawn'
  BY <1>1, <1>3, <1>4 DEF NeverOverdrawn
<1>7. ASSUME NEW p \in Op PROVE Accounted(p)'
  <2>1. CASE p = o
    <3>1. settled'[p] = amount /\ returned'[p] = returned[p] /\ orig'[p] = amount
      BY <2>1 DEF CreditOp, IInv, TypeOK
    <3>2. returned[p] = 0
      BY <2>1, <1>1, <1>2 DEF IInv, TypeOK, OpAccounted, PendingPart, Abs
    <3>3. ~HasOp(wallet', p)
      BY <2>1, <1>2, <1>4 DEF HasOp
    <3> QED
      BY <1>1, <3>1, <3>2, <3>3 DEF Accounted, PendingPart
  <2>2. CASE p # o
    <3>1. settled'[p] = settled[p] /\ returned'[p] = returned[p] /\ orig'[p] = orig[p]
      BY <2>2 DEF CreditOp, IInv, TypeOK
    <3>2. /\ HasOp(wallet', p) <=> HasOp(wallet, p)
          /\ HasOp(wallet, p) => wallet'.pending[p] = wallet.pending[p]
      BY <1>4 DEF HasOp
    <3>3. Accounted(p)
      BY DEF IInv, OpAccounted, Accounted
    <3> QED
      BY <3>1, <3>2, <3>3 DEF Accounted, PendingPart
  <2> QED
    BY <2>1, <2>2
<1> QED
  BY <1>5, <1>6, <1>7 DEF IInv, OpAccounted, Accounted

(***************************************************************************)
(* Closing an operation, completed or cancelled, moves the whole pending   *)
(* amount to exactly one of the two accounts.                              *)
(***************************************************************************)
LEMMA CloseStep ==
  ASSUME IInv, NEW o \in Op, HasOp(wallet, o), NEW change \in Nat,
         wallet' = RemoveOp(wallet, o, change), UNCHANGED orig,
         \/ /\ settled' = [settled EXCEPT ![o] = @ + Abs(wallet.pending[o])]
            /\ UNCHANGED returned
         \/ /\ returned' = [returned EXCEPT ![o] = @ + Abs(wallet.pending[o])]
            /\ UNCHANGED settled
  PROVE  IInv'
<1>1. IsWallet(wallet, Op) /\ wallet.available \in Nat
  BY DEF IInv, TypeOK, IsWallet, NeverOverdrawn
<1>2. /\ IsWallet(wallet', Op)
      /\ wallet'.available = wallet.available + change
      /\ DOMAIN wallet'.pending = DOMAIN wallet.pending \ {o}
      /\ \A p \in DOMAIN wallet.pending \ {o} : wallet'.pending[p] = wallet.pending[p]
  BY <1>1, RemoveGives
<1>3. /\ Abs(wallet.pending[o]) \in Nat \ {0}
      /\ Abs(wallet.pending[o]) + settled[o] + returned[o] = Abs(orig[o])
  BY PendingFacts
<1>4. TypeOK'
  BY <1>2, <1>3 DEF IInv, TypeOK
<1>5. NeverOverdrawn'
  BY <1>1, <1>2 DEF NeverOverdrawn
<1>6. ASSUME NEW p \in Op PROVE Accounted(p)'
  <2>1. CASE p = o
    <3>1. ~HasOp(wallet', p)
      BY <2>1, <1>2 DEF HasOp
    <3>2. settled'[p] + returned'[p] = Abs(wallet.pending[p]) + settled[p] + returned[p]
      BY <2>1, <1>3 DEF IInv, TypeOK
    <3>3. settled'[p] \in Nat /\ returned'[p] \in Nat
      BY <1>4 DEF TypeOK
    <3> QED
      BY <2>1, <1>3, <3>1, <3>2, <3>3 DEF Accounted, PendingPart
  <2>2. CASE p # o
    <3>1. settled'[p] = settled[p] /\ returned'[p] = returned[p] /\ orig'[p] = orig[p]
      BY <2>2 DEF IInv, TypeOK
    <3>2. /\ HasOp(wallet', p) <=> HasOp(wallet, p)
          /\ HasOp(wallet, p) => wallet'.pending[p] = wallet.pending[p]
      BY <2>2, <1>2 DEF HasOp
    <3>3. Accounted(p)
      BY DEF IInv, OpAccounted, Accounted
    <3> QED
      BY <3>1, <3>2, <3>3 DEF Accounted, PendingPart
  <2> QED
    BY <2>1, <2>2
<1> QED
  BY <1>4, <1>5, <1>6 DEF IInv, OpAccounted, Accounted

LEMMA PartialStep ==
  ASSUME IInv, NEW o \in Op, NEW part \in Parts,
         CompleteOp(o, part), ~IsTotal(wallet, o, part)
  PROVE  IInv'
<1> DEFINE p == wallet.pending[o]
<1>1. /\ HasOp(wallet, o) /\ part \in Nat \ {0} /\ Abs(part) = part
      /\ wallet' = CompletePartial(wallet, o, part)
      /\ settled' = [settled EXCEPT ![o] = @ + part]
      /\ UNCHANGED <<orig, returned>>
      /\ Abs(p) - part > 0
  <2>1. part \in Nat \ {0}
    BY PartsAssumption DEF IsTotal
  <2>2. Abs(part) = part
    BY <2>1, AbsIsModulus
  <2> QED
    BY <2>1, <2>2 DEF CompleteOp, Complete, CanComplete, CanCompletePartial
<1>2. IsWallet(wallet, Op) /\ wallet.available \in Nat
  BY DEF IInv, TypeOK, IsWallet, NeverOverdrawn
<1>3. /\ IsWallet(wallet', Op)
      /\ wallet'.available = wallet.available + (IF p > 0 THEN part ELSE 0)
      /\ DOMAIN wallet'.pending = DOMAIN wallet.pending
      /\ wallet'.pending[o] = IF p > 0 THEN p - part ELSE p + part
      /\ \A x \in DOMAIN wallet.pending \ {o} : wallet'.pending[x] = wallet.pending[x]
  BY <1>1, <1>2, PartialGives
<1>4. /\ p \in Int \ {0}
      /\ Abs(p) + settled[o] + returned[o] = Abs(orig[o])
  BY <1>1, PendingFacts
<1>5. TypeOK'
  BY <1>1, <1>3 DEF IInv, TypeOK
<1>6. NeverOverdrawn'
  BY <1>1, <1>2, <1>3 DEF NeverOverdrawn
<1>7. ASSUME NEW x \in Op PROVE Accounted(x)'
  <2>1. CASE x = o
    <3>1. settled'[o] = settled[o] + part /\ returned'[o] = returned[o] /\ orig'[o] = orig[o]
      BY <1>1 DEF IInv, TypeOK
    <3>2. HasOp(wallet', o)
      BY <1>1, <1>3 DEF HasOp
    <3>3. SameSign(p, orig[o]) /\ orig[o] \in Int
      BY <1>1 DEF IInv, TypeOK, OpAccounted
    <3>4. /\ Abs(wallet'.pending[o]) = Abs(p) - part
          /\ SameSign(wallet'.pending[o], orig[o])
      BY <1>1, <1>3, <1>4, <3>3 DEF SameSign, Abs
    <3>5. settled[o] \in Nat /\ returned[o] \in Nat /\ Abs(p) \in Nat
      BY <1>4, AbsIsModulus DEF IInv, TypeOK
    <3> QED
      BY <2>1, <1>1, <1>4, <3>1, <3>2, <3>4, <3>5 DEF Accounted, PendingPart
  <2>2. CASE x # o
    <3>1. settled'[x] = settled[x] /\ returned'[x] = returned[x] /\ orig'[x] = orig[x]
      BY <2>2, <1>1 DEF IInv, TypeOK
    <3>2. /\ HasOp(wallet', x) <=> HasOp(wallet, x)
          /\ HasOp(wallet, x) => wallet'.pending[x] = wallet.pending[x]
      BY <2>2, <1>3 DEF HasOp
    <3>3. Accounted(x)
      BY DEF IInv, OpAccounted, Accounted
    <3> QED
      BY <3>1, <3>2, <3>3 DEF Accounted, PendingPart
  <2> QED
    BY <2>1, <2>2
<1> QED
  BY <1>5, <1>6, <1>7 DEF IInv, OpAccounted, Accounted

LEMMA CompleteStep ==
  ASSUME IInv, NEW o \in Op, NEW part \in Parts, CompleteOp(o, part)
  PROVE  IInv'
<1>1. CASE IsTotal(wallet, o, part)
  <2>1. HasOp(wallet, o)
    BY DEF CompleteOp, CanComplete
  <2>2. wallet.pending[o] \in Int
    BY <2>1, PendingFacts
  <2> DEFINE change == IF wallet.pending[o] < 0 THEN 0 ELSE wallet.pending[o]
  <2>3. change \in Nat
    BY <2>2
  <2>4. wallet' = RemoveOp(wallet, o, change)
    BY <1>1 DEF CompleteOp, Complete, CompleteTotal
  <2>5. /\ settled' = [settled EXCEPT ![o] = @ + Abs(wallet.pending[o])]
        /\ UNCHANGED <<orig, returned>>
    BY <1>1 DEF CompleteOp
  <2> HIDE DEF change
  <2> QED
    BY <2>1, <2>3, <2>4, <2>5, CloseStep
<1>2. CASE ~IsTotal(wallet, o, part)
  BY <1>2, PartialStep
<1> QED
  BY <1>1, <1>2

LEMMA CancelStep ==
  ASSUME IInv, NEW o \in Op, CancelOp(o)
  PROVE  IInv'
<1>1. HasOp(wallet, o)
  BY DEF CancelOp
<1>2. wallet.pending[o] \in Int
  BY <1>1, PendingFacts
<1> DEFINE change == IF wallet.pending[o] < 0 THEN Abs(wallet.pending[o]) ELSE 0
<1>3. change \in Nat
  BY <1>2, AbsIsModulus
<1>4. wallet' = RemoveOp(wallet, o, change)
  BY DEF CancelOp, Cancel
<1>5. /\ returned' = [returned EXCEPT ![o] = @ + Abs(wallet.pending[o])]
      /\ UNCHANGED <<orig, settled>>
  BY DEF CancelOp
<1> HIDE DEF change
<1> QED
  BY <1>1, <1>3, <1>4, <1>5, CloseStep

-----------------------------------------------------------------------------
LEMMA NextIInv == IInv /\ [Next]_vars => IInv'
<1> SUFFICES ASSUME IInv, [Next]_vars PROVE IInv'
  OBVIOUS
<1>1. CASE UNCHANGED vars
  BY <1>1 DEF IInv, TypeOK, NeverOverdrawn, OpAccounted, PendingPart, vars
<1>2. ASSUME NEW o \in Op, NEW amount \in Amounts, AddOp(o, amount) PROVE IInv'
  BY <1>2, AddStep
<1>3. ASSUME NEW o \in Op, NEW part \in Parts, CompleteOp(o, part) PROVE IInv'
  BY <1>3, CompleteStep
<1>4. ASSUME NEW o \in Op, CancelOp(o) PROVE IInv'
  BY <1>4, CancelStep
<1>5. ASSUME NEW o \in Op, NEW amount \in Amounts, CreditOp(o, amount) PROVE IInv'
  BY <1>5, CreditStep
<1> QED
  BY <1>1, <1>2, <1>3, <1>4, <1>5 DEF Next

THEOREM Invariance == Spec => []IInv
BY InitIInv, NextIInv, PTL DEF Spec

\* The balance and its history are well formed in every reachable state,
\* whatever the amounts and parts balancesOps is called with.
THEOREM LedgerTypeOK == Spec => []TypeOK
BY Invariance, PTL DEF IInv

\* add's guard is enough to keep the available balance from becoming negative:
\* no interleaving of complete and cancel takes from it.
THEOREM LedgerNeverOverdrawn == Spec => []NeverOverdrawn
BY Invariance, PTL DEF IInv

\* Nothing of an operation is lost or counted twice by balancesOps.
THEOREM LedgerOpAccounted == Spec => []OpAccounted
BY Invariance, PTL DEF IInv

\* An operation that left the pending array is closed: no later call of
\* balancesOps settles, returns or reopens it.
THEOREM LedgerClosedForGood == Spec => ClosedForGood
<1> DEFINE Closed ==
      \A o \in Op : (orig[o] # 0 /\ ~HasOp(wallet, o)) =>
        /\ ~HasOp(wallet', o)
        /\ settled'[o] = settled[o] /\ returned'[o] = returned[o]
<1>1. ASSUME IInv, [Next]_vars PROVE [Closed]_vars
  <2> SUFFICES ASSUME ~UNCHANGED vars, NEW o \in Op, orig[o] # 0, ~HasOp(wallet, o)
               PROVE  /\ ~HasOp(wallet', o)
                      /\ settled'[o] = settled[o] /\ returned'[o] = returned[o]
    OBVIOUS
  <2>1. IsWallet(wallet, Op) /\ settled \in [Op -> Nat] /\ returned \in [Op -> Nat]
    BY <1>1 DEF IInv, TypeOK
  <2>2. ASSUME NEW x \in Op, NEW amount \in Amounts, AddOp(x, amount)
        PROVE  /\ ~HasOp(wallet', o)
               /\ settled'[o] = settled[o] /\ returned'[o] = returned[o]
    <3>1. x # o
      BY <2>2 DEF AddOp
    <3>2. DOMAIN wallet'.pending = DOMAIN wallet.pending \cup {x}
      BY <2>2 DEF AddOp, Add
    <3> QED
      BY <2>2, <3>1, <3>2 DEF AddOp, HasOp
  <2>3. ASSUME NEW x \in Op, NEW part \in Parts, CompleteOp(x, part)
        PROVE  /\ ~HasOp(wallet', o)
               /\ settled'[o] = settled[o] /\ returned'[o] = returned[o]
    <3>1. HasOp(wallet, x)
      BY <2>3 DEF CompleteOp, CanComplete, CanCompletePartial
    <3>2. x # o
      BY <3>1
    <3>3. DOMAIN wallet'.pending \subseteq DOMAIN wallet.pending
      BY <2>3 DEF CompleteOp, Complete, CompleteTotal, CompletePartial, RemoveOp
    <3> QED
      BY <2>1, <2>3, <3>2, <3>3 DEF CompleteOp, HasOp
  <2>4. ASSUME NEW x \in Op, CancelOp(x)
        PROVE  /\ ~HasOp(wallet', o)
               /\ settled'[o] = settled[o] /\ returned'[o] = returned[o]
    <3>1. x # o
      BY <2>4 DEF CancelOp
    <3>2. DOMAIN wallet'.pending \subseteq DOMAIN wallet.pending
      BY <2>4 DEF CancelOp, Cancel, RemoveOp
    <3> QED
      BY <2>1, <2>4, <3>1, <3>2 DEF CancelOp, HasOp
  <2>5. ASSUME NEW x \in Op, NEW amount \in Amounts, CreditOp(x, amount)
        PROVE  /\ ~HasOp(wallet', o)
               /\ settled'[o] = settled[o] /\ returned'[o] = returned[o]
    <3>1. x # o /\ ~HasOp(wallet, x) /\ amount \in Nat \ {0}
      BY <2>5, <1>1, PendingFacts, AmountsAssumption DEF CreditOp
    <3>2. DOMAIN wallet'.pending = DOMAIN wallet.pending
      BY <2>1, <2>5, <3>1, CreditGives DEF CreditOp
    <3> QED
      BY <2>1, <2>5, <3>1, <3>2 DEF CreditOp, HasOp
  <2> QED
    BY <1>1, <2>2, <2>3, <2>4, <2>5 DEF Next
<1> QED
  BY <1>1, Invariance, PTL DEF Spec, ClosedForGood

-----------------------------------------------------------------------------
(***************************************************************************)
(* The sums.  Every call changes one operation, so both sums change by what*)
(* the call does to that operation, and so must the balance.  The three    *)
(* sums of Conserved are one: what each operation has done to the available*)
(* balance since it was added.                                             *)
(***************************************************************************)
PartOf == [o \in Op |-> PendingPart(o)]

GainOf ==
  [o \in Op |-> (IF orig[o] > 0 THEN settled[o] ELSE 0)
                + (IF orig[o] < 0 THEN returned[o] - Abs(orig[o]) ELSE 0)]

SumInv ==
  /\ IInv
  /\ wallet.locked = SumOf(PartOf, Op)
  /\ wallet.available = Initial + SumOf(GainOf, Op)

LEMMA ConservedIsGain ==
  ASSUME IInv
  PROVE  Conserved <=> wallet.available = Initial + SumOf(GainOf, Op)
<1> DEFINE modulus == [o \in Op |-> Abs(orig[o])]
<1>1. \A o \in Op : settled[o] \in Int /\ returned[o] \in Int /\ modulus[o] \in Int
  BY AbsIsModulus DEF IInv, TypeOK
<1>2. \A o \in Op : GainOf[o] = (IF o \in Credits THEN settled[o] ELSE 0)
                                + (IF o \in Debits THEN returned[o] - modulus[o] ELSE 0)
  BY DEF GainOf, Credits, Debits
<1>3. Op \cap Credits = Credits /\ Op \cap Debits = Debits
  BY DEF Credits, Debits
<1>4. SumOf(GainOf, Op) = SumOf(settled, Op \cap Credits) + SumOf(returned, Op \cap Debits)
                          - SumOf(modulus, Op \cap Debits)
  <2> HIDE DEF modulus
  <2>1. IsSplit(GainOf, settled, returned, modulus, Credits, Debits, Op)
    BY <1>1, <1>2 DEF IsSplit
  <2> QED
    BY <2>1, OpAssumption, SumSplit
<1>5. /\ SumOf(settled, Credits) \in Int /\ SumOf(returned, Debits) \in Int
      /\ SumOf(modulus, Debits) \in Int
  <2>1. IsFiniteSet(Credits) /\ IsFiniteSet(Debits)
    BY OpAssumption, FS_Subset DEF Credits, Debits
  <2>2. /\ \A o \in Credits : settled[o] \in Int
        /\ \A o \in Debits : returned[o] \in Int /\ modulus[o] \in Int
    BY <1>1 DEF Credits, Debits
  <2> HIDE DEF modulus
  <2> QED
    BY <2>1, <2>2, SumTake
<1> HIDE DEF modulus
<1>6. Conserved <=> wallet.available = Initial + SumOf(settled, Credits)
                    + SumOf(returned, Debits) - SumOf(modulus, Debits)
  BY DEF Conserved, modulus
<1>7. SumOf(GainOf, Op) = SumOf(settled, Credits) + SumOf(returned, Debits)
                          - SumOf(modulus, Debits)
  BY <1>3, <1>4
<1>8. wallet.available \in Int
  BY DEF IInv, TypeOK, IsWallet
<1> QED
  BY <1>5, <1>6, <1>7, <1>8, InitialAssumption

Numbers ==
  /\ wallet.available \in Int /\ wallet.locked \in Int
  /\ \A o \in Op : PartOf[o] \in Int /\ GainOf[o] \in Int

LEMMA OpsAreNumbers == IInv => Numbers
<1> SUFFICES ASSUME IInv PROVE Numbers
  OBVIOUS
<1>1. wallet.available \in Int /\ wallet.locked \in Int
  BY DEF IInv, TypeOK, IsWallet
<1>2. ASSUME NEW o \in Op PROVE PartOf[o] \in Int
  <2>1. HasOp(wallet, o) => Abs(wallet.pending[o]) \in Int
    BY PendingFacts
  <2> QED
    BY <2>1 DEF PartOf, PendingPart
<1>3. ASSUME NEW o \in Op PROVE GainOf[o] \in Int
  <2>1. orig[o] \in Int /\ settled[o] \in Int /\ returned[o] \in Int /\ Abs(orig[o]) \in Int
    BY AbsIsModulus DEF IInv, TypeOK
  <2> QED
    BY <2>1 DEF GainOf
<1> QED
  BY <1>1, <1>2, <1>3 DEF Numbers

LEMMA OpsStayNumbers == IInv' => Numbers'
BY OpsAreNumbers, PTL

(***************************************************************************)
(* What a call does to the operation it is about, it does to the balance.  *)
(***************************************************************************)
LEMMA OneOpMoves ==
  ASSUME SumInv, IInv', NEW o \in Op,
         \A p \in Op \ {o} : PartOf'[p] = PartOf[p] /\ GainOf'[p] = GainOf[p],
         wallet'.locked = wallet.locked - PartOf[o] + PartOf'[o],
         wallet'.available = wallet.available - GainOf[o] + GainOf'[o]
  PROVE  SumInv'
<1>1. Numbers /\ Numbers'
  BY OpsAreNumbers, OpsStayNumbers DEF SumInv
<1>2. DifferAt(o, PartOf, PartOf', Op) /\ DifferAt(o, GainOf, GainOf', Op)
  BY <1>1 DEF Numbers, DifferAt
<1>3. /\ SumOf(PartOf', Op) = SumOf(PartOf, Op) - PartOf[o] + PartOf'[o]
      /\ SumOf(GainOf', Op) = SumOf(GainOf, Op) - GainOf[o] + GainOf'[o]
  BY <1>2, OpAssumption, SumChange
<1>4. SumOf(PartOf, Op) \in Int /\ SumOf(GainOf, Op) \in Int
  BY <1>1, OpAssumption, SumTake DEF Numbers
<1> QED
  BY <1>1, <1>3, <1>4, InitialAssumption DEF SumInv, Numbers

LEMMA AddMoves ==
  ASSUME SumInv, IInv', NEW o \in Op, NEW amount \in Amounts, AddOp(o, amount)
  PROVE  SumInv'
<1>1. /\ amount \in Int \ {0} /\ orig[o] = 0 /\ wallet' = Add(wallet, o, amount)
      /\ orig' = [orig EXCEPT ![o] = amount] /\ UNCHANGED <<settled, returned>>
      /\ orig \in [Op -> Int]
  BY AmountsAssumption DEF AddOp, SumInv, IInv, TypeOK
<1>2. ~HasOp(wallet, o)
  BY <1>1, PendingFacts DEF SumInv
<1>3. settled[o] = 0 /\ returned[o] = 0
  BY <1>1, <1>2 DEF SumInv, IInv, TypeOK, OpAccounted, PendingPart, Abs
<1>4. Numbers /\ Abs(amount) \in Nat
  BY <1>1, OpsAreNumbers, AbsIsModulus DEF SumInv
<1>5. /\ wallet'.available = wallet.available + (IF amount < 0 THEN amount ELSE 0)
      /\ wallet'.locked = wallet.locked + Abs(amount)
      /\ \A p \in Op : HasOp(wallet', p) <=> HasOp(wallet, p) \/ p = o
      /\ \A p \in Op \ {o} : HasOp(wallet, p) => wallet'.pending[p] = wallet.pending[p]
      /\ wallet'.pending[o] = amount
  BY <1>1 DEF Add, HasOp
<1>6. PartOf[o] = 0 /\ PartOf'[o] = Abs(amount)
  BY <1>2, <1>5 DEF PartOf, PendingPart
<1>7. GainOf[o] = 0 /\ GainOf'[o] = (IF amount < 0 THEN amount ELSE 0)
  <2>1. /\ GainOf[o] = (IF orig[o] > 0 THEN settled[o] ELSE 0)
                       + (IF orig[o] < 0 THEN returned[o] - Abs(orig[o]) ELSE 0)
        /\ GainOf'[o] = (IF orig'[o] > 0 THEN settled'[o] ELSE 0)
                        + (IF orig'[o] < 0 THEN returned'[o] - Abs(orig'[o]) ELSE 0)
    BY DEF GainOf
  <2>2. orig'[o] = amount /\ settled'[o] = 0 /\ returned'[o] = 0
    BY <1>1, <1>3
  <2>3. amount < 0 => 0 - Abs(amount) = amount
    BY <1>1, AbsIsModulus
  <2> QED
    BY <1>1, <1>4, <2>1, <2>2, <2>3
<1>8. \A p \in Op \ {o} : PartOf'[p] = PartOf[p] /\ GainOf'[p] = GainOf[p]
  BY <1>1, <1>5 DEF PartOf, GainOf, PendingPart
<1>9. /\ wallet'.locked = wallet.locked - PartOf[o] + PartOf'[o]
      /\ wallet'.available = wallet.available - GainOf[o] + GainOf'[o]
  BY <1>1, <1>4, <1>5, <1>6, <1>7 DEF Numbers
<1> QED
  BY <1>8, <1>9, OneOpMoves

LEMMA CreditMoves ==
  ASSUME SumInv, IInv', NEW o \in Op, NEW amount \in Amounts, CreditOp(o, amount)
  PROVE  SumInv'
<1>1. /\ amount \in Nat \ {0} /\ orig[o] = 0
      /\ wallet' = Complete(Add(wallet, o, amount), o, 0)
      /\ orig' = [orig EXCEPT ![o] = amount]
      /\ settled' = [settled EXCEPT ![o] = amount] /\ UNCHANGED returned
      /\ orig \in [Op -> Int] /\ settled \in [Op -> Nat]
  BY AmountsAssumption DEF CreditOp, SumInv, IInv, TypeOK
<1>2. ~HasOp(wallet, o)
  BY <1>1, PendingFacts DEF SumInv
<1>3. Numbers /\ Abs(amount) = amount
  BY <1>1, OpsAreNumbers, AbsIsModulus DEF SumInv
<1> DEFINE v == Add(wallet, o, amount)
<1>4. /\ v.available = wallet.available /\ v.locked = wallet.locked + amount
      /\ DOMAIN v.pending = DOMAIN wallet.pending \cup {o}
      /\ \A p \in DOMAIN wallet.pending \ {o} : v.pending[p] = wallet.pending[p]
      /\ v.pending[o] = amount
  BY <1>1, <1>3 DEF Add, Numbers
<1>5. /\ wallet'.available = v.available + amount
      /\ wallet'.locked = v.locked - amount
      /\ DOMAIN wallet'.pending = DOMAIN v.pending \ {o}
      /\ \A p \in DOMAIN v.pending \ {o} : wallet'.pending[p] = v.pending[p]
  <2> HIDE DEF v
  <2>1. wallet' = RemoveOp(v, o, amount)
    BY <1>1, <1>4 DEF v, Complete, IsTotal, CompleteTotal
  <2> QED
    BY <1>3, <1>4, <2>1 DEF RemoveOp
<1> HIDE DEF v
<1>6. /\ wallet'.available = wallet.available + amount
      /\ wallet'.locked = wallet.locked
      /\ \A p \in Op : HasOp(wallet', p) <=> HasOp(wallet, p)
      /\ \A p \in Op : HasOp(wallet, p) => wallet'.pending[p] = wallet.pending[p]
  BY <1>1, <1>2, <1>3, <1>4, <1>5 DEF HasOp, Numbers
<1>7. PartOf' = PartOf
  BY <1>6 DEF PartOf, PendingPart
<1>8. GainOf[o] = 0 /\ GainOf'[o] = amount
  BY <1>1 DEF GainOf
<1>9. \A p \in Op \ {o} : GainOf'[p] = GainOf[p]
  BY <1>1 DEF GainOf
<1>10. /\ wallet'.locked = wallet.locked - PartOf[o] + PartOf'[o]
       /\ wallet'.available = wallet.available - GainOf[o] + GainOf'[o]
  BY <1>1, <1>3, <1>6, <1>7, <1>8 DEF Numbers
<1> QED
  BY <1>7, <1>9, <1>10, OneOpMoves

(***************************************************************************)
(* An operation that ends: a credit that is completed and a debit that is  *)
(* cancelled reach the available balance, the other two do not.            *)
(***************************************************************************)
LEMMA CloseMoves ==
  ASSUME SumInv, IInv', NEW o \in Op, HasOp(wallet, o), NEW change \in Int,
         wallet' = RemoveOp(wallet, o, change), UNCHANGED orig,
         \/ /\ settled' = [settled EXCEPT ![o] = @ + Abs(wallet.pending[o])]
            /\ UNCHANGED returned
            /\ change = IF wallet.pending[o] < 0 THEN 0 ELSE wallet.pending[o]
         \/ /\ returned' = [returned EXCEPT ![o] = @ + Abs(wallet.pending[o])]
            /\ UNCHANGED settled
            /\ change = IF wallet.pending[o] < 0 THEN Abs(wallet.pending[o]) ELSE 0
  PROVE  SumInv'
<1> DEFINE n == wallet.pending[o]
<1>1. /\ n \in Int \ {0} /\ Abs(n) \in Nat
      /\ orig[o] \in Int /\ SameSign(n, orig[o]) /\ Abs(orig[o]) \in Int
      /\ settled \in [Op -> Nat] /\ returned \in [Op -> Nat]
  BY PendingFacts, AbsIsModulus DEF SumInv, IInv, TypeOK, OpAccounted
<1>2. Numbers
  BY OpsAreNumbers DEF SumInv
<1>3. /\ wallet'.available = wallet.available + change
      /\ wallet'.locked = wallet.locked - Abs(n)
      /\ \A p \in Op : HasOp(wallet', p) <=> HasOp(wallet, p) /\ p # o
      /\ \A p \in Op \ {o} : HasOp(wallet, p) => wallet'.pending[p] = wallet.pending[p]
  BY DEF RemoveOp, HasOp
<1>4. PartOf[o] = Abs(n) /\ PartOf'[o] = 0
  BY <1>3 DEF PartOf, PendingPart
<1>5. GainOf'[o] = GainOf[o] + change
  <2>1. /\ GainOf[o] = (IF orig[o] > 0 THEN settled[o] ELSE 0)
                       + (IF orig[o] < 0 THEN returned[o] - Abs(orig[o]) ELSE 0)
        /\ GainOf'[o] = (IF orig[o] > 0 THEN settled'[o] ELSE 0)
                        + (IF orig[o] < 0 THEN returned'[o] - Abs(orig[o]) ELSE 0)
    BY DEF GainOf
  <2>2. (n < 0 <=> orig[o] < 0) /\ (n > 0 <=> orig[o] > 0) /\ (n > 0 => Abs(n) = n)
    BY <1>1, AbsIsModulus DEF SameSign
  <2>3. \/ /\ settled'[o] = settled[o] + Abs(n) /\ returned'[o] = returned[o]
           /\ change = IF n < 0 THEN 0 ELSE n
        \/ /\ returned'[o] = returned[o] + Abs(n) /\ settled'[o] = settled[o]
           /\ change = IF n < 0 THEN Abs(n) ELSE 0
    BY <1>1
  <2>4. settled[o] \in Nat /\ returned[o] \in Nat
    BY <1>1
  <2> HIDE DEF n
  <2> QED
    BY <1>1, <2>1, <2>2, <2>3, <2>4
<1>6. \A p \in Op \ {o} : PartOf'[p] = PartOf[p] /\ GainOf'[p] = GainOf[p]
  BY <1>1, <1>3 DEF PartOf, GainOf, PendingPart
<1>7. /\ wallet'.locked = wallet.locked - PartOf[o] + PartOf'[o]
      /\ wallet'.available = wallet.available - GainOf[o] + GainOf'[o]
  <2> HIDE DEF n
  <2> QED
    BY <1>1, <1>2, <1>3, <1>4, <1>5 DEF Numbers
<1> QED
  BY <1>6, <1>7, OneOpMoves

LEMMA PartialMoves ==
  ASSUME SumInv, IInv', NEW o \in Op, NEW part \in Parts,
         CompleteOp(o, part), ~IsTotal(wallet, o, part)
  PROVE  SumInv'
<1> DEFINE n == wallet.pending[o]
<1>1. /\ HasOp(wallet, o) /\ part \in Nat \ {0} /\ Abs(part) = part
      /\ wallet' = CompletePartial(wallet, o, part)
      /\ settled' = [settled EXCEPT ![o] = @ + part]
      /\ UNCHANGED <<orig, returned>>
      /\ Abs(n) - part > 0
  <2>1. part \in Nat \ {0}
    BY PartsAssumption DEF IsTotal
  <2>2. Abs(part) = part
    BY <2>1, AbsIsModulus
  <2> QED
    BY <2>1, <2>2 DEF CompleteOp, Complete, CanComplete, CanCompletePartial
<1>2. /\ n \in Int \ {0} /\ Abs(n) \in Nat
      /\ orig[o] \in Int /\ SameSign(n, orig[o]) /\ Abs(orig[o]) \in Int
      /\ settled \in [Op -> Nat] /\ returned \in [Op -> Nat]
  BY <1>1, PendingFacts, AbsIsModulus DEF SumInv, IInv, TypeOK, OpAccounted
<1>3. Numbers
  BY OpsAreNumbers DEF SumInv
<1>4. /\ wallet'.available = wallet.available + (IF n > 0 THEN part ELSE 0)
      /\ wallet'.locked = wallet.locked - part
      /\ \A p \in Op : HasOp(wallet', p) <=> HasOp(wallet, p)
      /\ \A p \in Op \ {o} : HasOp(wallet, p) => wallet'.pending[p] = wallet.pending[p]
      /\ wallet'.pending[o] = n + Towards(n, part)
  BY <1>1 DEF CompletePartial, HasOp
<1>5. PartOf[o] = Abs(n) /\ PartOf'[o] = Abs(n) - part
  <2>1. Towards(n, part) = IF n > 0 THEN -part ELSE part
    BY <1>1 DEF Towards
  <2>2. Abs(n + Towards(n, part)) = Abs(n) - part
    BY <1>1, <1>2, <2>1 DEF Abs
  <2> QED
    BY <1>1, <1>4, <2>2 DEF PartOf, PendingPart
<1>6. GainOf'[o] = GainOf[o] + (IF n > 0 THEN part ELSE 0)
  <2>1. /\ GainOf[o] = (IF orig[o] > 0 THEN settled[o] ELSE 0)
                       + (IF orig[o] < 0 THEN returned[o] - Abs(orig[o]) ELSE 0)
        /\ GainOf'[o] = (IF orig[o] > 0 THEN settled[o] + part ELSE 0)
                        + (IF orig[o] < 0 THEN returned[o] - Abs(orig[o]) ELSE 0)
    BY <1>1, <1>2 DEF GainOf
  <2>2. n > 0 <=> orig[o] > 0
    BY <1>2 DEF SameSign
  <2>3. settled[o] \in Nat /\ returned[o] \in Nat
    BY <1>2
  <2> HIDE DEF n
  <2> QED
    BY <1>1, <1>2, <2>1, <2>2, <2>3
<1>7. \A p \in Op \ {o} : PartOf'[p] = PartOf[p] /\ GainOf'[p] = GainOf[p]
  BY <1>1, <1>2, <1>4 DEF PartOf, GainOf, PendingPart
<1>8. /\ wallet'.locked = wallet.locked - PartOf[o] + PartOf'[o]
      /\ wallet'.available = wallet.available - GainOf[o] + GainOf'[o]
  <2> HIDE DEF n
  <2> QED
    BY <1>1, <1>2, <1>3, <1>4, <1>5, <1>6 DEF Numbers
<1> QED
  BY <1>7, <1>8, OneOpMoves

LEMMA InitSumInv == Init => SumInv
<1> SUFFICES ASSUME Init PROVE SumInv
  OBVIOUS
<1>1. IInv
  BY InitIInv
<1>2. \A o \in Op : PartOf[o] = 0 /\ GainOf[o] = 0
  BY DEF Init, NewWallet, PartOf, GainOf, PendingPart, HasOp
<1>3. ASSUME NEW f, \A o \in Op : f[o] = 0 PROVE SumOf(f, Op) = 0
  <2>1. IsSplit(f, f, f, f, {}, {}, Op)
    BY <1>3 DEF IsSplit
  <2>2. SumOf(f, Op) = SumOf(f, Op \cap {}) + SumOf(f, Op \cap {}) - SumOf(f, Op \cap {})
    BY <2>1, OpAssumption, SumSplit
  <2>3. SumOf(f, Op \cap {}) = 0
    BY SumByParts, FS_EmptySet
  <2> QED
    BY <2>2, <2>3
<1>4. SumOf(PartOf, Op) = 0 /\ SumOf(GainOf, Op) = 0
  BY <1>2, <1>3
<1> QED
  BY <1>1, <1>4, InitialAssumption DEF Init, NewWallet, SumInv

LEMMA NextSumInv == SumInv /\ [Next]_vars => SumInv'
<1> SUFFICES ASSUME SumInv, [Next]_vars PROVE SumInv'
  OBVIOUS
<1>1. IInv'
  BY NextIInv DEF SumInv
<1>2. CASE UNCHANGED vars
  <2>1. PartOf' = PartOf /\ GainOf' = GainOf /\ wallet' = wallet
    BY <1>2 DEF vars, PartOf, GainOf, PendingPart
  <2> QED
    BY <1>1, <2>1 DEF SumInv
<1>3. ASSUME NEW o \in Op, NEW amount \in Amounts, AddOp(o, amount) PROVE SumInv'
  BY <1>1, <1>3, AddMoves
<1>4. ASSUME NEW o \in Op, NEW amount \in Amounts, CreditOp(o, amount) PROVE SumInv'
  BY <1>1, <1>4, CreditMoves
<1>5. ASSUME NEW o \in Op, NEW part \in Parts, CompleteOp(o, part) PROVE SumInv'
  <2>1. HasOp(wallet, o)
    BY <1>5 DEF CompleteOp, CanComplete
  <2>2. wallet.pending[o] \in Int
    BY <2>1, PendingFacts DEF SumInv
  <2>3. CASE IsTotal(wallet, o, part)
    <3> DEFINE change == IF wallet.pending[o] < 0 THEN 0 ELSE wallet.pending[o]
    <3>1. change \in Int
      BY <2>2
    <3>2. /\ wallet' = RemoveOp(wallet, o, change)
          /\ settled' = [settled EXCEPT ![o] = @ + Abs(wallet.pending[o])]
          /\ UNCHANGED <<orig, returned>>
      BY <1>5, <2>3 DEF CompleteOp, Complete, CompleteTotal
    <3> QED
      BY <1>1, <2>1, <3>1, <3>2, CloseMoves
  <2> QED
    BY <1>1, <1>5, <2>3, PartialMoves
<1>6. ASSUME NEW o \in Op, CancelOp(o) PROVE SumInv'
  <2> DEFINE change == IF wallet.pending[o] < 0 THEN Abs(wallet.pending[o]) ELSE 0
  <2>1. HasOp(wallet, o)
    BY <1>6 DEF CancelOp
  <2>2. change \in Int
    BY <2>1, PendingFacts DEF SumInv
  <2>3. /\ wallet' = RemoveOp(wallet, o, change)
        /\ returned' = [returned EXCEPT ![o] = @ + Abs(wallet.pending[o])]
        /\ UNCHANGED <<orig, settled>>
    BY <1>6 DEF CancelOp, Cancel
  <2> QED
    BY <1>1, <2>1, <2>2, <2>3, CloseMoves
<1> QED
  BY <1>2, <1>3, <1>4, <1>5, <1>6 DEF Next

THEOREM SumInvariance == Spec => []SumInv
BY InitSumInv, NextSumInv, PTL DEF Spec

\* The locked balance is the sum of the pending amounts, however many
\* operations there are: the totals balancesOps keeps by increments never
\* drift from the operations they are about.
THEOREM LedgerLockedIsPending == Spec => []LockedIsPending
<1>1. SumInv => LockedIsPending
  BY DEF SumInv, LockedIsPending, PartOf
<1> QED
  BY <1>1, SumInvariance, PTL

\* The available balance is what the user started with, plus what was completed
\* of the credits, minus what was not given back of the debits: no sequence of
\* calls of balancesOps makes or loses money.
THEOREM LedgerConserved == Spec => []Conserved
<1>1. SumInv => Conserved
  BY ConservedIsGain DEF SumInv
<1> QED
  BY <1>1, SumInvariance, PTL

(***************************************************************************)
(* The history of prices.                                                  *)
(***************************************************************************)
Doc == [id : Nat, start : Nat, length : {1, 2},
        open : Nat, close : Nat, high : Nat, low : Nat]

Distinct(ds) == \A d, e \in ds : d.id = e.id => d = e

IsOldest(d, ds) == d \in ds /\ \A e \in ds : d.id =< e.id
IsNewest(d, ds) == d \in ds /\ \A e \in ds : d.id >= e.id

\* The greatest price of A is the greatest one of ds, and so for the least.
SameHigh(ds, A) ==
  \E m \in A, d \in ds : d.high = m /\ (\A p \in A : p =< m) /\ (\A e \in ds : e.high =< m)
SameLow(ds, A) ==
  \E m \in A, d \in ds : d.low = m /\ (\A p \in A : m =< p) /\ (\A e \in ds : m =< e.low)

\* What HourIsKept says of the documents ds of an hour, without CHOOSE.
Kept(ds, A, f, l) ==
  IF A = {} THEN ds = {}
  ELSE /\ \E d \in ds : IsOldest(d, ds) /\ d.open = f
       /\ \E d \in ds : IsNewest(d, ds) /\ d.close = l
       /\ SameHigh(ds, A) /\ SameLow(ds, A)

Types ==
  /\ now \in 0 .. Minutes /\ born \in Nat
  /\ docs \subseteq Doc /\ Distinct(docs)
  /\ \A d \in docs : d.id =< born
  /\ report \in [1 .. Reports -> [pc : {"unused", "off", "find", "insert"},
                                  minute : Nat, price : Nat]]
  /\ task \in [1 .. Calls -> [Hours -> [pc : {"unused", "off", "find", "save"},
                                        read : SUBSET Doc]]]
  /\ applied \in [Hours -> SUBSET Nat]
  /\ first \in [Hours -> Nat] /\ last \in [Hours -> Nat]

HoursOK == \A h \in Hours : Kept(OfHour(h), applied[h], first[h], last[h])

\* A report is of this minute or of the one before.
ReportsOK ==
  \A k \in 1 .. Reports :
    report[k].pc \in {"find", "insert"} => report[k].minute =< now /\ now - 1 =< report[k].minute

\* A call of summarize works on an hour that is closed.  What it read is the
\* whole hour still, or has a document that is gone for good.
TaskOK(t, h) ==
  /\ t.pc \in {"find", "save"} => 2 * h < now - Age
  /\ t.pc = "save" =>
       /\ t.read # {}
       /\ \A r \in t.read : r.id =< born /\ Hour(r.start) = h
       /\ t.read = OfHour(h) \/ \E r \in t.read : r \notin docs
TasksOK == \A c \in 1 .. Calls, h \in Hours : TaskOK(task[c][h], h)

HistoryInv == Types /\ HoursOK /\ ReportsOK /\ TasksOK

LEMMA OldestIs ==
  ASSUME NEW ds \in SUBSET Doc, Distinct(ds), NEW d, IsOldest(d, ds)
  PROVE  Oldest(ds) = d
<1>1. \A e \in ds : e.id \in Nat
  BY DEF Doc
<1>2. \A e \in ds : (\A x \in ds : e.id =< x.id) => e = d
  BY <1>1 DEF Distinct, IsOldest
<1> QED
  BY <1>2 DEF Oldest, IsOldest

LEMMA NewestIs ==
  ASSUME NEW ds \in SUBSET Doc, Distinct(ds), NEW d, IsNewest(d, ds)
  PROVE  Newest(ds) = d
<1>1. \A e \in ds : e.id \in Nat
  BY DEF Doc
<1>2. \A e \in ds : (\A x \in ds : e.id >= x.id) => e = d
  BY <1>1 DEF Distinct, IsNewest
<1> QED
  BY <1>2 DEF Newest, IsNewest

LEMMA HighestIs ==
  ASSUME NEW ds \in SUBSET Doc, NEW A \in SUBSET Nat, SameHigh(ds, A)
  PROVE  /\ \E d \in ds : Highest(ds) = d.high
         /\ Highest(ds) = Max(A) /\ \A d \in ds : d.high =< Highest(ds)
         /\ Highest(ds) \in A /\ \A p \in A : p =< Highest(ds)
<1>1. PICK m \in A, d \in ds :
        d.high = m /\ (\A p \in A : p =< m) /\ (\A e \in ds : e.high =< m)
  BY DEF SameHigh
<1> DEFINE H == {e.high : e \in ds}
<1>2. H \subseteq Nat /\ m \in H /\ \A x \in H : x =< m
  BY <1>1 DEF Doc
<1>3. Max(H) = m
  <2> HIDE DEF H
  <2>1. \A x \in H : (\A y \in H : x >= y) => x = m
    BY <1>2
  <2> QED
    BY <1>2, <2>1 DEF Max
<1>4. Max(A) = m
  <2>1. \A x \in A : (\A y \in A : x >= y) => x = m
    BY <1>1
  <2> QED
    BY <1>1, <2>1 DEF Max
<1> QED
  BY <1>1, <1>3, <1>4 DEF Highest

LEMMA LowestIs ==
  ASSUME NEW ds \in SUBSET Doc, NEW A \in SUBSET Nat, SameLow(ds, A)
  PROVE  /\ \E d \in ds : Lowest(ds) = d.low
         /\ Lowest(ds) = Min(A) /\ \A d \in ds : Lowest(ds) =< d.low
         /\ Lowest(ds) \in A /\ \A p \in A : Lowest(ds) =< p
<1>1. PICK m \in A, d \in ds :
        d.low = m /\ (\A p \in A : m =< p) /\ (\A e \in ds : m =< e.low)
  BY DEF SameLow
<1> DEFINE L == {e.low : e \in ds}
<1>2. L \subseteq Nat /\ m \in L /\ \A x \in L : m =< x
  BY <1>1 DEF Doc
<1>3. Min(L) = m
  <2> HIDE DEF L
  <2>1. \A x \in L : (\A y \in L : x =< y) => x = m
    BY <1>2
  <2> QED
    BY <1>2, <2>1 DEF Min
<1>4. Min(A) = m
  <2>1. \A x \in A : (\A y \in A : x =< y) => x = m
    BY <1>1
  <2> QED
    BY <1>1, <2>1 DEF Min
<1> QED
  BY <1>1, <1>3, <1>4 DEF Lowest

\* What is kept of an hour is what HourIsKept says of it.
LEMMA KeptShows ==
  ASSUME NEW ds \in SUBSET Doc, Distinct(ds), NEW A \in SUBSET Nat, NEW f, NEW l,
         Kept(ds, A, f, l)
  PROVE  IF A = {} THEN ds = {}
         ELSE /\ ds # {}
              /\ Oldest(ds).open = f /\ Newest(ds).close = l
              /\ Highest(ds) = Max(A) /\ Lowest(ds) = Min(A)
<1>1. CASE A = {}
  BY <1>1 DEF Kept
<1>2. CASE A # {}
  <2>1. PICK d \in ds : IsOldest(d, ds) /\ d.open = f
    BY <1>2 DEF Kept
  <2>2. PICK e \in ds : IsNewest(e, ds) /\ e.close = l
    BY <1>2 DEF Kept
  <2>3. SameHigh(ds, A) /\ SameLow(ds, A)
    BY <1>2 DEF Kept
  <2>4. Oldest(ds) = d /\ Newest(ds) = e
    BY <2>1, <2>2, OldestIs, NewestIs
  <2>5. Highest(ds) = Max(A) /\ Lowest(ds) = Min(A)
    BY <2>3, HighestIs, LowestIs
  <2> QED
    BY <1>2, <2>1, <2>2, <2>4, <2>5
<1> QED
  BY <1>1, <1>2

\* A price is written to a document of the hour.
LEMMA KeptUpdated ==
  ASSUME NEW ds \in SUBSET Doc, Distinct(ds), NEW A \in SUBSET Nat, NEW f, NEW l,
         Kept(ds, A, f, l), NEW d \in ds, NEW p \in Nat
  PROVE  Kept((ds \ {d}) \cup {Updated(d, p)}, A \cup {p}, f,
              IF d = Newest(ds) THEN p ELSE l)
<1> DEFINE u == Updated(d, p)
           es == (ds \ {d}) \cup {u}
           B == A \cup {p}
           g == IF d = Newest(ds) THEN p ELSE l
<1>1. /\ u.id = d.id /\ u.open = d.open /\ u.close = p
      /\ u.high = (IF p > d.high THEN p ELSE d.high)
      /\ u.low = (IF p < d.low THEN p ELSE d.low)
  BY DEF Updated, Doc
<1>2. \A e \in ds : e.id \in Nat /\ e.high \in Nat /\ e.low \in Nat
  BY DEF Doc
<1>3. A # {}
  BY DEF Kept
<1> HIDE DEF u
<1>4. \E e \in es : IsOldest(e, es) /\ e.open = f
  <2>1. PICK e \in ds : IsOldest(e, ds) /\ e.open = f
    BY <1>3 DEF Kept
  <2> DEFINE x == IF e = d THEN u ELSE e
  <2>2. x \in es /\ x.open = f /\ x.id = e.id
    BY <2>1, <1>1
  <2>3. \A y \in es : x.id =< y.id
    BY <2>1, <2>2, <1>1, <1>2 DEF IsOldest
  <2> QED
    BY <2>2, <2>3 DEF IsOldest
<1>5. \E e \in es : IsNewest(e, es) /\ e.close = g
  <2>1. PICK e \in ds : IsNewest(e, ds) /\ e.close = l
    BY <1>3 DEF Kept
  <2>2. Newest(ds) = e
    BY <2>1, NewestIs
  <2> DEFINE x == IF e = d THEN u ELSE e
  <2>3. x \in es /\ x.close = g /\ x.id = e.id
    BY <2>1, <2>2, <1>1
  <2>4. \A y \in es : x.id >= y.id
    BY <2>1, <2>3, <1>1, <1>2 DEF IsNewest
  <2> QED
    BY <2>3, <2>4 DEF IsNewest
<1>6. SameHigh(es, B)
  <2>1. PICK m \in A, e \in ds :
          e.high = m /\ (\A q \in A : q =< m) /\ (\A x \in ds : x.high =< m)
    BY <1>3 DEF Kept, SameHigh
  <2>2. CASE p > m
    <3>1. u.high = p /\ u \in es
      BY <1>1, <1>2, <2>1, <2>2
    <3>2. (\A q \in B : q =< p) /\ (\A x \in es : x.high =< p)
      BY <1>2, <2>1, <2>2, <3>1
    <3> QED
      BY <3>1, <3>2 DEF SameHigh
  <2>3. CASE ~(p > m)
    <3>1. p =< m
      BY <2>3, <2>1
    <3> DEFINE x == IF e = d THEN u ELSE e
    <3>2. u.high =< m /\ (e = d => u.high = m)
      BY <1>1, <1>2, <2>1, <3>1
    <3>3. x \in es /\ x.high = m
      BY <2>1, <3>2
    <3>4. (\A q \in B : q =< m) /\ (\A y \in es : y.high =< m) /\ m \in B
      BY <2>1, <3>1, <3>2
    <3> QED
      BY <3>3, <3>4 DEF SameHigh
  <2> QED
    BY <2>2, <2>3
<1>7. SameLow(es, B)
  <2>1. PICK m \in A, e \in ds :
          e.low = m /\ (\A q \in A : m =< q) /\ (\A x \in ds : m =< x.low)
    BY <1>3 DEF Kept, SameLow
  <2>2. CASE p < m
    <3>1. u.low = p /\ u \in es
      BY <1>1, <1>2, <2>1, <2>2
    <3>2. (\A q \in B : p =< q) /\ (\A x \in es : p =< x.low)
      BY <1>2, <2>1, <2>2, <3>1
    <3> QED
      BY <3>1, <3>2 DEF SameLow
  <2>3. CASE ~(p < m)
    <3>1. m =< p
      BY <2>3, <2>1
    <3> DEFINE x == IF e = d THEN u ELSE e
    <3>2. m =< u.low /\ (e = d => u.low = m)
      BY <1>1, <1>2, <2>1, <3>1
    <3>3. x \in es /\ x.low = m
      BY <2>1, <3>2
    <3>4. (\A q \in B : m =< q) /\ (\A y \in es : m =< y.low) /\ m \in B
      BY <2>1, <3>1, <3>2
    <3> QED
      BY <3>3, <3>4 DEF SameLow
  <2> QED
    BY <2>2, <2>3
<1> HIDE DEF es, B, g
<1>8. B # {}
  BY DEF B
<1>9. Kept(es, B, f, g)
  BY <1>4, <1>5, <1>6, <1>7, <1>8 DEF Kept
<1> QED
  BY <1>9 DEF es, B, g, u

\* The first price of a minute makes a document.
LEMMA KeptInserted ==
  ASSUME NEW ds \in SUBSET Doc, NEW A \in SUBSET Nat, NEW f, NEW l,
         Kept(ds, A, f, l), NEW p \in Nat, NEW n \in Doc,
         n.open = p, n.close = p, n.high = p, n.low = p, \A e \in ds : e.id < n.id
  PROVE  Kept(ds \cup {n}, A \cup {p}, IF A = {} THEN p ELSE f, p)
<1> DEFINE es == ds \cup {n}
           B == A \cup {p}
           k == IF A = {} THEN p ELSE f
<1>1. \A e \in es : e.id \in Nat /\ e.high \in Nat /\ e.low \in Nat
  BY DEF Doc
<1>2. n \in es /\ p \in B
  OBVIOUS
<1>3. \E e \in es : IsNewest(e, es) /\ e.close = p
  <2>1. IsNewest(n, es)
    BY <1>1, <1>2 DEF IsNewest
  <2> QED
    BY <2>1
<1>4. CASE A = {}
  <2>1. es = {n} /\ B = {p} /\ k = p
    BY <1>4 DEF Kept
  <2> HIDE DEF es, B, k
  <2>2. IsOldest(n, es) /\ n.open = k
    BY <1>1, <2>1 DEF IsOldest
  <2>3. SameHigh(es, B) /\ SameLow(es, B)
    BY <1>1, <2>1 DEF SameHigh, SameLow
  <2>4. Kept(es, B, k, p)
    BY <1>2, <1>3, <2>2, <2>3 DEF Kept, IsOldest
  <2> QED
    BY <2>4 DEF es, B, k
<1>5. CASE A # {}
  <2>1. \E e \in es : IsOldest(e, es) /\ e.open = k
    <3>1. PICK e \in ds : IsOldest(e, ds) /\ e.open = f
      BY <1>5 DEF Kept
    <3>2. IsOldest(e, es)
      BY <3>1, <1>1 DEF IsOldest
    <3> QED
      BY <1>5, <3>1, <3>2
  <2>2. SameHigh(es, B)
    <3>1. PICK m \in A, e \in ds :
            e.high = m /\ (\A q \in A : q =< m) /\ (\A x \in ds : x.high =< m)
      BY <1>5 DEF Kept, SameHigh
    <3>2. CASE p > m
      <4>1. (\A q \in B : q =< p) /\ (\A x \in es : x.high =< p)
        BY <1>1, <3>1, <3>2
      <4> QED
        BY <4>1, <1>2 DEF SameHigh
    <3>3. CASE ~(p > m)
      <4>1. (\A q \in B : q =< m) /\ (\A x \in es : x.high =< m)
        BY <1>1, <3>1, <3>3
      <4> QED
        BY <4>1, <3>1 DEF SameHigh
    <3> QED
      BY <3>2, <3>3
  <2>3. SameLow(es, B)
    <3>1. PICK m \in A, e \in ds :
            e.low = m /\ (\A q \in A : m =< q) /\ (\A x \in ds : m =< x.low)
      BY <1>5 DEF Kept, SameLow
    <3>2. CASE p < m
      <4>1. (\A q \in B : p =< q) /\ (\A x \in es : p =< x.low)
        BY <1>1, <3>1, <3>2
      <4> QED
        BY <4>1, <1>2 DEF SameLow
    <3>3. CASE ~(p < m)
      <4>1. (\A q \in B : m =< q) /\ (\A x \in es : m =< x.low)
        BY <1>1, <3>1, <3>3
      <4> QED
        BY <4>1, <3>1 DEF SameLow
    <3> QED
      BY <3>2, <3>3
  <2>4. B # {}
    BY <1>2
  <2> HIDE DEF es, B, k
  <2>5. Kept(es, B, k, p)
    BY <2>1, <2>2, <2>3, <2>4, <1>3 DEF Kept
  <2> QED
    BY <2>5 DEF es, B, k
<1> QED
  BY <1>4, <1>5

\* One document takes the place of those of the hour.
LEMMA KeptSummarized ==
  ASSUME NEW ds \in SUBSET Doc, Distinct(ds), ds # {}, NEW A \in SUBSET Nat, NEW f, NEW l,
         Kept(ds, A, f, l), NEW n, n.id \in Nat,
         n.open = Oldest(ds).open, n.close = Newest(ds).close,
         n.high = Highest(ds), n.low = Lowest(ds)
  PROVE  Kept({n}, A, f, l)
<1>1. A # {} /\ n.open = f /\ n.close = l
  BY KeptShows DEF Kept
<1>2. SameHigh(ds, A) /\ SameLow(ds, A)
  BY <1>1 DEF Kept
<1>3. SameHigh({n}, A)
  <2>1. n.high \in A /\ \A p \in A : p =< n.high
    BY <1>2, HighestIs
  <2> QED
    BY <2>1 DEF SameHigh
<1>4. SameLow({n}, A)
  <2>1. n.low \in A /\ \A p \in A : n.low =< p
    BY <1>2, LowestIs
  <2> QED
    BY <2>1 DEF SameLow
<1> QED
  BY <1>1, <1>3, <1>4 DEF Kept, IsOldest, IsNewest

LEMMA OldestExists ==
  ASSUME NEW ds \in SUBSET Doc, ds # {}
  PROVE  Oldest(ds) \in ds
<1> DEFINE N == {d.id : d \in ds}
<1>1. N \in SUBSET Nat /\ N # {}
  BY DEF Doc
<1>2. PICK m \in N : \A n \in N : m =< n
  <2> HIDE DEF N
  <2> QED
    BY <1>1, LeastNumber
<1>3. PICK d \in ds : d.id = m
  BY <1>2
<1>4. \A e \in ds : d.id =< e.id
  BY <1>2, <1>3
<1> QED
  BY <1>4 DEF Oldest

LEMMA HourOf ==
  /\ \A m \in 0 .. Minutes : Hour(m) \in Hours
  /\ \A m, n \in Nat : Hour(m) = n => m =< 2 * n + 1
  /\ \A n \in Nat : Hour(2 * n) = n
  /\ Hours \subseteq Nat
BY PriceAssumption DEF Hours, Hour

\* A change of the documents of one hour.
LEMMA Elsewhere ==
  ASSUME NEW h, NEW X \in SUBSET OfHour(h), NEW u, Hour(u.start) = h,
         docs' = (docs \ X) \cup {u}
  PROVE  /\ OfHour(h)' = (OfHour(h) \ X) \cup {u}
         /\ \A g : g # h => OfHour(g)' = OfHour(g)
BY DEF OfHour

LEMMA PriceInitInv ==
  ASSUME PriceInit
  PROVE  HistoryInv
<1>1. Types
  <2>1. now \in 0 .. Minutes /\ born \in Nat /\ docs \subseteq Doc /\ Distinct(docs)
        /\ \A d \in docs : d.id =< born
    BY PriceAssumption DEF PriceInit, Distinct
  <2>2. [Idle EXCEPT !.pc = "unused"] = [pc |-> "unused", minute |-> 0, price |-> 0]
    BY DEF Idle
  <2>3. [Off EXCEPT !.pc = "unused"] = [pc |-> "unused", read |-> {}]
    BY DEF Off
  <2>4. report = [k \in 1 .. Reports |-> [pc |-> "unused", minute |-> 0, price |-> 0]]
    BY <2>2 DEF PriceInit
  <2>5. task = [c \in 1 .. Calls |-> [h \in Hours |-> [pc |-> "unused", read |-> {}]]]
    BY <2>3 DEF PriceInit
  <2>6. applied \in [Hours -> SUBSET Nat] /\ first \in [Hours -> Nat] /\ last \in [Hours -> Nat]
    BY DEF PriceInit
  <2> QED
    BY <2>1, <2>4, <2>5, <2>6 DEF Types
<1>2. HoursOK
  BY DEF PriceInit, HoursOK, Kept, OfHour
<1>3. ReportsOK
  BY DEF PriceInit, ReportsOK, Idle
<1>4. TasksOK
  BY DEF PriceInit, TasksOK, TaskOK, Off
<1> QED
  BY <1>1, <1>2, <1>3, <1>4 DEF HistoryInv

LEMMA HoursStay ==
  ASSUME HoursOK, UNCHANGED <<docs, history>>
  PROVE  HoursOK'
BY DEF HoursOK, OfHour, history

\* Nothing but the tasks, which may start on closed hours, changes.
LEMMA TasksStay ==
  ASSUME Types, TasksOK, UNCHANGED <<docs, born>>, now' \in Nat, now =< now',
         \A c \in 1 .. Calls, h \in Hours :
           task'[c][h] = task[c][h] \/ task'[c][h].pc \notin {"find", "save"}
  PROVE  TasksOK'
<1> SUFFICES ASSUME NEW c \in 1 .. Calls, NEW h \in Hours
             PROVE  TaskOK(task[c][h], h)'
  BY DEF TasksOK
<1>1. OfHour(h)' = OfHour(h)
  BY DEF OfHour
<1>2. now \in Nat /\ h \in Nat /\ Age \in Nat
  BY PriceAssumption, HourOf DEF Types
<1>3. TaskOK(task[c][h], h)
  BY DEF TasksOK
<1>4. CASE task'[c][h] = task[c][h]
  BY <1>1, <1>2, <1>3, <1>4 DEF TaskOK
<1>5. CASE task'[c][h].pc \notin {"find", "save"}
  BY <1>5 DEF TaskOK
<1> QED
  BY <1>4, <1>5

\* The report of a price changes the documents of an hour that is not closed.
LEMMA TasksAway ==
  ASSUME Types, TasksOK, UNCHANGED <<now, task>>,
         NEW m \in Nat, now - 1 =< m,
         NEW X \in SUBSET OfHour(Hour(m)), NEW u, Hour(u.start) = Hour(m),
         docs' = (docs \ X) \cup {u}, born' \in Nat, born =< born'
  PROVE  TasksOK'
<1> SUFFICES ASSUME NEW c \in 1 .. Calls, NEW h \in Hours
             PROVE  TaskOK(task[c][h], h)'
  BY DEF TasksOK
<1> DEFINE t == task[c][h]
<1>1. TaskOK(t, h)
  BY DEF TasksOK
<1>2. now \in Nat /\ h \in Nat /\ Age \in Nat /\ Age >= 2 /\ born \in Nat
  BY PriceAssumption, HourOf DEF Types
<1>3. t.read \subseteq Doc /\ t' = t
  BY DEF Types
<1>4. CASE t.pc \in {"find", "save"}
  <2>1. Hour(m) # h
    <3>1. 2 * h < now - Age
      BY <1>1, <1>4 DEF TaskOK
    <3>2. ~(m =< 2 * h + 1)
      BY <3>1, <1>2
    <3> QED
      BY <3>2, <1>2, HourOf
  <2>2. OfHour(h)' = OfHour(h)
    BY <2>1, Elsewhere
  <2>3. \A r \in t.read : Hour(r.start) = h /\ r \notin docs => r \notin docs'
    BY <2>1
  <2>4. \A r \in t.read : r.id \in Nat /\ (r.id =< born => r.id =< born')
    BY <1>2, <1>3 DEF Doc
  <2>5. TaskOK(t, h)'
    BY <1>1, <1>2, <1>3, <2>2, <2>3, <2>4 DEF TaskOK
  <2> QED
    BY <2>5
<1>5. CASE t.pc \notin {"find", "save"}
  BY <1>3, <1>5 DEF TaskOK
<1> QED
  BY <1>4, <1>5

Report == [pc : {"unused", "off", "find", "insert"}, minute : Nat, price : Nat]
Operation == [pc : {"unused", "off", "find", "save"}, read : SUBSET Doc]

LEMMA ReportSet ==
  ASSUME Types, NEW k \in 1 .. Reports, NEW r \in Report,
         report' = [report EXCEPT ![k] = r]
  PROVE  /\ report' \in [1 .. Reports -> Report]
         /\ \A j \in 1 .. Reports : report'[j] = IF j = k THEN r ELSE report[j]
BY DEF Types, Report

LEMMA TaskSet ==
  ASSUME Types, NEW c \in 1 .. Calls, NEW h \in Hours, NEW t \in Operation,
         task' = [task EXCEPT ![c][h] = t]
  PROVE  /\ task' \in [1 .. Calls -> [Hours -> Operation]]
         /\ \A b \in 1 .. Calls, g \in Hours :
              task'[b][g] = IF b = c /\ g = h THEN t ELSE task[b][g]
<1>1. task \in [1 .. Calls -> [Hours -> Operation]]
  BY DEF Types, Operation
<1> QED
  BY <1>1

\* A report that waits names a minute of the clock, and so an hour of it.
LEMMA MinuteOf ==
  ASSUME Types, ReportsOK, NEW k \in 1 .. Reports, report[k].pc \in {"find", "insert"}
  PROVE  /\ report[k].minute \in Nat /\ report[k].price \in Nat
         /\ report[k].minute \in 0 .. Minutes /\ Hour(report[k].minute) \in Hours
         /\ now - 1 =< report[k].minute
<1>1. report[k].minute \in Nat /\ report[k].price \in Nat
  BY DEF Types
<1>2. report[k].minute =< now /\ now - 1 =< report[k].minute
  BY DEF ReportsOK
<1>3. report[k].minute \in 0 .. Minutes
  BY <1>1, <1>2, PriceAssumption DEF Types
<1> QED
  BY <1>1, <1>2, <1>3, HourOf

LEMMA OfHourDocs ==
  ASSUME Types, NEW h
  PROVE  OfHour(h) \in SUBSET Doc /\ OfHour(h) \subseteq docs /\ Distinct(OfHour(h))
BY DEF Types, OfHour, Distinct

LEMMA TickKeeps ==
  ASSUME HistoryInv, Tick
  PROVE  HistoryInv'
<1>1. Types /\ HoursOK /\ ReportsOK /\ TasksOK
  BY DEF HistoryInv
<1>2. now \in 0 .. Minutes /\ now' = now + 1 /\ now < Minutes /\ Minutes \in Nat
      /\ UNCHANGED <<docs, report, task, born, applied, first, last>>
  BY <1>1, PriceAssumption DEF Tick, Types, history
<1>3. Types'
  BY <1>1, <1>2 DEF Types
<1>4. HoursOK'
  BY <1>1, <1>2, HoursStay DEF history
<1>5. ReportsOK'
  <2>1. \A k \in 1 .. Reports : report[k].pc \in {"find", "insert"} => report[k].minute = now
    BY <1>1 DEF Tick, Types
  <2> QED
    BY <1>2, <2>1 DEF ReportsOK
<1>6. TasksOK'
  BY <1>1, <1>2, TasksStay
<1> QED
  BY <1>3, <1>4, <1>5, <1>6 DEF HistoryInv

\* Calls of createOne that do not reach the collection.
LEMMA ReportKeeps ==
  ASSUME HistoryInv, UNCHANGED <<now, docs, task, born, history>>,
         report' \in [1 .. Reports -> Report],
         \A k \in 1 .. Reports :
           report'[k].pc \in {"find", "insert"} =>
             \/ report'[k].minute = now
             \/ report[k].pc \in {"find", "insert"} /\ report'[k].minute = report[k].minute
  PROVE  HistoryInv'
<1>1. Types /\ HoursOK /\ ReportsOK /\ TasksOK
  BY DEF HistoryInv
<1>2. Types'
  BY <1>1 DEF Types, Report, history
<1>3. HoursOK'
  BY <1>1, HoursStay
<1>4. ReportsOK'
  <2>1. now \in Nat
    BY <1>1 DEF Types
  <2> QED
    BY <1>1, <2>1 DEF ReportsOK
<1>5. TasksOK'
  <2>1. now \in Nat
    BY <1>1 DEF Types
  <2> QED
    BY <1>1, <2>1, TasksStay
<1> QED
  BY <1>2, <1>3, <1>4, <1>5 DEF HistoryInv

LEMMA CreateOneKeeps ==
  ASSUME HistoryInv, NEW k \in 1 .. Reports, CreateOne(k)
  PROVE  HistoryInv'
<1>1. Types
  BY DEF HistoryInv
<1>2. PICK p \in Prices : report' = [report EXCEPT ![k] = [pc |-> "find", minute |-> now, price |-> p]]
  BY DEF CreateOne
<1>3. [pc |-> "find", minute |-> now, price |-> p] \in Report
  BY <1>1, PriceAssumption DEF Types, Report
<1>4. /\ report' \in [1 .. Reports -> Report]
      /\ \A j \in 1 .. Reports : report'[j] =
           IF j = k THEN [pc |-> "find", minute |-> now, price |-> p] ELSE report[j]
  BY <1>1, <1>2, <1>3, ReportSet
<1> QED
  BY <1>4, ReportKeeps DEF CreateOne

LEMMA NotFoundKeeps ==
  ASSUME HistoryInv, NEW k \in 1 .. Reports, NotFound(k)
  PROVE  HistoryInv'
<1>1. Types
  BY DEF HistoryInv
<1> DEFINE r == [report[k] EXCEPT !.pc = "insert"]
<1>2. report' = [report EXCEPT ![k] = r]
  BY <1>1 DEF NotFound, Types
<1>3. r \in Report /\ r.pc = "insert" /\ r.minute = report[k].minute
  BY <1>1 DEF Types, Report
<1>4. /\ report' \in [1 .. Reports -> Report]
      /\ \A j \in 1 .. Reports : report'[j] = IF j = k THEN r ELSE report[j]
  <2> HIDE DEF r
  <2> QED
    BY <1>1, <1>2, <1>3, ReportSet
<1>5. report[k].pc = "find" /\ UNCHANGED <<now, docs, task, born, history>>
  BY DEF NotFound
<1> HIDE DEF r
<1> QED
  BY <1>3, <1>4, <1>5, ReportKeeps

LEMMA CreateFailsKeeps ==
  ASSUME HistoryInv, NEW k \in 1 .. Reports, CreateFails(k)
  PROVE  HistoryInv'
<1>1. Types
  BY DEF HistoryInv
<1>2. Idle \in Report /\ Idle.pc = "off"
  BY DEF Report, Idle
<1>3. report' = [report EXCEPT ![k] = Idle] /\ UNCHANGED <<now, docs, task, born, history>>
  BY DEF CreateFails
<1>4. /\ report' \in [1 .. Reports -> Report]
      /\ \A j \in 1 .. Reports : report'[j] = IF j = k THEN Idle ELSE report[j]
  BY <1>1, <1>2, <1>3, ReportSet
<1> QED
  BY <1>2, <1>3, <1>4, ReportKeeps

\* What a price written to the documents of its hour has to keep.
LEMMA WriteKeeps ==
  ASSUME HistoryInv, NEW k \in 1 .. Reports, report[k].pc \in {"find", "insert"},
         UNCHANGED <<now, task>>, report' = [report EXCEPT ![k] = Idle],
         NEW h, h = Hour(report[k].minute),
         NEW X \in SUBSET OfHour(h), NEW u \in Doc, Hour(u.start) = h,
         docs' = (docs \ X) \cup {u}, Distinct(docs'),
         born' \in Nat, born =< born', u.id =< born',
         applied' = [applied EXCEPT ![h] = @ \cup {report[k].price}],
         NEW f \in Nat, first' = [first EXCEPT ![h] = f],
         NEW l \in Nat, last' = [last EXCEPT ![h] = l],
         Kept((OfHour(h) \ X) \cup {u}, applied[h] \cup {report[k].price}, f, l)
  PROVE  HistoryInv'
<1>1. Types /\ HoursOK /\ ReportsOK /\ TasksOK
  BY DEF HistoryInv
<1>2. /\ report[k].minute \in Nat /\ report[k].price \in Nat /\ h \in Hours
      /\ now - 1 =< report[k].minute
  BY <1>1, MinuteOf
<1>3. Idle \in Report /\ Idle.pc = "off"
  BY DEF Report, Idle
<1>4. /\ report' \in [1 .. Reports -> Report]
      /\ \A j \in 1 .. Reports : report'[j] = IF j = k THEN Idle ELSE report[j]
  BY <1>1, <1>3, ReportSet
<1>5. Types'
  <2>1. docs' \subseteq Doc /\ \A d \in docs' : d.id =< born'
    <3>1. \A d \in docs : d \in Doc /\ d.id \in Nat /\ d.id =< born /\ born \in Nat
      BY <1>1 DEF Types, Doc
    <3> QED
      BY <3>1
  <2>2. applied' \in [Hours -> SUBSET Nat] /\ first' \in [Hours -> Nat] /\ last' \in [Hours -> Nat]
    BY <1>1, <1>2 DEF Types
  <2>3. now' \in 0 .. Minutes
    BY <1>1 DEF Types
  <2>4. task' \in [1 .. Calls -> [Hours -> Operation]]
    BY <1>1 DEF Types, Operation
  <2> QED
    BY <1>4, <2>1, <2>2, <2>3, <2>4 DEF Types, Report, Operation
<1>6. HoursOK'
  <2> SUFFICES ASSUME NEW g \in Hours
               PROVE  Kept(OfHour(g)', applied'[g], first'[g], last'[g])
    BY DEF HoursOK
  <2>1. /\ OfHour(h)' = (OfHour(h) \ X) \cup {u}
        /\ g # h => OfHour(g)' = OfHour(g)
    BY Elsewhere
  <2>2. CASE g = h
    BY <1>1, <2>1, <2>2 DEF Types
  <2>3. CASE g # h
    <3>1. applied'[g] = applied[g] /\ first'[g] = first[g] /\ last'[g] = last[g]
      BY <1>1, <2>3 DEF Types
    <3> QED
      BY <1>1, <2>1, <2>3, <3>1 DEF HoursOK
  <2> QED
    BY <2>2, <2>3
<1>7. ReportsOK'
  BY <1>1, <1>3, <1>4 DEF ReportsOK
<1>8. TasksOK'
  BY <1>1, <1>2, TasksAway
<1> QED
  BY <1>5, <1>6, <1>7, <1>8 DEF HistoryInv

LEMMA FindOneAndUpdateKeeps ==
  ASSUME HistoryInv, NEW k \in 1 .. Reports, FindOneAndUpdate(k)
  PROVE  HistoryInv'
<1> DEFINE r == report[k]
           h == Hour(r.minute)
           d == Oldest(OfMinute(r.minute))
           u == Updated(d, r.price)
           l == IF d = Newest(OfHour(h)) THEN r.price ELSE last[h]
<1>1. Types /\ HoursOK /\ ReportsOK /\ TasksOK
  BY DEF HistoryInv
<1>2. /\ r.pc = "find" /\ OfMinute(r.minute) # {}
      /\ docs' = (docs \ {d}) \cup {u}
      /\ applied' = [applied EXCEPT ![h] = @ \cup {r.price}]
      /\ last' = IF d = Newest(OfHour(h)) THEN [last EXCEPT ![h] = r.price] ELSE last
      /\ report' = [report EXCEPT ![k] = Idle]
      /\ UNCHANGED <<now, task, born, first>>
  BY DEF FindOneAndUpdate
<1>3. r.minute \in Nat /\ r.price \in Nat /\ h \in Hours
  BY <1>1, <1>2, MinuteOf
<1>4. d \in docs /\ d.start = r.minute
  <2>1. OfMinute(r.minute) \in SUBSET Doc
    BY <1>1 DEF OfMinute, Types
  <2>2. d \in OfMinute(r.minute)
    BY <1>2, <2>1, OldestExists
  <2> QED
    BY <2>2 DEF OfMinute
<1> HIDE DEF d
<1>5. d \in Doc /\ d.id \in Nat /\ d.id =< born /\ d \in OfHour(h)
  BY <1>1, <1>4 DEF Types, Doc, OfHour
<1>6. u \in Doc /\ u.id = d.id /\ Hour(u.start) = h
  BY <1>3, <1>4, <1>5 DEF Updated, Doc
<1> HIDE DEF u
<1>7. Distinct(docs')
  BY <1>1, <1>2, <1>4, <1>6 DEF Types, Distinct
<1>8. last' = [last EXCEPT ![h] = l] /\ first' = [first EXCEPT ![h] = first[h]]
      /\ l \in Nat /\ first[h] \in Nat
  BY <1>1, <1>2, <1>3 DEF Types
<1>9. Kept((OfHour(h) \ {d}) \cup {u}, applied[h] \cup {r.price}, first[h], l)
  <2>1. /\ OfHour(h) \in SUBSET Doc /\ Distinct(OfHour(h)) /\ applied[h] \in SUBSET Nat
        /\ Kept(OfHour(h), applied[h], first[h], last[h])
    BY <1>1, <1>3, OfHourDocs DEF HoursOK, Types
  <2> HIDE DEF h
  <2> QED
    BY <1>3, <1>5, <2>1, KeptUpdated DEF u
<1>10. born' \in Nat /\ born =< born' /\ u.id =< born'
  BY <1>1, <1>2, <1>5, <1>6 DEF Types
<1> DEFINE X == {d}
<1>11. /\ X \in SUBSET OfHour(h) /\ docs' = (docs \ X) \cup {u}
       /\ Kept((OfHour(h) \ X) \cup {u}, applied[h] \cup {r.price}, first[h], l)
  BY <1>2, <1>5, <1>9
<1> HIDE DEF l, X
<1> QED
  BY <1>2, <1>3, <1>6, <1>7, <1>8, <1>10, <1>11, WriteKeeps

LEMMA UpsertKeeps ==
  ASSUME HistoryInv, NEW k \in 1 .. Reports, Upsert(k)
  PROVE  HistoryInv'
<1> DEFINE r == report[k]
           h == Hour(r.minute)
           u == NewDoc(r.minute, 1, r.price, r.price, r.price, r.price)
           f == IF applied[h] = {} THEN r.price ELSE first[h]
<1>1. Types /\ HoursOK /\ ReportsOK /\ TasksOK
  BY DEF HistoryInv
<1>2. /\ r.pc = "insert"
      /\ docs' = docs \cup {u}
      /\ born' = born + 1
      /\ applied' = [applied EXCEPT ![h] = @ \cup {r.price}]
      /\ first' = IF applied[h] = {} THEN [first EXCEPT ![h] = r.price] ELSE first
      /\ last' = [last EXCEPT ![h] = r.price]
      /\ report' = [report EXCEPT ![k] = Idle]
      /\ UNCHANGED <<now, task>>
  BY DEF Upsert
<1>3. r.minute \in Nat /\ r.price \in Nat /\ h \in Hours
  BY <1>1, <1>2, MinuteOf
<1>4. born \in Nat /\ \A d \in docs : d.id \in Nat /\ d.id =< born
  BY <1>1 DEF Types, Doc
<1>5. /\ u \in Doc /\ u.id = born + 1 /\ u.start = r.minute
      /\ u.open = r.price /\ u.close = r.price /\ u.high = r.price /\ u.low = r.price
  BY <1>3, <1>4 DEF NewDoc, Doc
<1> HIDE DEF u
<1>6. Distinct(docs')
  BY <1>1, <1>2, <1>4, <1>5 DEF Types, Distinct
<1>7. first' = [first EXCEPT ![h] = f] /\ f \in Nat
  BY <1>1, <1>2, <1>3 DEF Types
<1>8. Kept(OfHour(h) \cup {u}, applied[h] \cup {r.price}, f, r.price)
  <2>1. /\ OfHour(h) \in SUBSET Doc /\ OfHour(h) \subseteq docs /\ applied[h] \in SUBSET Nat
        /\ Kept(OfHour(h), applied[h], first[h], last[h])
    BY <1>1, <1>3, OfHourDocs DEF HoursOK, Types
  <2>2. \A e \in OfHour(h) : e.id < u.id
    BY <1>4, <1>5, <2>1
  <2> HIDE DEF h
  <2> QED
    BY <1>3, <1>5, <2>1, <2>2, KeptInserted
<1>9. born' \in Nat /\ born =< born' /\ u.id =< born'
  BY <1>2, <1>4, <1>5
<1>10. Hour(u.start) = h
  BY <1>5
<1> DEFINE X == {}
<1>11. /\ X \in SUBSET OfHour(h) /\ docs' = (docs \ X) \cup {u}
       /\ Kept((OfHour(h) \ X) \cup {u}, applied[h] \cup {r.price}, f, r.price)
  BY <1>2, <1>8
<1> HIDE DEF f, X
<1> QED
  BY <1>2, <1>3, <1>5, <1>6, <1>7, <1>9, <1>10, <1>11, WriteKeeps

\* Operations of summarize that do not reach the collection.
LEMMA OperationKeeps ==
  ASSUME HistoryInv, UNCHANGED <<now, docs, report, born, history>>,
         task' \in [1 .. Calls -> [Hours -> Operation]],
         TasksOK'
  PROVE  HistoryInv'
<1>1. Types /\ HoursOK /\ ReportsOK /\ TasksOK
  BY DEF HistoryInv
<1>2. Types'
  BY <1>1 DEF Types, Operation, history
<1>3. HoursOK'
  BY <1>1, HoursStay
<1>4. ReportsOK'
  BY <1>1 DEF ReportsOK
<1> QED
  BY <1>2, <1>3, <1>4 DEF HistoryInv

LEMMA OffIs == Off \in Operation /\ Off.pc = "off"
BY DEF Off, Operation

LEMMA AbortKeeps ==
  ASSUME HistoryInv, NEW c \in 1 .. Calls, NEW h \in Hours, Abort(c, h)
  PROVE  HistoryInv'
<1>1. Types /\ TasksOK
  BY DEF HistoryInv
<1>2. task' = [task EXCEPT ![c][h] = Off] /\ UNCHANGED <<now, docs, report, born, history>>
  BY DEF Abort
<1>3. /\ task' \in [1 .. Calls -> [Hours -> Operation]]
      /\ \A b \in 1 .. Calls, g \in Hours :
           task'[b][g] = IF b = c /\ g = h THEN Off ELSE task[b][g]
  BY <1>1, <1>2, OffIs, TaskSet
<1>4. TasksOK'
  <2>1. now \in Nat
    BY <1>1 DEF Types
  <2> QED
    BY <1>1, <1>2, <1>3, <2>1, OffIs, TasksStay
<1> QED
  BY <1>2, <1>3, <1>4, OperationKeeps

LEMMA ConflictKeeps ==
  ASSUME HistoryInv, NEW c \in 1 .. Calls, NEW h \in Hours, Conflict(c, h)
  PROVE  HistoryInv'
<1> DEFINE t == [Off EXCEPT !.pc = "find"]
<1>1. Types /\ TasksOK
  BY DEF HistoryInv
<1>2. /\ task[c][h].pc = "save" /\ task' = [task EXCEPT ![c][h] = t]
      /\ UNCHANGED <<now, docs, report, born, history>>
  BY DEF Conflict
<1>3. t \in Operation /\ t.pc = "find"
  BY DEF Off, Operation
<1> HIDE DEF t
<1>4. /\ task' \in [1 .. Calls -> [Hours -> Operation]]
      /\ \A b \in 1 .. Calls, g \in Hours :
           task'[b][g] = IF b = c /\ g = h THEN t ELSE task[b][g]
  BY <1>1, <1>2, <1>3, TaskSet
<1>5. \A b \in 1 .. Calls, g \in Hours : TaskOK(task[b][g], g)
  BY <1>1 DEF TasksOK
<1>6. ASSUME NEW b \in 1 .. Calls, NEW g \in Hours PROVE TaskOK(task[b][g], g)'
  <2>1. CASE b = c /\ g = h
    <3>1. 2 * h < now - Age
      BY <1>2, <1>5 DEF TaskOK
    <3> QED
      BY <1>2, <1>3, <1>4, <2>1, <3>1 DEF TaskOK
  <2>2. CASE ~(b = c /\ g = h)
    <3>1. task'[b][g] = task[b][g]
      BY <1>4, <2>2
    <3> QED
      BY <1>2, <1>5, <3>1 DEF TaskOK, OfHour
  <2> QED
    BY <2>1, <2>2
<1> QED
  BY <1>2, <1>4, <1>6, OperationKeeps DEF TasksOK

LEMMA FindKeeps ==
  ASSUME HistoryInv, NEW c \in 1 .. Calls, NEW h \in Hours, Find(c, h)
  PROVE  HistoryInv'
<1> DEFINE t == IF OfHour(h) = {} THEN Off ELSE [pc |-> "save", read |-> OfHour(h)]
<1>1. Types /\ TasksOK
  BY DEF HistoryInv
<1>2. /\ task[c][h].pc = "find" /\ task' = [task EXCEPT ![c][h] = t]
      /\ UNCHANGED <<now, docs, report, born, history>>
  BY DEF Find
<1>3. OfHour(h) \in SUBSET Doc /\ \A r \in OfHour(h) : r.id =< born /\ Hour(r.start) = h
  BY <1>1 DEF Types, OfHour
<1>4. t \in Operation
  BY <1>3, OffIs DEF Operation
<1>5. t.pc = "off" \/ (t.pc = "save" /\ t.read = OfHour(h) /\ OfHour(h) # {})
  BY OffIs
<1> HIDE DEF t
<1>6. /\ task' \in [1 .. Calls -> [Hours -> Operation]]
      /\ \A b \in 1 .. Calls, g \in Hours :
           task'[b][g] = IF b = c /\ g = h THEN t ELSE task[b][g]
  BY <1>1, <1>2, <1>4, TaskSet
<1>7. \A b \in 1 .. Calls, g \in Hours : TaskOK(task[b][g], g)
  BY <1>1 DEF TasksOK
<1>8. ASSUME NEW b \in 1 .. Calls, NEW g \in Hours PROVE TaskOK(task[b][g], g)'
  <2>1. CASE b = c /\ g = h
    <3>1. 2 * h < now - Age
      BY <1>2, <1>7 DEF TaskOK
    <3>2. OfHour(h)' = OfHour(h)
      BY <1>2 DEF OfHour
    <3> QED
      BY <1>2, <1>3, <1>5, <1>6, <2>1, <3>1, <3>2 DEF TaskOK
  <2>2. CASE ~(b = c /\ g = h)
    <3>1. task'[b][g] = task[b][g]
      BY <1>6, <2>2
    <3> QED
      BY <1>2, <1>7, <3>1 DEF TaskOK, OfHour
  <2> QED
    BY <2>1, <2>2
<1> QED
  BY <1>2, <1>6, <1>8, OperationKeeps DEF TasksOK

LEMMA SummarizeKeeps ==
  ASSUME HistoryInv, NEW c \in 1 .. Calls, Summarize(c)
  PROVE  HistoryInv'
<1> DEFINE t == [Off EXCEPT !.pc = "find"]
<1>1. Types /\ TasksOK
  BY DEF HistoryInv
<1>2. /\ task' = [task EXCEPT ![c] = [h \in Hours |-> IF h \in StartTimes THEN t ELSE Off]]
      /\ UNCHANGED <<now, docs, report, born, history>>
  BY DEF Summarize
<1>3. t \in Operation /\ t.pc = "find"
  BY DEF Off, Operation
<1> HIDE DEF t
<1>4. /\ task' \in [1 .. Calls -> [Hours -> Operation]]
      /\ \A b \in 1 .. Calls, g \in Hours :
           task'[b][g] = IF b # c THEN task[b][g]
                         ELSE IF g \in StartTimes THEN t ELSE Off
  <2>1. task \in [1 .. Calls -> [Hours -> Operation]]
    BY <1>1 DEF Types, Operation
  <2> QED
    BY <1>2, <1>3, <2>1, OffIs
<1>5. \A b \in 1 .. Calls, g \in Hours : TaskOK(task[b][g], g)
  BY <1>1 DEF TasksOK
<1>6. ASSUME NEW b \in 1 .. Calls, NEW g \in Hours PROVE TaskOK(task[b][g], g)'
  <2>1. CASE b = c /\ g \in StartTimes
    <3>1. 2 * g < now - Age
      BY <2>1 DEF StartTimes
    <3>2. task'[b][g] = t
      BY <1>4, <2>1
    <3> QED
      BY <1>2, <1>3, <3>1, <3>2 DEF TaskOK
  <2>2. CASE b = c /\ g \notin StartTimes
    <3>1. task'[b][g] = Off
      BY <1>4, <2>2
    <3> QED
      BY <3>1, OffIs DEF TaskOK
  <2>3. CASE b # c
    <3>1. task'[b][g] = task[b][g]
      BY <1>4, <2>3
    <3> QED
      BY <1>2, <1>5, <3>1 DEF TaskOK, OfHour
  <2> QED
    BY <2>1, <2>2, <2>3
<1> QED
  BY <1>2, <1>4, <1>6, OperationKeeps DEF TasksOK

\* What was read is the hour as it is, and its summary takes its place.
LEMMA CommitKeeps ==
  ASSUME HistoryInv, NEW c \in 1 .. Calls, NEW h \in Hours, Commit(c, h)
  PROVE  HistoryInv'
<1> DEFINE ds == task[c][h].read
           n == Summary(h, ds)
<1>1. Types /\ HoursOK /\ ReportsOK /\ TasksOK
  BY DEF HistoryInv
<1>2. /\ task[c][h].pc = "save" /\ ds \subseteq docs
      /\ docs' = (docs \ ds) \cup {n}
      /\ born' = born + 1
      /\ task' = [task EXCEPT ![c][h] = Off]
      /\ UNCHANGED <<now, report, applied, first, last>>
  BY DEF Commit, Replaced, history
<1>3. TaskOK(task[c][h], h)
  BY <1>1 DEF TasksOK
<1>4. ds = OfHour(h) /\ ds # {}
  BY <1>2, <1>3 DEF TaskOK
<1>5. /\ ds \in SUBSET Doc /\ Distinct(ds) /\ applied[h] \in SUBSET Nat
      /\ first[h] \in Nat /\ last[h] \in Nat
      /\ Kept(ds, applied[h], first[h], last[h])
  <2> HIDE DEF ds
  <2> QED
    BY <1>1, <1>4, OfHourDocs DEF HoursOK, Types
<1>6. born \in Nat /\ \A d \in docs : d.id \in Nat /\ d.id =< born
  BY <1>1 DEF Types, Doc
<1>7. /\ n.id = born + 1 /\ n.start = 2 * h
      /\ n.open = Oldest(ds).open /\ n.close = Newest(ds).close
      /\ n.high = Highest(ds) /\ n.low = Lowest(ds)
      /\ n = [id |-> born + 1, start |-> 2 * h, length |-> 2,
              open |-> Oldest(ds).open, close |-> Newest(ds).close,
              high |-> Highest(ds), low |-> Lowest(ds)]
  BY DEF Summary, NewDoc
<1> HIDE DEF n, ds
<1>8. n \in Doc
  <2>1. applied[h] # {} /\ Oldest(ds).open \in Nat /\ Newest(ds).close \in Nat
    BY <1>4, <1>5, KeptShows DEF Kept
  <2>2. SameHigh(ds, applied[h]) /\ SameLow(ds, applied[h])
    BY <1>5, <2>1 DEF Kept
  <2>3. Highest(ds) \in Nat /\ Lowest(ds) \in Nat
    BY <1>5, <2>2, HighestIs, LowestIs
  <2>4. 2 * h \in Nat
    BY HourOf
  <2> QED
    BY <1>6, <1>7, <2>1, <2>3, <2>4 DEF Doc
<1>9. Kept({n}, applied[h], first[h], last[h])
  <2>1. n.id \in Nat
    BY <1>6, <1>7
  <2> QED
    BY <1>4, <1>5, <1>7, <2>1, KeptSummarized
<1>10. Hour(n.start) = h
  BY <1>7, HourOf
<1>11. /\ OfHour(h)' = {n}
       /\ \A g : g # h => OfHour(g)' = OfHour(g)
  <2>1. ds \in SUBSET OfHour(h)
    BY <1>4
  <2>2. /\ OfHour(h)' = (OfHour(h) \ ds) \cup {n}
        /\ \A g : g # h => OfHour(g)' = OfHour(g)
    BY <1>2, <1>10, <2>1, Elsewhere
  <2> QED
    BY <1>4, <2>2
<1>12. /\ task' \in [1 .. Calls -> [Hours -> Operation]]
       /\ \A b \in 1 .. Calls, g \in Hours :
            task'[b][g] = IF b = c /\ g = h THEN Off ELSE task[b][g]
  BY <1>1, <1>2, OffIs, TaskSet
<1>13. Types'
  <2>1. docs' \subseteq Doc /\ \A d \in docs' : d.id =< born'
    BY <1>1, <1>2, <1>6, <1>7, <1>8 DEF Types
  <2>2. Distinct(docs')
    BY <1>1, <1>2, <1>6, <1>7 DEF Types, Distinct
  <2>3. born' \in Nat
    BY <1>2, <1>6
  <2> QED
    BY <1>1, <1>2, <1>12, <2>1, <2>2, <2>3 DEF Types, Operation
<1>14. HoursOK'
  <2> SUFFICES ASSUME NEW g \in Hours
               PROVE  Kept(OfHour(g)', applied[g], first[g], last[g])
    BY <1>2 DEF HoursOK
  <2>1. CASE g = h
    BY <1>9, <1>11, <2>1
  <2>2. CASE g # h
    BY <1>1, <1>11, <2>2 DEF HoursOK
  <2> QED
    BY <2>1, <2>2
<1>15. ReportsOK'
  BY <1>1, <1>2 DEF ReportsOK
<1>16. TasksOK'
  <2> SUFFICES ASSUME NEW b \in 1 .. Calls, NEW g \in Hours
               PROVE  TaskOK(task[b][g], g)'
    BY DEF TasksOK
  <2> DEFINE t == task[b][g]
  <2>1. CASE b = c /\ g = h
    <3>1. task'[b][g] = Off
      BY <1>12, <2>1
    <3> QED
      BY <3>1, OffIs DEF TaskOK
  <2>2. CASE ~(b = c /\ g = h)
    <3>1. task'[b][g] = t
      BY <1>12, <2>2
    <3>2. TaskOK(t, g)
      BY <1>1 DEF TasksOK
    <3>3. t.read \subseteq Doc
      BY <1>1 DEF Types
    <3>4. CASE t.pc = "save"
      <4>1. \A r \in t.read : r.id \in Nat /\ r.id =< born /\ r # n
        BY <3>2, <3>3, <3>4, <1>6, <1>7 DEF TaskOK, Doc
      <4>2. t.read # {} /\ \A r \in t.read : r.id =< born' /\ Hour(r.start) = g
        BY <3>2, <3>4, <4>1, <1>2, <1>6 DEF TaskOK
      <4>3. \A r \in t.read : r \notin docs => r \notin docs'
        BY <4>1, <1>2
      <4>4. t.read = OfHour(g)' \/ \E r \in t.read : r \notin docs'
        <5>1. CASE \E r \in t.read : r \notin docs
          BY <4>3, <5>1
        <5>2. CASE t.read = OfHour(g) /\ g = h
          <6>1. PICK r \in t.read : TRUE
            BY <4>2
          <6>2. r \notin docs'
            BY <1>2, <1>4, <4>1, <5>2
          <6> QED
            BY <6>2
        <5>3. CASE t.read = OfHour(g) /\ g # h
          BY <1>11, <5>3
        <5> QED
          BY <3>2, <3>4, <5>1, <5>2, <5>3 DEF TaskOK
      <4>5. 2 * g < now - Age
        BY <3>2, <3>4 DEF TaskOK
      <4> QED
        BY <1>2, <3>1, <3>4, <4>2, <4>4, <4>5 DEF TaskOK
    <3>5. CASE t.pc # "save"
      BY <1>2, <3>1, <3>2, <3>5 DEF TaskOK
    <3> QED
      BY <3>4, <3>5
  <2> QED
    BY <2>1, <2>2
<1> QED
  BY <1>13, <1>14, <1>15, <1>16 DEF HistoryInv

LEMMA RestartKeeps ==
  ASSUME HistoryInv, Restart
  PROVE  HistoryInv'
<1>1. Types /\ HoursOK /\ ReportsOK /\ TasksOK
  BY DEF HistoryInv
<1>2. /\ report' = [k \in DOMAIN report |-> IF report[k].pc = "unused" THEN report[k] ELSE Idle]
      /\ task' = [c \in DOMAIN task |-> [h \in Hours |->
                   IF task[c][h].pc = "unused" THEN task[c][h] ELSE Off]]
      /\ UNCHANGED <<now, docs, born, history>>
  BY DEF Restart
<1>3. report \in [1 .. Reports -> Report] /\ task \in [1 .. Calls -> [Hours -> Operation]]
  BY <1>1 DEF Types, Report, Operation
<1>4. Idle \in Report /\ Idle.pc = "off"
  BY DEF Report, Idle
<1>5. /\ report' \in [1 .. Reports -> Report]
      /\ \A k \in 1 .. Reports : report'[k].pc \notin {"find", "insert"}
  BY <1>2, <1>3, <1>4
<1>6. /\ task' \in [1 .. Calls -> [Hours -> Operation]]
      /\ \A c \in 1 .. Calls, h \in Hours : task'[c][h].pc \notin {"find", "save"}
  BY <1>2, <1>3, OffIs
<1>7. Types'
  BY <1>1, <1>2, <1>5, <1>6 DEF Types, Report, Operation, history
<1>8. HoursOK'
  BY <1>1, <1>2, HoursStay
<1>9. ReportsOK'
  BY <1>5 DEF ReportsOK
<1>10. TasksOK'
  BY <1>6 DEF TasksOK, TaskOK
<1> QED
  BY <1>7, <1>8, <1>9, <1>10 DEF HistoryInv

LEMMA PriceNextKeeps ==
  ASSUME HistoryInv, [PriceNext]_priceVars
  PROVE  HistoryInv'
<1>1. CASE Tick
  BY <1>1, TickKeeps
<1>2. CASE Restart
  BY <1>2, RestartKeeps
<1>3. ASSUME NEW k \in 1 .. Reports,
             CreateOne(k) \/ FindOneAndUpdate(k) \/ NotFound(k) \/ Upsert(k) \/ CreateFails(k)
      PROVE  HistoryInv'
  BY <1>3, CreateOneKeeps, FindOneAndUpdateKeeps, NotFoundKeeps, UpsertKeeps, CreateFailsKeeps
<1>4. ASSUME NEW c \in 1 .. Calls, Summarize(c)
      PROVE  HistoryInv'
  BY <1>4, SummarizeKeeps
<1>5. ASSUME NEW c \in 1 .. Calls, NEW h \in Hours,
             Find(c, h) \/ Commit(c, h) \/ Conflict(c, h) \/ Abort(c, h)
      PROVE  HistoryInv'
  BY <1>5, FindKeeps, CommitKeeps, ConflictKeeps, AbortKeeps
<1>6. CASE UNCHANGED priceVars
  BY <1>6 DEF priceVars, history, HistoryInv, Types, HoursOK, ReportsOK, TasksOK, TaskOK, OfHour
<1> QED
  BY <1>1, <1>2, <1>3, <1>4, <1>5, <1>6 DEF PriceNext

LEMMA InvShows ==
  ASSUME HistoryInv
  PROVE  HourIsKept
<1> SUFFICES ASSUME NEW h \in Hours
             PROVE  LET ds == OfHour(h)
                    IN IF applied[h] = {} THEN ds = {}
                       ELSE /\ ds # {}
                            /\ Oldest(ds).open = first[h] /\ Newest(ds).close = last[h]
                            /\ Highest(ds) = Max(applied[h]) /\ Lowest(ds) = Min(applied[h])
  BY DEF HourIsKept
<1>1. Types /\ HoursOK
  BY DEF HistoryInv
<1>2. /\ OfHour(h) \in SUBSET Doc /\ Distinct(OfHour(h)) /\ applied[h] \in SUBSET Nat
      /\ Kept(OfHour(h), applied[h], first[h], last[h])
  BY <1>1, OfHourDocs DEF HoursOK, Types
<1> QED
  BY <1>2, KeptShows

\* However the calls of createOne and summarize overlap, fail or are cut short,
\* each hour shows what opened and closed it, its highest and its lowest price.
THEOREM PriceHourIsKept == PriceSpec => []HourIsKept
<1>1. PriceSpec => []HistoryInv
  BY PriceInitInv, PriceNextKeeps, PTL DEF PriceSpec
<1> QED
  BY <1>1, InvShows, PTL
=============================================================================
