---------------------------- MODULE BalanceProofs ----------------------------
(***************************************************************************)
(* What each operation of BalanceOps gives, for every wallet: the lemmas   *)
(* that the proofs about the ledger and about the protocols share.         *)
(***************************************************************************)
EXTENDS BalanceOps, FiniteSetTheorems, TLAPS

(***************************************************************************)
(* Abs is the modulus of an integer.                                       *)
(***************************************************************************)
LEMMA AbsIsModulus ==
  ASSUME NEW n \in Int
  PROVE  /\ Abs(n) \in Nat
         /\ n >= 0 => Abs(n) = n
         /\ n =< 0 => Abs(n) = -n
BY DEF Abs

(***************************************************************************)
(* Each operation on a wallet gives a wallet, and what it gives.           *)
(***************************************************************************)
LEMMA AddGives ==
  ASSUME NEW Ops, NEW w, IsWallet(w, Ops), NEW op \in Ops, NEW amount \in Int
  PROVE  /\ IsWallet(Add(w, op, amount), Ops)
         /\ Add(w, op, amount).available = w.available + (IF amount < 0 THEN amount ELSE 0)
         /\ DOMAIN Add(w, op, amount).pending = DOMAIN w.pending \cup {op}
         /\ Add(w, op, amount).pending[op] = amount
         /\ \A o \in DOMAIN w.pending \ {op} : Add(w, op, amount).pending[o] = w.pending[o]
<1>1. Abs(amount) \in Nat
  BY AbsIsModulus
<1> QED
  BY <1>1 DEF IsWallet, Add

LEMMA RemoveGives ==
  ASSUME NEW Ops, NEW w, IsWallet(w, Ops), NEW op, HasOp(w, op), NEW change \in Int
  PROVE  /\ IsWallet(RemoveOp(w, op, change), Ops)
         /\ RemoveOp(w, op, change).available = w.available + change
         /\ DOMAIN RemoveOp(w, op, change).pending = DOMAIN w.pending \ {op}
         /\ \A o \in DOMAIN w.pending \ {op} : RemoveOp(w, op, change).pending[o] = w.pending[o]
<1>1. w.pending[op] \in Int
  BY DEF IsWallet, HasOp
<1>2. Abs(w.pending[op]) \in Nat
  BY <1>1, AbsIsModulus
<1> QED
  BY <1>1, <1>2 DEF IsWallet, HasOp, RemoveOp

(***************************************************************************)
(* Adding an increase and completing it at once only adds it to the        *)
(* available balance.                                                      *)
(***************************************************************************)
LEMMA CreditGives ==
  ASSUME NEW Ops, NEW w, IsWallet(w, Ops), NEW op \in Ops, ~HasOp(w, op),
         NEW amount \in Nat \ {0}
  PROVE  LET v == Complete(Add(w, op, amount), op, 0)
         IN  /\ IsWallet(v, Ops)
             /\ v.available = w.available + amount
             /\ DOMAIN v.pending = DOMAIN w.pending
             /\ \A o \in DOMAIN w.pending : v.pending[o] = w.pending[o]
<1> DEFINE u == Add(w, op, amount)
<1>1. /\ IsWallet(u, Ops)
      /\ u.available = w.available
      /\ DOMAIN u.pending = DOMAIN w.pending \cup {op}
      /\ u.pending[op] = amount
      /\ \A o \in DOMAIN w.pending \ {op} : u.pending[o] = w.pending[o]
  <2>1. w.available \in Int
    BY DEF IsWallet
  <2> QED
    BY <2>1, AddGives
<1>2. HasOp(u, op)
  BY <1>1 DEF HasOp
<1> HIDE DEF u
<1>3. Complete(u, op, 0) = RemoveOp(u, op, amount)
  BY <1>1 DEF Complete, IsTotal, CompleteTotal
<1>4. op \notin DOMAIN w.pending
  BY DEF HasOp
<1>5. /\ IsWallet(RemoveOp(u, op, amount), Ops)
      /\ RemoveOp(u, op, amount).available = u.available + amount
      /\ DOMAIN RemoveOp(u, op, amount).pending = DOMAIN u.pending \ {op}
      /\ \A o \in DOMAIN u.pending \ {op} : RemoveOp(u, op, amount).pending[o] = u.pending[o]
  BY <1>1, <1>2, RemoveGives
<1> QED
  BY <1>1, <1>3, <1>4, <1>5 DEF u

LEMMA PartialGives ==
  ASSUME NEW Ops, NEW w, IsWallet(w, Ops), NEW op, HasOp(w, op), NEW amount \in Nat
  PROVE  LET p == w.pending[op]
             v == CompletePartial(w, op, amount)
         IN  /\ IsWallet(v, Ops)
             /\ v.available = w.available + (IF p > 0 THEN amount ELSE 0)
             /\ DOMAIN v.pending = DOMAIN w.pending
             /\ v.pending[op] = IF p > 0 THEN p - amount ELSE p + amount
             /\ \A o \in DOMAIN w.pending \ {op} : v.pending[o] = w.pending[o]
<1>1. w.pending[op] \in Int
  BY DEF IsWallet, HasOp
<1>2. Abs(amount) = amount
  BY AbsIsModulus
<1>3. Towards(w.pending[op], amount) = IF w.pending[op] > 0 THEN -amount ELSE amount
  BY <1>2 DEF Towards
<1> QED
  BY <1>1, <1>2, <1>3 DEF IsWallet, HasOp, CompletePartial

-----------------------------------------------------------------------------
(***************************************************************************)
(* Sums over finite sets.  Induction is by a minimal counterexample: a set *)
(* of subsets of a finite set has a minimal element, and so has a set of   *)
(* natural numbers.                                                        *)
(***************************************************************************)
LEMMA LeastSubset ==
  ASSUME NEW S, IsFiniteSet(S), NEW T \in SUBSET SUBSET S, T # {}
  PROVE  \E s \in T : \A r \in T : r \subseteq s => r = s
<1>1. SUBSET S \subseteq FiniteSubsetsOf(S)
  BY FS_Subset DEF FiniteSubsetsOf
<1>2. PICK s \in T : \A r \in T : ~(<<r, s>> \in StrictSubsetOrdering(S))
  BY <1>1, FS_StrictSubsetOrderingWellFounded, WFMin
<1> QED
  BY <1>2 DEF StrictSubsetOrdering

LEMMA LeastNumber ==
  ASSUME NEW N \in SUBSET Nat, N # {}
  PROVE  \E m \in N : \A n \in N : m =< n
<1>1. PICK k \in N : k \in Nat
  OBVIOUS
<1> DEFINE S == 0 .. k
           T == {0 .. n : n \in {n \in N : n =< k}}
<1>2. IsFiniteSet(S)
  BY FS_Interval
<1>3. T \in SUBSET SUBSET S
  OBVIOUS
<1>4. 0 .. k \in T
  BY <1>1
<1>5. PICK s \in T : \A r \in T : r \subseteq s => r = s
  <2> HIDE DEF S, T
  <2> QED
    BY <1>2, <1>3, <1>4, LeastSubset
<1>6. PICK m \in N : m =< k /\ s = 0 .. m
  OBVIOUS
<1>7. ASSUME NEW n \in N, n < m PROVE FALSE
  <2>1. n \in Nat /\ m \in Nat /\ n =< k
    BY <1>1, <1>6, <1>7
  <2>2. 0 .. n \in T
    BY <2>1
  <2>3. 0 .. n \subseteq s
    BY <1>6, <1>7, <2>1
  <2>4. 0 .. n = 0 .. m
    <3> HIDE DEF T
    <3> QED
      BY <1>5, <1>6, <2>2, <2>3
  <2>5. m \in 0 .. n
    BY <2>1, <2>4
  <2> QED
    BY <1>7, <2>1, <2>5
<1> QED
  BY <1>1, <1>7

\* The element a sum takes out of a set, and the function it is defined by.
AnyOf(s) == CHOOSE x \in s : TRUE
SumIn(g, f, s) == IF s = {} THEN 0 ELSE f[AnyOf(s)] + g[s \ {AnyOf(s)}]
IsSum(g, f, S) == g = [s \in SUBSET S |-> SumIn(g, f, s)]

LEMMA SumIsChosen ==
  ASSUME NEW f, NEW S
  PROVE  SumOf(f, S) = (CHOOSE g : IsSum(g, f, S))[S]
BY DEF SumOf, MapThenSumSet, MapThenFoldSet, IsSum, SumIn, AnyOf

LEMMA SumExists ==
  ASSUME NEW f, NEW S, IsFiniteSet(S)
  PROVE  \E g : IsSum(g, f, S)
<1> DEFINE Upto(n) == {s \in SUBSET S : Cardinality(s) =< n}
           SumUpto(g, n) == g = [s \in Upto(n) |-> SumIn(g, f, s)]
           Bad == {n \in Nat : ~ \E g : SumUpto(g, n)}
<1>1. \A s \in SUBSET S : IsFiniteSet(s) /\ Cardinality(s) \in Nat /\ Cardinality(s) =< Cardinality(S)
  BY FS_Subset, FS_CardinalityType
<1>2. \A s \in SUBSET S : s # {} => AnyOf(s) \in s
  BY DEF AnyOf
<1>3. Bad = {}
  <2> SUFFICES ASSUME Bad # {} PROVE FALSE
    OBVIOUS
  <2>1. PICK m \in Bad : \A n \in Bad : m =< n
    BY LeastNumber
  <2>2. m \in Nat
    OBVIOUS
  <2> HIDE DEF Bad
  <2>3. CASE m = 0
    <3> DEFINE g == [s \in Upto(m) |-> 0]
    <3>1. \A s \in Upto(m) : s = {}
      BY <1>1, <2>3, FS_EmptySet
    <3>2. SumUpto(g, m)
      BY <3>1 DEF SumIn
    <3> QED
      BY <3>2 DEF Bad
  <2>4. CASE m # 0
    <3>1. m - 1 \in Nat /\ m - 1 \notin Bad
      BY <2>1, <2>2, <2>4
    <3>2. PICK g : SumUpto(g, m - 1)
      BY <3>1 DEF Bad
    <3> DEFINE h == [s \in Upto(m) |-> SumIn(g, f, s)]
    <3>3. ASSUME NEW s \in Upto(m), s # {} PROVE s \ {AnyOf(s)} \in Upto(m - 1)
      <4>1. Cardinality(s \ {AnyOf(s)}) = Cardinality(s) - 1
        BY <1>1, <1>2, <3>3, FS_RemoveElement
      <4> QED
        BY <1>1, <2>2, <3>3, <4>1
    <3>4. Upto(m - 1) \subseteq Upto(m)
      BY <1>1, <2>2
    <3>5. \A s \in Upto(m - 1) : h[s] = g[s]
      BY <3>2, <3>4
    <3>6. \A s \in Upto(m) : SumIn(g, f, s) = SumIn(h, f, s)
      BY <3>3, <3>5 DEF SumIn
    <3>7. SumUpto(h, m)
      BY <3>6
    <3> QED
      BY <3>7 DEF Bad
  <2> QED
    BY <2>3, <2>4
<1>4. PICK g : SumUpto(g, Cardinality(S))
  BY <1>1, <1>3
<1>5. Upto(Cardinality(S)) = SUBSET S
  BY <1>1
<1> QED
  BY <1>4, <1>5 DEF IsSum

LEMMA SumUnique ==
  ASSUME NEW f, NEW S, IsFiniteSet(S), NEW R \in SUBSET S,
         NEW g, IsSum(g, f, S), NEW h, IsSum(h, f, R)
  PROVE  g[R] = h[R]
<1> DEFINE Bad == {s \in SUBSET R : g[s] # h[s]}
<1>1. ASSUME Bad # {} PROVE FALSE
  <2>0. Bad \in SUBSET SUBSET R /\ Bad # {} /\ IsFiniteSet(R)
    BY <1>1, FS_Subset
  <2>1. PICK s \in Bad : \A r \in Bad : r \subseteq s => r = s
    <3> HIDE DEF Bad
    <3> QED
      BY <2>0, LeastSubset
  <2>2. g[s] = SumIn(g, f, s) /\ h[s] = SumIn(h, f, s)
    BY DEF IsSum
  <2>3. s # {} => AnyOf(s) \in s
    BY DEF AnyOf
  <2>4. s # {} => s \ {AnyOf(s)} \notin Bad
    BY <2>1, <2>3
  <2>5. s # {} => g[s \ {AnyOf(s)}] = h[s \ {AnyOf(s)}]
    BY <2>4
  <2> QED
    BY <2>2, <2>5 DEF SumIn
<1> QED
  BY <1>1

LEMMA SumByParts ==
  ASSUME NEW f, NEW S, IsFiniteSet(S)
  PROVE  SumOf(f, S) = IF S = {} THEN 0 ELSE f[AnyOf(S)] + SumOf(f, S \ {AnyOf(S)})
<1> DEFINE g == CHOOSE g : IsSum(g, f, S)
           R == S \ {AnyOf(S)}
           h == CHOOSE h : IsSum(h, f, R)
<1>1. IsSum(g, f, S)
  BY SumExists
<1>2. IsSum(h, f, R)
  BY SumExists, FS_Subset
<1>3. g[S] = SumIn(g, f, S)
  BY <1>1 DEF IsSum
<1>4. g[R] = h[R]
  <2> HIDE DEF g, h, R
  <2> QED
    BY <1>1, <1>2, SumUnique DEF R
<1>5. SumOf(f, S) = g[S] /\ SumOf(f, R) = h[R]
  BY SumIsChosen
<1> QED
  BY <1>3, <1>4, <1>5 DEF SumIn

\* The sum of integers is an integer, and any element can be taken out first.
LEMMA SumTake ==
  ASSUME NEW S, IsFiniteSet(S), NEW f, \A x \in S : f[x] \in Int
  PROVE  /\ SumOf(f, S) \in Int
         /\ \A y \in S : SumOf(f, S) = f[y] + SumOf(f, S \ {y})
<1> DEFINE Good(s) == /\ SumOf(f, s) \in Int
                      /\ \A y \in s : SumOf(f, s) = f[y] + SumOf(f, s \ {y})
           Bad == {s \in SUBSET S : ~Good(s)}
<1>1. ASSUME Bad # {} PROVE FALSE
  <2>0. Bad \in SUBSET SUBSET S /\ Bad # {} /\ IsFiniteSet(S)
    BY <1>1
  <2>1. PICK s \in Bad : \A r \in Bad : r \subseteq s => r = s
    <3> HIDE DEF Bad
    <3> QED
      BY <2>0, LeastSubset
  <2>2. \A y \in s : Good(s \ {y})
    BY <2>1
  <2>3. SumOf(f, s) = IF s = {} THEN 0 ELSE f[AnyOf(s)] + SumOf(f, s \ {AnyOf(s)})
    BY SumByParts, FS_Subset
  <2>4. s # {}
    BY <2>1, <2>3
  <2> DEFINE x == AnyOf(s)
  <2>5. x \in s /\ f[x] \in Int
    BY <2>4 DEF AnyOf
  <2>6. SumOf(f, s) = f[x] + SumOf(f, s \ {x}) /\ SumOf(f, s) \in Int
    BY <2>2, <2>3, <2>4, <2>5
  <2> HIDE DEF x
  <2>7. ASSUME NEW y \in s, y # x PROVE SumOf(f, s) = f[y] + SumOf(f, s \ {y})
    <3>1. SumOf(f, s \ {x}) = f[y] + SumOf(f, (s \ {x}) \ {y})
      BY <2>2, <2>5, <2>7
    <3>2. SumOf(f, s \ {y}) = f[x] + SumOf(f, (s \ {y}) \ {x})
      BY <2>2, <2>5, <2>7
    <3>3. (s \ {x}) \ {y} = (s \ {y}) \ {x}
      OBVIOUS
    <3>4. SumOf(f, s \ {x}) \in Int /\ SumOf(f, s \ {y}) \in Int
      BY <2>2, <2>5
    <3>5. f[y] \in Int
      OBVIOUS
    <3>7. SumOf(f, (s \ {y}) \ {x}) \in Int
      <4>1. (s \ {y}) \ {x} \notin Bad
        BY <2>1, <2>7
      <4> QED
        BY <4>1
    <3>8. SumOf(f, s \ {x}) = f[y] + SumOf(f, (s \ {y}) \ {x})
      BY <3>1, <3>3
    <3> HIDE DEF Good, Bad
    <3> QED
      BY ONLY <2>5, <2>6, <3>2, <3>4, <3>5, <3>7, <3>8
  <2> QED
    BY <2>1, <2>6, <2>7
<1> QED
  BY <1>1

LEMMA SumSame ==
  ASSUME NEW S, IsFiniteSet(S), NEW f, NEW g, \A x \in S : f[x] = g[x]
  PROVE  SumOf(f, S) = SumOf(g, S)
<1> DEFINE Bad == {s \in SUBSET S : SumOf(f, s) # SumOf(g, s)}
<1>1. ASSUME Bad # {} PROVE FALSE
  <2>0. Bad \in SUBSET SUBSET S /\ Bad # {} /\ IsFiniteSet(S)
    BY <1>1
  <2>1. PICK s \in Bad : \A r \in Bad : r \subseteq s => r = s
    <3> HIDE DEF Bad
    <3> QED
      BY <2>0, LeastSubset
  <2>2. /\ SumOf(f, s) = IF s = {} THEN 0 ELSE f[AnyOf(s)] + SumOf(f, s \ {AnyOf(s)})
        /\ SumOf(g, s) = IF s = {} THEN 0 ELSE g[AnyOf(s)] + SumOf(g, s \ {AnyOf(s)})
    BY SumByParts, FS_Subset
  <2>3. s # {} => AnyOf(s) \in s
    BY DEF AnyOf
  <2>4. s # {} => s \ {AnyOf(s)} \notin Bad
    BY <2>1, <2>3
  <2> QED
    BY <2>1, <2>2, <2>3, <2>4
<1> QED
  BY <1>1

\* A function that changes at one element changes the sum by as much.
DifferAt(y, f, g, S) ==
  /\ y \in S
  /\ \A x \in S : f[x] \in Int /\ g[x] \in Int
  /\ \A x \in S \ {y} : f[x] = g[x]

LEMMA SumChange ==
  ASSUME NEW S, IsFiniteSet(S), NEW f, NEW g, NEW y, DifferAt(y, f, g, S)
  PROVE  SumOf(g, S) = SumOf(f, S) - f[y] + g[y]
<1>0. /\ y \in S
      /\ \A x \in S : f[x] \in Int /\ g[x] \in Int
      /\ \A x \in S \ {y} : f[x] = g[x]
  BY DEF DifferAt
<1>1. SumOf(f, S) = f[y] + SumOf(f, S \ {y}) /\ SumOf(g, S) = g[y] + SumOf(g, S \ {y})
  BY <1>0, SumTake
<1>2. IsFiniteSet(S \ {y})
  BY FS_RemoveElement
<1>3. SumOf(f, S \ {y}) = SumOf(g, S \ {y}) /\ SumOf(f, S \ {y}) \in Int
  BY <1>0, <1>2, SumSame, SumTake
<1> QED
  BY <1>0, <1>1, <1>3

\* A sum over a part of a set, and the sum of two functions, in one sum.
IsSplit(e, f, g, h, C, D, S) ==
  \A x \in S :
    /\ f[x] \in Int /\ g[x] \in Int /\ h[x] \in Int
    /\ e[x] = (IF x \in C THEN f[x] ELSE 0) + (IF x \in D THEN g[x] - h[x] ELSE 0)

LEMMA SumSplit ==
  ASSUME NEW S, IsFiniteSet(S), NEW C, NEW D, NEW e, NEW f, NEW g, NEW h,
         IsSplit(e, f, g, h, C, D, S)
  PROVE  SumOf(e, S) = SumOf(f, S \cap C) + SumOf(g, S \cap D) - SumOf(h, S \cap D)
<1> USE DEF IsSplit
<1> DEFINE Good(s) ==
             SumOf(e, s) = SumOf(f, s \cap C) + SumOf(g, s \cap D) - SumOf(h, s \cap D)
           Bad == {s \in SUBSET S : ~Good(s)}
<1>0. \A x \in S : e[x] \in Int
  OBVIOUS
<1>1. ASSUME Bad # {} PROVE FALSE
  <2>0. Bad \in SUBSET SUBSET S /\ Bad # {} /\ IsFiniteSet(S)
    BY <1>1
  <2>1. PICK s \in Bad : \A r \in Bad : r \subseteq s => r = s
    <3> HIDE DEF Bad
    <3> QED
      BY <2>0, LeastSubset
  <2>2. \A r \in SUBSET s : IsFiniteSet(r)
    BY FS_Subset
  <2>3. CASE s = {}
    <3>1. SumOf(e, {}) = 0 /\ SumOf(f, {}) = 0 /\ SumOf(g, {}) = 0 /\ SumOf(h, {}) = 0
      BY SumByParts, FS_EmptySet
    <3>2. s \cap C = {} /\ s \cap D = {}
      BY <2>3
    <3> QED
      BY <2>1, <2>3, <3>1, <3>2
  <2>4. CASE s # {}
    <3>1. PICK x \in s : TRUE
      BY <2>4
    <3> DEFINE r == s \ {x}
    <3>2. Good(r)
      BY <2>1, <3>1
    <3>3. SumOf(e, s) = e[x] + SumOf(e, r)
      BY <1>0, <2>2, SumTake
    <3>4. ASSUME NEW A, NEW k, \A z \in S : k[z] \in Int
          PROVE  /\ SumOf(k, s \cap A) = (IF x \in A THEN k[x] ELSE 0) + SumOf(k, r \cap A)
                 /\ SumOf(k, r \cap A) \in Int
      <4>1. IsFiniteSet(s \cap A) /\ IsFiniteSet(r \cap A)
        BY <2>2
      <4>2. SumOf(k, r \cap A) \in Int /\ \A z \in s \cap A : SumOf(k, s \cap A) = k[z] + SumOf(k, (s \cap A) \ {z})
        BY <3>4, <4>1, SumTake
      <4>3. CASE x \in A
        <5>1. (s \cap A) \ {x} = r \cap A
          OBVIOUS
        <5> QED
          BY <4>2, <4>3, <5>1
      <4>4. CASE x \notin A
        <5>1. s \cap A = r \cap A
          BY <4>4
        <5>2. SumOf(k, s \cap A) = SumOf(k, r \cap A)
          BY <5>1
        <5> HIDE DEF r
        <5> QED
          BY <4>2, <4>4, <5>2
      <4> QED
        BY <4>3, <4>4
    <3>5. /\ SumOf(f, s \cap C) = (IF x \in C THEN f[x] ELSE 0) + SumOf(f, r \cap C)
          /\ SumOf(g, s \cap D) = (IF x \in D THEN g[x] ELSE 0) + SumOf(g, r \cap D)
          /\ SumOf(h, s \cap D) = (IF x \in D THEN h[x] ELSE 0) + SumOf(h, r \cap D)
          /\ SumOf(f, r \cap C) \in Int /\ SumOf(g, r \cap D) \in Int /\ SumOf(h, r \cap D) \in Int
      BY <3>4
    <3>6. f[x] \in Int /\ g[x] \in Int /\ h[x] \in Int
          /\ e[x] = (IF x \in C THEN f[x] ELSE 0) + (IF x \in D THEN g[x] - h[x] ELSE 0)
      OBVIOUS
    <3> HIDE DEF r
    <3>7. Good(s)
      BY <3>2, <3>3, <3>5, <3>6
    <3> QED
      BY <2>1, <3>7
  <2> QED
    BY <2>3, <2>4
<1>2. Good(S)
  BY <1>1
<1> QED
  BY <1>2
=============================================================================
