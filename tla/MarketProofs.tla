---------------------------- MODULE MarketProofs ----------------------------
(***************************************************************************)
(* Proofs about the market: for any orders, users, amounts and digits a    *)
(* split keeps, with crashes, removals and aborted transactions.           *)
(* Types, funds, what a ready order is owed, and at the end the book:       *)
(* sorted, at the prices of its orders, and matched within their limits.   *)
(***************************************************************************)
EXTENDS Market, BalanceProofs, SequenceTheorems

-----------------------------------------------------------------------------
(* sequences *)

LEMMA ToSetIs ==
  ASSUME NEW S, NEW s \in Seq(S)
  PROVE  ToSet(s) = {s[i] : i \in 1 .. Len(s)} /\ ToSet(s) \subseteq S
BY LenProperties DEF ToSet

LEMMA EmptyToSet == ToSet(<<>>) = {}
BY DEF ToSet

LEMMA AppendToSet ==
  ASSUME NEW S, NEW s \in Seq(S), NEW e \in S
  PROVE  /\ Append(s, e) \in Seq(S)
         /\ ToSet(Append(s, e)) = ToSet(s) \cup {e}
<1>1. /\ Append(s, e) \in Seq(S)
      /\ Len(Append(s, e)) = Len(s) + 1
      /\ \A i \in 1 .. Len(s) : Append(s, e)[i] = s[i]
      /\ Append(s, e)[Len(s) + 1] = e
  BY AppendProperties
<1>2. Len(s) \in Nat
  BY LenProperties
<1>3. ToSet(Append(s, e)) = {Append(s, e)[i] : i \in 1 .. Len(s) + 1}
  BY <1>1, ToSetIs
<1>4. ToSet(s) = {s[i] : i \in 1 .. Len(s)}
  BY ToSetIs
<1> QED
  BY <1>1, <1>2, <1>3, <1>4

LEMMA TailToSet ==
  ASSUME NEW S, NEW s \in Seq(S), s # <<>>
  PROVE  /\ Head(s) \in S /\ Tail(s) \in Seq(S)
         /\ ToSet(s) = {Head(s)} \cup ToSet(Tail(s))
<1>1. /\ Head(s) \in S /\ Tail(s) \in Seq(S)
      /\ Len(Tail(s)) = Len(s) - 1
      /\ \A i \in 1 .. Len(Tail(s)) : Tail(s)[i] = s[i + 1]
  BY HeadTailProperties
<1>2. Len(s) \in Nat \ {0} /\ Head(s) = s[1]
  BY EmptySeq
<1>3. \A i \in 1 .. Len(s) : i = 1 \/ i - 1 \in 1 .. Len(Tail(s))
  BY <1>1, <1>2
<1>4. \A i \in 1 .. Len(Tail(s)) : i + 1 \in 1 .. Len(s)
  BY <1>1, <1>2
<1>0. /\ ToSet(s) = {s[i] : i \in 1 .. Len(s)}
      /\ ToSet(Tail(s)) = {Tail(s)[i] : i \in 1 .. Len(Tail(s))}
  BY <1>1, ToSetIs
<1>5. ToSet(s) \subseteq {Head(s)} \cup ToSet(Tail(s))
  <2> SUFFICES ASSUME NEW i \in 1 .. Len(s) PROVE s[i] \in {Head(s)} \cup ToSet(Tail(s))
    BY <1>0
  <2>1. CASE i = 1
    BY <2>1, <1>2
  <2>2. CASE i # 1
    <3>1. i - 1 \in 1 .. Len(Tail(s)) /\ s[i] = Tail(s)[i - 1]
      BY <2>2, <1>1, <1>3
    <3> QED
      BY <3>1, <1>0
  <2> QED
    BY <2>1, <2>2
<1>6. {Head(s)} \cup ToSet(Tail(s)) \subseteq ToSet(s)
  BY <1>0, <1>1, <1>2, <1>4
<1> QED
  BY <1>1, <1>5, <1>6

LEMMA ConsToSet ==
  ASSUME NEW S, NEW s \in Seq(S), NEW e \in S
  PROVE  /\ <<e>> \o s \in Seq(S) /\ <<e>> \o s # <<>>
         /\ ToSet(<<e>> \o s) = {e} \cup ToSet(s)
         /\ Len(<<e>> \o s) = Len(s) + 1
         /\ \A i \in 1 .. Len(s) + 1 : (<<e>> \o s)[i] = IF i = 1 THEN e ELSE s[i - 1]
<1>1. <<e>> \in Seq(S) /\ Len(<<e>>) = 1 /\ <<e>>[1] = e
  OBVIOUS
<1>2. Len(s) \in Nat
  BY LenProperties
<1>3. /\ <<e>> \o s \in Seq(S)
      /\ Len(<<e>> \o s) = 1 + Len(s)
      /\ \A i \in 1 .. 1 + Len(s) : (<<e>> \o s)[i] = IF i <= 1 THEN <<e>>[i] ELSE s[i - 1]
  BY <1>1, ConcatProperties
<1>4. \A i \in 1 .. Len(s) + 1 : (<<e>> \o s)[i] = IF i = 1 THEN e ELSE s[i - 1]
  BY <1>1, <1>2, <1>3
<1>5. Len(<<e>> \o s) = Len(s) + 1
  BY <1>2, <1>3
<1>6. <<e>> \o s # <<>>
  BY <1>2, <1>5, EmptySeq
<1>7. \A i \in 1 .. Len(s) : i + 1 \in 1 .. Len(s) + 1 /\ (<<e>> \o s)[i + 1] = s[i]
  BY <1>2, <1>4
<1>8. \A i \in 1 .. Len(s) + 1 : i = 1 \/ i - 1 \in 1 .. Len(s)
  BY <1>2
<1>9. (<<e>> \o s)[1] = e /\ 1 \in 1 .. Len(s) + 1
  BY <1>2, <1>4
<1>10. /\ ToSet(s) = {s[i] : i \in 1 .. Len(s)}
       /\ ToSet(<<e>> \o s) = {(<<e>> \o s)[i] : i \in 1 .. Len(s) + 1}
  BY <1>3, <1>5, ToSetIs
<1> DEFINE t == <<e>> \o s
<1> HIDE DEF t
<1>11. {t[i] : i \in 1 .. Len(s) + 1} = {e} \cup {s[i] : i \in 1 .. Len(s)}
  <2>1. ASSUME NEW i \in 1 .. Len(s) + 1  PROVE t[i] \in {e} \cup {s[j] : j \in 1 .. Len(s)}
    BY <1>4, <1>8 DEF t
  <2>2. ASSUME NEW j \in 1 .. Len(s)  PROVE s[j] \in {t[i] : i \in 1 .. Len(s) + 1}
    BY <1>7 DEF t
  <2>3. e \in {t[i] : i \in 1 .. Len(s) + 1}
    BY <1>9 DEF t
  <2> QED
    BY <2>1, <2>2, <2>3
<1>12. ToSet(t) = {e} \cup ToSet(s)
  BY <1>10, <1>11 DEF t
<1> QED
  BY <1>3, <1>4, <1>5, <1>6, <1>12 DEF t

LEMMA RemoveAtGives ==
  ASSUME NEW S, NEW s \in Seq(S), NEW k \in 1 .. Len(s)
  PROVE  /\ RemoveAt(s, k) \in Seq(S)
         /\ Len(RemoveAt(s, k)) = Len(s) - 1
         /\ \A i \in 1 .. Len(s) - 1 : RemoveAt(s, k)[i] = IF i < k THEN s[i] ELSE s[i + 1]
<1> DEFINE a == SubSeq(s, 1, k - 1)
           b == SubSeq(s, k + 1, Len(s))
<1>1. Len(s) \in Nat /\ \A i \in 1 .. Len(s) : s[i] \in S
  BY LenProperties, ElementOfSeq
<1>2. /\ a \in Seq(S) /\ Len(a) = k - 1
      /\ \A i \in 1 .. k - 1 : a[i] = s[i]
  <2>1. \A i \in 1 .. k - 1 : s[i] \in S
    BY <1>1
  <2> QED
    BY <1>1, <2>1, SubSeqProperties
<1>3. /\ b \in Seq(S) /\ Len(b) = Len(s) - k
      /\ \A i \in 1 .. Len(s) - k : b[i] = s[k + i]
  <2>1. \A i \in k + 1 .. Len(s) : s[i] \in S
    BY <1>1
  <2> QED
    BY <1>1, <2>1, SubSeqProperties
<1>4. RemoveAt(s, k) = a \o b
  BY DEF RemoveAt
<1> HIDE DEF a, b
<1>5. /\ a \o b \in Seq(S)
      /\ Len(a \o b) = Len(a) + Len(b)
      /\ \A i \in 1 .. Len(a) + Len(b) : (a \o b)[i] = IF i <= Len(a) THEN a[i] ELSE b[i - Len(a)]
  BY <1>2, <1>3, ConcatProperties
<1>6. \A i \in 1 .. Len(s) - 1 : (a \o b)[i] = IF i < k THEN s[i] ELSE s[i + 1]
  <2> TAKE i \in 1 .. Len(s) - 1
  <2>0. Len(a) + Len(b) = Len(s) - 1 /\ i \in 1 .. Len(a) + Len(b)
    BY <1>1, <1>2, <1>3
  <2>1. CASE i < k
    <3>1. i <= Len(a) /\ i \in 1 .. k - 1
      BY <2>1, <1>1, <1>2
    <3> QED
      BY <2>0, <2>1, <3>1, <1>2, <1>5
  <2>2. CASE i >= k
    <3>1. /\ ~(i <= Len(a))
          /\ i - Len(a) \in 1 .. Len(s) - k /\ k + (i - Len(a)) = i + 1
      BY <2>2, <1>1, <1>2
    <3>2. (a \o b)[i] = b[i - Len(a)]
      BY <2>0, <3>1, <1>5
    <3>3. b[i - Len(a)] = s[i + 1]
      BY <3>1, <1>3
    <3> QED
      BY <2>2, <3>2, <3>3, <1>1
  <2>3. i < k \/ i >= k
    BY <1>1
  <2> QED
    BY <2>1, <2>2, <2>3
<1> QED
  BY <1>1, <1>2, <1>3, <1>4, <1>5, <1>6

LEMMA InsertAtGives ==
  ASSUME NEW S, NEW s \in Seq(S), NEW k \in 1 .. Len(s) + 1, NEW e \in S
  PROVE  /\ InsertAt(s, k, e) \in Seq(S)
         /\ Len(InsertAt(s, k, e)) = Len(s) + 1
         /\ \A i \in 1 .. Len(s) + 1 :
              InsertAt(s, k, e)[i] = IF i < k THEN s[i] ELSE IF i = k THEN e ELSE s[i - 1]
<1> DEFINE a == SubSeq(s, 1, k - 1)
           b == SubSeq(s, k, Len(s))
<1>1. Len(s) \in Nat /\ \A i \in 1 .. Len(s) : s[i] \in S
  BY LenProperties, ElementOfSeq
<1>2. /\ a \in Seq(S) /\ Len(a) = k - 1
      /\ \A i \in 1 .. k - 1 : a[i] = s[i]
  <2>1. \A i \in 1 .. k - 1 : s[i] \in S
    BY <1>1
  <2> QED
    BY <1>1, <2>1, SubSeqProperties
<1>3. /\ b \in Seq(S) /\ Len(b) = Len(s) - k + 1
      /\ \A i \in 1 .. Len(s) - k + 1 : b[i] = s[k + i - 1]
  <2>1. \A i \in k .. Len(s) : s[i] \in S
    BY <1>1
  <2> QED
    BY <1>1, <2>1, SubSeqProperties
<1>4. InsertAt(s, k, e) = (a \o <<e>>) \o b
  BY DEF InsertAt
<1>5. <<e>> \in Seq(S) /\ Len(<<e>>) = 1 /\ <<e>>[1] = e
  OBVIOUS
<1> HIDE DEF a, b
<1> DEFINE c == a \o <<e>>
<1>6. /\ c \in Seq(S)
      /\ Len(c) = k
      /\ \A i \in 1 .. k : c[i] = IF i < k THEN s[i] ELSE e
  <2>1. /\ c \in Seq(S)
        /\ Len(c) = Len(a) + 1
        /\ \A i \in 1 .. Len(a) + 1 : c[i] = IF i <= Len(a) THEN a[i] ELSE <<e>>[i - Len(a)]
    BY <1>2, <1>5, ConcatProperties
  <2> QED
    BY <1>1, <1>2, <1>5, <2>1
<1> HIDE DEF c
<1>7. /\ c \o b \in Seq(S)
      /\ Len(c \o b) = Len(c) + Len(b)
      /\ \A i \in 1 .. Len(c) + Len(b) : (c \o b)[i] = IF i <= Len(c) THEN c[i] ELSE b[i - Len(c)]
  BY <1>6, <1>3, ConcatProperties
<1>8. \A i \in 1 .. Len(s) + 1 : (c \o b)[i] = IF i < k THEN s[i] ELSE IF i = k THEN e ELSE s[i - 1]
  <2> TAKE i \in 1 .. Len(s) + 1
  <2>0. Len(c) + Len(b) = Len(s) + 1 /\ i \in 1 .. Len(c) + Len(b)
    BY <1>1, <1>3, <1>6
  <2>1. CASE i =< k
    BY <2>0, <2>1, <1>1, <1>6, <1>7
  <2>2. CASE i > k
    <3>1. /\ ~(i <= Len(c))
          /\ i - Len(c) \in 1 .. Len(s) - k + 1 /\ k + (i - Len(c)) - 1 = i - 1
      BY <2>2, <1>1, <1>6
    <3>2. (c \o b)[i] = b[i - Len(c)]
      BY <2>0, <3>1, <1>7
    <3>3. b[i - Len(c)] = s[i - 1]
      BY <3>1, <1>3
    <3> QED
      BY <2>2, <3>2, <3>3, <1>1
  <2>3. i =< k \/ i > k
    BY <1>1
  <2> QED
    BY <2>1, <2>2, <2>3
<1>9. InsertAt(s, k, e) = c \o b /\ Len(c \o b) = Len(s) + 1
  <2>1. InsertAt(s, k, e) = c \o b
    BY <1>4 DEF c
  <2>2. Len(c) + Len(b) = Len(s) + 1
    BY <1>1, <1>3, <1>6
  <2> QED
    BY <2>1, <2>2, <1>7
<1> QED
  BY <1>7, <1>8, <1>9

LEMMA RemoveAtToSet ==
  ASSUME NEW S, NEW s \in Seq(S), NEW k \in 1 .. Len(s)
  PROVE  /\ ToSet(RemoveAt(s, k)) \subseteq ToSet(s)
         /\ ToSet(s) \subseteq ToSet(RemoveAt(s, k)) \cup {s[k]}
<1> DEFINE r == RemoveAt(s, k)
<1>1. /\ r \in Seq(S) /\ Len(r) = Len(s) - 1
      /\ \A i \in 1 .. Len(s) - 1 : r[i] = IF i < k THEN s[i] ELSE s[i + 1]
  BY RemoveAtGives
<1> HIDE DEF r
<1>2. Len(s) \in Nat
  BY LenProperties
<1>3. /\ ToSet(s) = {s[i] : i \in 1 .. Len(s)}
      /\ ToSet(r) = {r[i] : i \in 1 .. Len(s) - 1}
  BY <1>1, ToSetIs
<1>4. ASSUME NEW i \in 1 .. Len(s) - 1 PROVE r[i] \in ToSet(s)
  <2>1. i \in 1 .. Len(s) /\ i + 1 \in 1 .. Len(s)
    BY <1>2
  <2> QED
    BY <2>1, <1>1, <1>3
<1>5. ASSUME NEW i \in 1 .. Len(s), i # k PROVE s[i] \in ToSet(r)
  <2>1. CASE i < k
    <3>1. i \in 1 .. Len(s) - 1 /\ r[i] = s[i]
      BY <2>1, <1>1, <1>2
    <3> QED
      BY <3>1, <1>3
  <2>2. CASE i > k
    <3>1. i - 1 \in 1 .. Len(s) - 1 /\ ~(i - 1 < k) /\ (i - 1) + 1 = i
      BY <2>2, <1>2
    <3>2. r[i - 1] = s[i]
      BY <3>1, <1>1
    <3> QED
      BY <3>1, <3>2, <1>3
  <2>3. i < k \/ i > k
    BY <1>2, <1>5
  <2> QED
    BY <2>1, <2>2, <2>3
<1>6. ToSet(r) \subseteq ToSet(s)
  BY <1>3, <1>4
<1>7. ToSet(s) \subseteq ToSet(r) \cup {s[k]}
  BY <1>3, <1>5
<1> QED
  BY <1>6, <1>7 DEF r

-----------------------------------------------------------------------------
(* the book *)

Node == [price : Nat, orders : Seq(Order)]
MarketType == [book : Seq(Node), buy : Nat, sell : Nat]
In(m) == UNION {ToSet(m.book[i].orders) : i \in DOMAIN m.book}
Full(m) == \A i \in 1 .. Len(m.book) : m.book[i].orders # <<>>

LEMMA BookIs ==
  ASSUME NEW m \in MarketType
  PROVE  /\ m.book \in Seq(Node) /\ Len(m.book) \in Nat /\ DOMAIN m.book = 1 .. Len(m.book)
         /\ \A i \in 1 .. Len(m.book) : /\ m.book[i] \in Node
                                       /\ m.book[i].price \in Nat
                                       /\ m.book[i].orders \in Seq(Order)
                                       /\ m.book[i].price \in Prices(m)
         /\ \A p \in Prices(m) : \E i \in 1 .. Len(m.book) : m.book[i].price = p
<1>1. m.book \in Seq(Node)
  BY DEF MarketType
<1>2. Len(m.book) \in Nat /\ DOMAIN m.book = 1 .. Len(m.book)
  BY <1>1, LenProperties
<1>3. \A i \in 1 .. Len(m.book) : m.book[i] \in Node
  BY <1>1, ElementOfSeq
<1> QED
  BY <1>1, <1>2, <1>3 DEF Node, Prices

LEMMA NodeIs ==
  ASSUME NEW m \in MarketType, NEW price \in Prices(m)
  PROVE  /\ NodeAt(m, price) \in 1 .. Len(m.book)
         /\ m.book[NodeAt(m, price)].price = price
         /\ OrdersAt(m, price) = m.book[NodeAt(m, price)].orders
         /\ OrdersAt(m, price) \in Seq(Order)
<1>1. \E i \in DOMAIN m.book : m.book[i].price = price
  BY BookIs
<1>2. NodeAt(m, price) \in DOMAIN m.book /\ m.book[NodeAt(m, price)].price = price
  BY <1>1 DEF NodeAt
<1> QED
  BY <1>2, BookIs DEF OrdersAt

LEMMA InIs ==
  ASSUME NEW m \in MarketType
  PROVE  /\ In(m) \subseteq Order
         /\ \A o : o \in In(m) <=> \E i \in 1 .. Len(m.book) : o \in ToSet(m.book[i].orders)
<1>1. \A i \in 1 .. Len(m.book) : ToSet(m.book[i].orders) \subseteq Order
  BY BookIs, ToSetIs
<1>2. DOMAIN m.book = 1 .. Len(m.book)
  BY BookIs
<1> QED
  BY <1>1, <1>2 DEF In

LEMMA BeforeIs ==
  ASSUME NEW m \in MarketType, NEW price \in Nat
  PROVE  /\ Before(m, price) \in 1 .. Len(m.book) + 1
         /\ \A i \in 1 .. Len(m.book) : i < Before(m, price) => m.book[i].price < price
         /\ Before(m, price) =< Len(m.book) => price =< m.book[Before(m, price)].price
<1> DEFINE len == Len(m.book)
           N == {i \in 1 .. len + 1 : i > len \/ price =< m.book[i].price}
<1>1. len \in Nat /\ \A i \in 1 .. len : m.book[i].price \in Nat
  BY BookIs
<1>2. N \in SUBSET Nat /\ len + 1 \in N
  BY <1>1
<1>3. \E k \in N : \A n \in N : k =< n
  BY <1>2, LeastNumber
<1>4. Before(m, price) \in N /\ \A n \in N : Before(m, price) =< n
  BY <1>3 DEF Before, Min
<1>5. ASSUME NEW i \in 1 .. len, i < Before(m, price) PROVE m.book[i].price < price
  <2>1. i \notin N
    BY <1>1, <1>2, <1>4, <1>5
  <2> QED
    BY <2>1, <1>1
<1> QED
  BY <1>1, <1>4, <1>5

\* A node with only o, between those of lower and of higher price.
Opens(m, n, o, price, k) ==
  /\ price \notin Prices(m)
  /\ k \in 1 .. Len(m.book) + 1
  /\ Len(n.book) = Len(m.book) + 1
  /\ n.book[k] = [price |-> price, orders |-> <<o>>]
  /\ \A i \in 1 .. Len(m.book) : i < k => n.book[i] = m.book[i] /\ m.book[i].price < price
  /\ \A i \in 1 .. Len(m.book) : i >= k => n.book[i + 1] = m.book[i]
  /\ k =< Len(m.book) => price < m.book[k].price

\* A node that gets o as its last or its first order.
Joins(m, n, o, price, k) ==
  /\ k \in 1 .. Len(m.book)
  /\ Len(n.book) = Len(m.book)
  /\ m.book[k].price = price /\ n.book[k].price = price
  /\ n.book[k].orders \in {Append(m.book[k].orders, o), <<o>> \o m.book[k].orders}
  /\ \A i \in 1 .. Len(m.book) : i # k => n.book[i] = m.book[i]

Gets(m, n, o, side, price) ==
  /\ n \in MarketType
  /\ n.buy = (IF side = "buy" /\ price > m.buy THEN price ELSE m.buy)
  /\ n.sell = (IF side # "buy" /\ price < m.sell THEN price ELSE m.sell)
  /\ \E k \in Nat : Opens(m, n, o, price, k) \/ Joins(m, n, o, price, k)

LEMMA UpdateGives ==
  ASSUME NEW m \in MarketType, NEW n \in MarketType, n.buy = m.buy, n.sell = m.sell,
         NEW o, NEW side, NEW price \in Nat, NEW k \in Nat,
         Opens(m, n, o, price, k) \/ Joins(m, n, o, price, k)
  PROVE  Gets(m, UpdateMarketPrice(n, side, price), o, side, price)
<1> DEFINE u == UpdateMarketPrice(n, side, price)
<1>1. /\ u \in MarketType /\ u.book = n.book
      /\ u.buy = (IF side = "buy" /\ price > m.buy THEN price ELSE m.buy)
      /\ u.sell = (IF side # "buy" /\ price < m.sell THEN price ELSE m.sell)
  BY DEF UpdateMarketPrice, MarketType
<1> HIDE DEF u
<1>2. Opens(m, u, o, price, k) \/ Joins(m, u, o, price, k)
  BY <1>1 DEF Opens, Joins
<1>3. Gets(m, u, o, side, price)
  BY <1>1, <1>2 DEF Gets
<1> QED
  BY <1>3 DEF u

\* Writing the orders of the node k.
LEMMA WithGives ==
  ASSUME NEW m \in MarketType, NEW price \in Prices(m), NEW os \in Seq(Order)
  PROVE  LET n == WithOrders(m, price, os)
             k == NodeAt(m, price)
         IN  /\ n \in MarketType /\ n.buy = m.buy /\ n.sell = m.sell
             /\ Len(n.book) = Len(m.book)
             /\ n.book[k] = [price |-> price, orders |-> os]
             /\ \A i \in 1 .. Len(m.book) : i # k => n.book[i] = m.book[i]
<1> DEFINE n == WithOrders(m, price, os)
           k == NodeAt(m, price)
           e == [price |-> price, orders |-> os]
<1>1. k \in 1 .. Len(m.book) /\ m.book[k].price = price
  BY NodeIs
<1>2. m.book \in Seq(Node) /\ m.book[k] \in Node
  BY <1>1, BookIs
<1>3. e \in Node /\ [m.book[k] EXCEPT !.orders = os] = e
  BY <1>1, <1>2 DEF Node
<1>4. /\ [m.book EXCEPT ![k] = e] \in Seq(Node)
      /\ Len([m.book EXCEPT ![k] = e]) = Len(m.book)
      /\ \A i \in 1 .. Len(m.book) : [m.book EXCEPT ![k] = e][i] = IF i = k THEN e ELSE m.book[i]
  BY <1>1, <1>2, <1>3, ExceptSeq
<1>5. n = [m EXCEPT !.book = [m.book EXCEPT ![k] = e]]
  <2>1. n = [m EXCEPT !.book = [m.book EXCEPT ![k] = [m.book[k] EXCEPT !.orders = os]]]
    BY <1>1, BookIs DEF WithOrders, MarketType
  <2> QED
    BY <2>1, <1>3
<1>6. n \in MarketType /\ n.book = [m.book EXCEPT ![k] = e] /\ n.buy = m.buy /\ n.sell = m.sell
  BY <1>4, <1>5 DEF MarketType
<1> QED
  BY <1>1, <1>4, <1>6

LEMMA GetNodeGives ==
  ASSUME NEW m \in MarketType, NEW price \in Nat, price \notin Prices(m)
  PROVE  LET n == GetNode(m, price)
             k == NodeAt(n, price)
         IN  /\ n \in MarketType /\ n.buy = m.buy /\ n.sell = m.sell
             /\ price \in Prices(n) /\ OrdersAt(n, price) = <<>>
             /\ k \in 1 .. Len(m.book) + 1
             /\ Len(n.book) = Len(m.book) + 1
             /\ \A i \in 1 .. Len(m.book) : i < k => n.book[i] = m.book[i] /\ m.book[i].price < price
             /\ \A i \in 1 .. Len(m.book) : i >= k => n.book[i + 1] = m.book[i]
             /\ k =< Len(m.book) => price < m.book[k].price
<1> DEFINE n == GetNode(m, price)
           b == Before(m, price)
           e == [price |-> price, orders |-> <<>>]
<1>1. n = [m EXCEPT !.book = InsertAt(m.book, b, e)]
  BY DEF GetNode
<1>2. /\ m.book \in Seq(Node) /\ Len(m.book) \in Nat /\ e \in Node
      /\ \A i \in 1 .. Len(m.book) : m.book[i].price \in Nat /\ m.book[i].price # price
  <2>1. e \in Node
    BY DEF Node
  <2> QED
    BY <2>1, BookIs
<1>3. /\ b \in 1 .. Len(m.book) + 1
      /\ \A i \in 1 .. Len(m.book) : i < b => m.book[i].price < price
      /\ b =< Len(m.book) => price =< m.book[b].price
  BY BeforeIs
<1> HIDE DEF b, e
<1>4. /\ InsertAt(m.book, b, e) \in Seq(Node)
      /\ Len(InsertAt(m.book, b, e)) = Len(m.book) + 1
      /\ \A i \in 1 .. Len(m.book) + 1 : InsertAt(m.book, b, e)[i] =
           IF i < b THEN m.book[i] ELSE IF i = b THEN e ELSE m.book[i - 1]
  <2>1. m.book \in Seq(Node) /\ e \in Node /\ b \in 1 .. Len(m.book) + 1
    BY <1>2, <1>3
  <2> DEFINE x == m.book
  <2> HIDE DEF x
  <2>2. /\ InsertAt(x, b, e) \in Seq(Node)
        /\ Len(InsertAt(x, b, e)) = Len(x) + 1
        /\ \A i \in 1 .. Len(x) + 1 : InsertAt(x, b, e)[i] =
             IF i < b THEN x[i] ELSE IF i = b THEN e ELSE x[i - 1]
    <3>1. x \in Seq(Node) /\ b \in 1 .. Len(x) + 1 /\ e \in Node
      BY <2>1 DEF x
    <3> QED
      BY <3>1, InsertAtGives
  <2> QED
    BY <2>2 DEF x
<1>5. /\ n \in MarketType /\ n.book = InsertAt(m.book, b, e) /\ n.buy = m.buy /\ n.sell = m.sell
  BY <1>1, <1>4 DEF MarketType
<1> HIDE DEF n
<1>6. /\ n.book[b] = e
      /\ \A i \in 1 .. Len(m.book) : i < b => n.book[i] = m.book[i]
      /\ \A i \in 1 .. Len(m.book) : i >= b => n.book[i + 1] = m.book[i]
  <2>1. n.book[b] = e
    BY <1>3, <1>4, <1>5
  <2>2. ASSUME NEW i \in 1 .. Len(m.book), i < b PROVE n.book[i] = m.book[i]
    BY <2>2, <1>2, <1>4, <1>5
  <2>3. ASSUME NEW i \in 1 .. Len(m.book), i >= b PROVE n.book[i + 1] = m.book[i]
    <3>1. i + 1 \in 1 .. Len(m.book) + 1 /\ ~(i + 1 < b) /\ i + 1 # b /\ (i + 1) - 1 = i
      BY <2>3, <1>2, <1>3
    <3> QED
      BY <3>1, <1>4, <1>5
  <2> QED
    BY <2>1, <2>2, <2>3
<1>7. e.price = price /\ e.orders = <<>>
  BY DEF e
<1>8. Len(n.book) = Len(m.book) + 1
  BY <1>4, <1>5
<1>9. price \in Prices(n)
  BY <1>3, <1>5, <1>6, <1>7, <1>8, BookIs
<1>10. NodeAt(n, price) \in 1 .. Len(n.book) /\ n.book[NodeAt(n, price)].price = price
       /\ OrdersAt(n, price) = n.book[NodeAt(n, price)].orders
  BY <1>5, <1>9, NodeIs
<1>11. NodeAt(n, price) = b
  <2> DEFINE k == NodeAt(n, price)
  <2> HIDE DEF k
  <2> SUFFICES k = b
    BY DEF k
  <2>1. k \in 1 .. Len(m.book) + 1 /\ n.book[k].price = price
    BY <1>8, <1>10 DEF k
  <2>2. CASE k < b
    <3>1. k \in 1 .. Len(m.book) /\ n.book[k] = m.book[k]
      BY <2>1, <2>2, <1>2, <1>3, <1>6
    <3> QED
      BY <3>1, <2>1, <1>2
  <2>3. CASE k > b
    <3>1. k - 1 \in 1 .. Len(m.book) /\ k - 1 >= b /\ (k - 1) + 1 = k
      BY <2>1, <2>3, <1>2, <1>3
    <3>2. n.book[k] = m.book[k - 1]
      BY <3>1, <1>6
    <3> QED
      BY <3>1, <3>2, <2>1, <1>2
  <2>4. k = b \/ k < b \/ k > b
    BY <2>1, <1>2, <1>3
  <2> QED
    BY <2>2, <2>3, <2>4
<1>12. b =< Len(m.book) => price < m.book[b].price
  BY <1>2, <1>3
<1> QED
  BY <1>3, <1>5, <1>6, <1>7, <1>8, <1>9, <1>10, <1>11, <1>12 DEF n

LEMMA PlaceGives ==
  ASSUME NEW m \in MarketType, NEW o \in Order, NEW side, NEW price \in Nat
  PROVE  /\ Gets(m, PushMaker(m, o, side, price), o, side, price)
         /\ Gets(m, UnshiftMaker(m, o, side, price), o, side, price)
<1> DEFINE n == GetNode(m, price)
           os == OrdersAt(n, price)
<1>1. /\ n \in MarketType /\ price \in Prices(n) /\ n.buy = m.buy /\ n.sell = m.sell
  <2>1. CASE price \in Prices(m)
    BY <2>1 DEF GetNode
  <2>2. CASE price \notin Prices(m)
    BY <2>2, GetNodeGives
  <2> QED
    BY <2>1, <2>2
<1>2. os \in Seq(Order)
  BY <1>1, NodeIs
<1>3. ASSUME NEW new \in Seq(Order), new \in {Append(os, o), <<o>> \o os}
      PROVE  Gets(m, UpdateMarketPrice(WithOrders(n, price, new), side, price), o, side, price)
  <2> DEFINE w == WithOrders(n, price, new)
             k == NodeAt(n, price)
  <2>1. /\ w \in MarketType /\ w.buy = m.buy /\ w.sell = m.sell
        /\ Len(w.book) = Len(n.book)
        /\ w.book[k] = [price |-> price, orders |-> new]
        /\ \A i \in 1 .. Len(n.book) : i # k => w.book[i] = n.book[i]
    BY <1>1, WithGives
  <2>2. CASE price \in Prices(m)
    <3>1. n = m
      BY <2>2 DEF GetNode
    <3>2. k \in 1 .. Len(m.book) /\ m.book[k].price = price /\ os = m.book[k].orders
      BY <3>1, <2>2, NodeIs
    <3> HIDE DEF w, n, os, k
    <3>0. k \in Nat
      BY <3>2, BookIs
    <3>5. w.book[k].price = price /\ w.book[k].orders \in {Append(m.book[k].orders, o), <<o>> \o m.book[k].orders}
      BY <2>1, <1>3, <3>2
    <3>3. Joins(m, w, o, price, k) /\ k \in Nat
      BY <3>0, <3>1, <3>2, <3>5, <2>1 DEF Joins
    <3>4. Gets(m, UpdateMarketPrice(w, side, price), o, side, price)
      BY <3>3, <2>1, UpdateGives
    <3> QED
      BY <3>4 DEF w, n
  <2>3. CASE price \notin Prices(m)
    <3>1. /\ os = <<>>
          /\ k \in 1 .. Len(m.book) + 1
          /\ Len(n.book) = Len(m.book) + 1
          /\ \A i \in 1 .. Len(m.book) : i < k => n.book[i] = m.book[i] /\ m.book[i].price < price
          /\ \A i \in 1 .. Len(m.book) : i >= k => n.book[i + 1] = m.book[i]
          /\ k =< Len(m.book) => price < m.book[k].price
      BY <2>3, GetNodeGives
    <3>2. new = <<o>>
      BY <3>1, <1>3
    <3>3. Len(m.book) \in Nat
      BY BookIs
    <3> HIDE DEF w, n, os, k
    <3>4. ASSUME NEW i \in 1 .. Len(m.book)
          PROVE  /\ i < k => w.book[i] = m.book[i] /\ m.book[i].price < price
                 /\ i >= k => w.book[i + 1] = m.book[i]
      <4>1. i \in 1 .. Len(n.book) /\ i + 1 \in 1 .. Len(n.book)
        BY <3>1, <3>3
      <4>2. i < k => i # k
        BY <3>1, <3>3
      <4>3. i >= k => i + 1 # k
        BY <3>1, <3>3
      <4> QED
        BY <4>1, <4>2, <4>3, <3>1, <2>1
    <3>5. Opens(m, w, o, price, k) /\ k \in Nat
      BY <2>3, <3>1, <3>2, <3>4, <2>1 DEF Opens
    <3>6. Gets(m, UpdateMarketPrice(w, side, price), o, side, price)
      BY <3>5, <2>1, UpdateGives
    <3> QED
      BY <3>6 DEF w, n
  <2> QED
    BY <2>2, <2>3
<1>4. Append(os, o) \in Seq(Order) /\ <<o>> \o os \in Seq(Order)
  BY <1>2, AppendToSet, ConsToSet
<1>5. /\ PushMaker(m, o, side, price) = UpdateMarketPrice(WithOrders(n, price, Append(os, o)), side, price)
      /\ UnshiftMaker(m, o, side, price) = UpdateMarketPrice(WithOrders(n, price, <<o>> \o os), side, price)
  BY DEF PushMaker, UnshiftMaker
<1> HIDE DEF n, os
<1> QED
  BY <1>3, <1>4, <1>5

LEMMA GetsIn ==
  ASSUME NEW m \in MarketType, NEW n, NEW o \in Order, NEW side, NEW price \in Nat,
         Gets(m, n, o, side, price)
  PROVE  In(n) = In(m) \cup {o} /\ (Full(m) => Full(n))
<1>1. PICK k \in Nat : Opens(m, n, o, price, k) \/ Joins(m, n, o, price, k)
  BY DEF Gets
<1>2. n \in MarketType
  BY DEF Gets
<1>3. Len(m.book) \in Nat /\ Len(n.book) \in Nat
  BY <1>2, BookIs
<1>4. \A x : x \in In(m) <=> \E i \in 1 .. Len(m.book) : x \in ToSet(m.book[i].orders)
  BY InIs
<1>5. \A x : x \in In(n) <=> \E i \in 1 .. Len(n.book) : x \in ToSet(n.book[i].orders)
  BY <1>2, InIs
<1>6. CASE Opens(m, n, o, price, k)
  <2>1. /\ k \in 1 .. Len(m.book) + 1 /\ Len(n.book) = Len(m.book) + 1
        /\ n.book[k].orders = <<o>>
        /\ \A i \in 1 .. Len(m.book) : i < k => n.book[i] = m.book[i]
        /\ \A i \in 1 .. Len(m.book) : i >= k => n.book[i + 1] = m.book[i]
    BY <1>6 DEF Opens
  <2>2. ToSet(<<o>>) = {o} /\ <<o>> # <<>>
    BY DEF ToSet
  <2>3. ASSUME NEW i \in 1 .. Len(m.book)
        PROVE  \E j \in 1 .. Len(n.book) : n.book[j] = m.book[i]
    <3>1. i \in 1 .. Len(n.book) /\ i + 1 \in 1 .. Len(n.book) /\ (i < k \/ i >= k)
      BY <1>3, <2>1
    <3> QED
      BY <3>1, <2>1
  <2>4. ASSUME NEW j \in 1 .. Len(n.book), j # k
        PROVE  \E i \in 1 .. Len(m.book) : n.book[j] = m.book[i]
    <3>1. CASE j < k
      <4>1. j \in 1 .. Len(m.book)
        BY <3>1, <1>3, <2>1
      <4> QED
        BY <3>1, <4>1, <2>1
    <3>2. CASE j > k
      <4>1. j - 1 \in 1 .. Len(m.book) /\ j - 1 >= k /\ (j - 1) + 1 = j
        BY <3>2, <1>3, <2>1
      <4>2. n.book[j] = m.book[j - 1]
        BY <4>1, <2>1
      <4> QED
        BY <4>1, <4>2
    <3>3. j < k \/ j > k
      BY <2>4, <1>3
    <3> QED
      BY <3>1, <3>2, <3>3
  <2>5. k \in 1 .. Len(n.book)
    BY <2>1
  <2>6. In(n) = In(m) \cup {o}
    <3>1. ToSet(n.book[k].orders) = {o}
      BY <2>1, <2>2
    <3>2. ASSUME NEW x \in In(m) PROVE x \in In(n)
      <4>1. PICK i \in 1 .. Len(m.book) : x \in ToSet(m.book[i].orders)
        BY <1>4, <3>2
      <4>2. PICK j \in 1 .. Len(n.book) : n.book[j] = m.book[i]
        BY <2>3
      <4> QED
        BY <1>5, <4>1, <4>2
    <3>3. ASSUME NEW x \in In(n) PROVE x \in In(m) \/ x = o
      <4>1. PICK j \in 1 .. Len(n.book) : x \in ToSet(n.book[j].orders)
        BY <1>5, <3>3
      <4>2. CASE j = k
        BY <3>1, <4>1, <4>2
      <4>3. CASE j # k
        <5>1. PICK i \in 1 .. Len(m.book) : n.book[j] = m.book[i]
          BY <2>4, <4>3
        <5> QED
          BY <1>4, <4>1, <5>1
      <4> QED
        BY <4>2, <4>3
    <3>4. o \in In(n)
      BY <1>5, <2>5, <3>1
    <3> QED
      BY <3>2, <3>3, <3>4
  <2>7. Full(m) => Full(n)
    BY <2>1, <2>2, <2>4 DEF Full
  <2> QED
    BY <2>6, <2>7
<1>7. CASE Joins(m, n, o, price, k)
  <2>1. /\ k \in 1 .. Len(m.book) /\ Len(n.book) = Len(m.book)
        /\ n.book[k].orders \in {Append(m.book[k].orders, o), <<o>> \o m.book[k].orders}
        /\ \A i \in 1 .. Len(m.book) : i # k => n.book[i] = m.book[i]
    BY <1>7 DEF Joins
  <2>2. m.book[k].orders \in Seq(Order) /\ n.book[k].orders \in Seq(Order)
    BY <1>2, <2>1, BookIs
  <2>3. ToSet(n.book[k].orders) = ToSet(m.book[k].orders) \cup {o} /\ n.book[k].orders # <<>>
    <3> DEFINE os == m.book[k].orders
    <3> HIDE DEF os
    <3>1. os \in Seq(Order)
      BY <2>2 DEF os
    <3>2. /\ ToSet(Append(os, o)) = ToSet(os) \cup {o}
          /\ ToSet(<<o>> \o os) = {o} \cup ToSet(os) /\ <<o>> \o os # <<>>
      BY <3>1, AppendToSet, ConsToSet
    <3>3. Append(os, o) # <<>>
      BY <3>1, AppendProperties
    <3> QED
      BY <3>2, <3>3, <2>1 DEF os
  <2>4. In(n) = In(m) \cup {o}
    BY <1>4, <1>5, <2>1, <2>3
  <2>5. Full(m) => Full(n)
    BY <2>1, <2>3 DEF Full
  <2> QED
    BY <2>4, <2>5
<1> QED
  BY <1>1, <1>6, <1>7

\* An order leaves a node that keeps others, or takes the node with it.
Shrinks(m, n, k, i) ==
  /\ k \in 1 .. Len(m.book)
  /\ Len(n.book) = Len(m.book)
  /\ n.book[k].price = m.book[k].price
  /\ n.book[k].orders = RemoveAt(m.book[k].orders, i) /\ n.book[k].orders # <<>>
  /\ \A j \in 1 .. Len(m.book) : j # k => n.book[j] = m.book[j]
  /\ n.buy = m.buy /\ n.sell = m.sell

Closes(m, n, k, i) ==
  /\ k \in 1 .. Len(m.book)
  /\ Len(n.book) = Len(m.book) - 1
  /\ \A j \in 1 .. Len(m.book) - 1 : n.book[j] = IF j < k THEN m.book[j] ELSE m.book[j + 1]
  /\ Len(m.book[k].orders) = 1
  /\ n.buy = (IF m.book[k].price = m.buy THEN IF k > 1 THEN m.book[k - 1].price ELSE 0 ELSE m.buy)
  /\ n.sell = (IF m.book[k].price # m.buy /\ m.book[k].price = m.sell
               THEN IF k < Len(m.book) THEN m.book[k + 1].price ELSE Infinity ELSE m.sell)

Loses(m, n, price, i) ==
  /\ n \in MarketType
  /\ \E k \in 1 .. Len(m.book) :
       /\ m.book[k].price = price /\ OrdersAt(m, price) = m.book[k].orders
       /\ Shrinks(m, n, k, i) \/ Closes(m, n, k, i)

LEMMA TakeGives ==
  ASSUME NEW m \in MarketType, NEW price \in Prices(m), NEW i \in 1 .. Len(OrdersAt(m, price))
  PROVE  Loses(m, GetOrderFromIndex(m, price, i), price, i)
<1> DEFINE n == GetOrderFromIndex(m, price, i)
           k == NodeAt(m, price)
           rest == RemoveAt(OrdersAt(m, price), i)
<1>1. /\ k \in 1 .. Len(m.book) /\ m.book[k].price = price
      /\ OrdersAt(m, price) = m.book[k].orders /\ OrdersAt(m, price) \in Seq(Order)
  BY NodeIs
<1>2. rest \in Seq(Order) /\ Len(rest) = Len(OrdersAt(m, price)) - 1
  BY <1>1, RemoveAtGives
<1>3. m.book \in Seq(Node) /\ Len(m.book) \in Nat
  BY BookIs
<1>4. CASE rest # <<>>
  <2> DEFINE w == WithOrders(m, price, rest)
  <2>1. n = w
    BY <1>4 DEF GetOrderFromIndex
  <2>2. /\ w \in MarketType /\ w.buy = m.buy /\ w.sell = m.sell
        /\ Len(w.book) = Len(m.book)
        /\ w.book[k] = [price |-> price, orders |-> rest]
        /\ \A j \in 1 .. Len(m.book) : j # k => w.book[j] = m.book[j]
    BY <1>2, WithGives
  <2> HIDE DEF w, k
  <2>3. w.book[k].price = price /\ w.book[k].orders = rest
    BY <2>2
  <2>4. Shrinks(m, w, k, i)
    BY <1>1, <1>4, <2>2, <2>3 DEF Shrinks
  <2> QED
    BY <1>1, <2>1, <2>2, <2>4 DEF Loses
<1>5. CASE rest = <<>>
  <2> DEFINE buy == IF price = m.buy THEN IF k > 1 THEN m.book[k - 1].price ELSE 0 ELSE m.buy
             sell == IF price # m.buy /\ price = m.sell
                     THEN IF k < Len(m.book) THEN m.book[k + 1].price ELSE Infinity ELSE m.sell
  <2>1. n = [book |-> RemoveAt(m.book, k), buy |-> buy, sell |-> sell]
    BY <1>5 DEF GetOrderFromIndex
  <2> HIDE DEF k, n
  <2>2. buy \in Nat /\ sell \in Nat
    <3>1. m.buy \in Nat /\ m.sell \in Nat /\ Infinity \in Nat
      BY InfinityAssumption DEF MarketType
    <3>2. k > 1 => m.book[k - 1].price \in Nat
      BY <1>1, <1>3, BookIs
    <3>3. k < Len(m.book) => m.book[k + 1].price \in Nat
      BY <1>1, <1>3, BookIs
    <3> QED
      BY <3>1, <3>2, <3>3
  <2> HIDE DEF buy, sell
  <2>3. /\ RemoveAt(m.book, k) \in Seq(Node)
        /\ Len(RemoveAt(m.book, k)) = Len(m.book) - 1
        /\ \A j \in 1 .. Len(m.book) - 1 :
             RemoveAt(m.book, k)[j] = IF j < k THEN m.book[j] ELSE m.book[j + 1]
    BY <1>1, <1>3, RemoveAtGives
  <2>4. n.book = RemoveAt(m.book, k) /\ n.buy = buy /\ n.sell = sell /\ n \in MarketType
    BY <2>1, <2>2, <2>3 DEF MarketType
  <2>5. Len(m.book[k].orders) = 1
    <3>1. Len(rest) = 0
      BY <1>5
    <3>2. Len(OrdersAt(m, price)) \in Nat
      BY <1>1, LenProperties
    <3> HIDE DEF rest
    <3>3. Len(OrdersAt(m, price)) = 1
      BY <3>1, <3>2, <1>2
    <3> QED
      BY <3>3, <1>1
  <2>6. Closes(m, n, k, i)
    BY <1>1, <2>3, <2>4, <2>5 DEF Closes, buy, sell
  <2> QED
    BY <1>1, <2>4, <2>6 DEF Loses, n
<1> QED
  BY <1>4, <1>5

LEMMA LosesIn ==
  ASSUME NEW m \in MarketType, NEW price \in Prices(m), NEW i \in 1 .. Len(OrdersAt(m, price)),
         NEW n, Loses(m, n, price, i)
  PROVE  /\ OrdersAt(m, price)[i] \in In(m)
         /\ In(n) \subseteq In(m)
         /\ In(m) \subseteq In(n) \cup {OrdersAt(m, price)[i]}
         /\ Full(m) => Full(n)
<1>1. PICK k \in 1 .. Len(m.book) : /\ OrdersAt(m, price) = m.book[k].orders
                                    /\ Shrinks(m, n, k, i) \/ Closes(m, n, k, i)
  BY DEF Loses
<1> DEFINE os == m.book[k].orders
<1>2. n \in MarketType
  BY DEF Loses
<1>3. Len(m.book) \in Nat /\ Len(n.book) \in Nat
  BY <1>2, BookIs
<1>4. \A x : x \in In(m) <=> \E j \in 1 .. Len(m.book) : x \in ToSet(m.book[j].orders)
  BY InIs
<1>5. \A x : x \in In(n) <=> \E j \in 1 .. Len(n.book) : x \in ToSet(n.book[j].orders)
  BY <1>2, InIs
<1>6. os \in Seq(Order) /\ i \in 1 .. Len(os) /\ OrdersAt(m, price)[i] = os[i]
  BY <1>1, BookIs
<1>7. os[i] \in ToSet(os) /\ ToSet(os) = {os[j] : j \in 1 .. Len(os)}
  BY <1>6, ToSetIs
<1>8. CASE Shrinks(m, n, k, i)
  <2>1. /\ Len(n.book) = Len(m.book)
        /\ n.book[k].orders = RemoveAt(os, i) /\ n.book[k].orders # <<>>
        /\ \A j \in 1 .. Len(m.book) : j # k => n.book[j] = m.book[j]
    BY <1>8 DEF Shrinks
  <2>2. /\ ToSet(RemoveAt(os, i)) \subseteq ToSet(os)
        /\ ToSet(os) \subseteq ToSet(RemoveAt(os, i)) \cup {os[i]}
    BY <1>6, RemoveAtToSet
  <2> HIDE DEF os
  <2>3. os = m.book[k].orders
    BY DEF os
  <2> QED
    BY <1>4, <1>5, <1>6, <1>7, <2>1, <2>2, <2>3 DEF Full
<1>9. CASE Closes(m, n, k, i)
  <2>1. /\ Len(n.book) = Len(m.book) - 1
        /\ \A j \in 1 .. Len(m.book) - 1 : n.book[j] = IF j < k THEN m.book[j] ELSE m.book[j + 1]
        /\ Len(os) = 1
    BY <1>9 DEF Closes
  <2>2. ToSet(os) = {os[i]}
    BY <1>6, <1>7, <2>1
  <2>3. ASSUME NEW j \in 1 .. Len(m.book), j # k
        PROVE  \E l \in 1 .. Len(n.book) : n.book[l] = m.book[j]
    <3>1. CASE j < k
      <4>1. j \in 1 .. Len(n.book)
        BY <3>1, <1>3, <2>1
      <4> QED
        BY <3>1, <4>1, <2>1
    <3>2. CASE j > k
      <4>1. j - 1 \in 1 .. Len(n.book) /\ ~(j - 1 < k) /\ (j - 1) + 1 = j
        BY <3>2, <1>3, <2>1
      <4>2. n.book[j - 1] = m.book[j]
        BY <4>1, <2>1
      <4> QED
        BY <4>1, <4>2
    <3>3. j < k \/ j > k
      BY <2>3, <1>3
    <3> QED
      BY <3>1, <3>2, <3>3
  <2>4. ASSUME NEW l \in 1 .. Len(n.book)
        PROVE  \E j \in 1 .. Len(m.book) : n.book[l] = m.book[j]
    <3>1. l \in 1 .. Len(m.book) /\ l + 1 \in 1 .. Len(m.book) /\ l \in 1 .. Len(m.book) - 1
      BY <1>3, <2>1
    <3> QED
      BY <3>1, <2>1
  <2> HIDE DEF os
  <2>5. os = m.book[k].orders
    BY DEF os
  <2>6. In(n) \subseteq In(m)
    BY <1>4, <1>5, <2>4
  <2>7. In(m) \subseteq In(n) \cup {os[i]}
    BY <1>4, <1>5, <2>2, <2>3, <2>5
  <2>8. Full(m) => Full(n)
    BY <2>4 DEF Full
  <2>9. os[i] \in In(m)
    BY <1>4, <1>7, <2>5
  <2> QED
    BY <1>6, <2>6, <2>7, <2>8, <2>9
<1> QED
  BY <1>1, <1>8, <1>9

-----------------------------------------------------------------------------
(* amounts *)

LEMMA Divided ==
  ASSUME NEW n \in Int, NEW u \in Nat \ {0}
  PROVE  /\ n % u \in 0 .. u - 1
         /\ n \div u \in Int
         /\ n = u * (n \div u) + (n % u)
<1>1. n % u \in Int /\ 0 <= n % u /\ n % u < u
  OBVIOUS
<1>2. n \div u \in Int
  OBVIOUS
<1>3. n = u * (n \div u) + (n % u)
  OBVIOUS
<1> QED
  BY <1>1, <1>2, <1>3

LEMMA DividedNat ==
  ASSUME NEW a \in Nat, NEW b \in Nat \ {0}
  PROVE  a \div b \in Nat
OBVIOUS

LEMMA MultipleIsWhole ==
  ASSUME NEW q \in Int, NEW u \in Nat \ {0}
  PROVE  (u * q) % u = 0
<1> DEFINE r == (u * q) % u
           d == (u * q) \div u
<1>0. u * q \in Int
  OBVIOUS
<1>1. r \in 0 .. u - 1 /\ d \in Int /\ u * q = u * d + r
  <2> DEFINE n == u * q
  <2> HIDE DEF n
  <2>1. n % u \in 0 .. u - 1 /\ n \div u \in Int /\ n = u * (n \div u) + (n % u)
    BY <1>0, Divided DEF n
  <2> QED
    BY <2>1 DEF n
<1>2. CASE d < q
  <2>1. u * (q - d) >= u
    BY <1>1, <1>2
  <2>2. u * (q - d) = r
    BY <1>1
  <2> QED
    BY <1>1, <2>1, <2>2
<1>3. CASE d > q
  <2>1. u * (d - q) >= u
    BY <1>1, <1>3
  <2>2. u * (d - q) = -r
    BY <1>1
  <2> QED
    BY <1>1, <2>1, <2>2
<1>4. CASE d = q
  BY <1>1, <1>4
<1> QED
  BY <1>1, <1>2, <1>3, <1>4

\* An amount with the decimals of its currency.
IsWhole(n) == n \in Nat /\ Truncate(n) = n

LEMMA WholeIs ==
  ASSUME NEW n \in Nat
  PROVE  IsWhole(n) <=> \E q \in Nat : n = Unit * q
<1>1. Unit \in Nat \ {0}
  BY UnitAssumption
<1>2. ASSUME IsWhole(n) PROVE \E q \in Nat : n = Unit * q
  <2>1. n % Unit = 0
    BY <1>1, <1>2, Divided DEF IsWhole, Truncate
  <2>2. n = Unit * (n \div Unit) /\ n \div Unit \in Nat
    BY <1>1, <2>1, Divided, DividedNat
  <2> QED
    BY <2>2
<1>3. ASSUME NEW q \in Nat, n = Unit * q PROVE IsWhole(n)
  <2>1. n % Unit = 0
    BY <1>1, <1>3, MultipleIsWhole
  <2> QED
    BY <2>1 DEF IsWhole, Truncate
<1> QED
  BY <1>2, <1>3

LEMMA TruncateIs ==
  ASSUME NEW n \in Nat
  PROVE  IsWhole(Truncate(n)) /\ Truncate(n) =< n /\ n - Truncate(n) < Unit
<1>1. Unit \in Nat \ {0}
  BY UnitAssumption
<1>2. n % Unit \in 0 .. Unit - 1 /\ n \div Unit \in Nat /\ n = Unit * (n \div Unit) + (n % Unit)
  <2>1. n \in Int
    OBVIOUS
  <2>2. n % Unit \in 0 .. Unit - 1 /\ n = Unit * (n \div Unit) + (n % Unit)
    BY <1>1, <2>1, Divided
  <2>3. n \div Unit \in Nat
    BY <1>1, DividedNat
  <2> QED
    BY <2>2, <2>3
<1>3. Truncate(n) = Unit * (n \div Unit) /\ Truncate(n) \in Nat
  BY <1>1, <1>2 DEF Truncate
<1>4. IsWhole(Truncate(n))
  BY <1>2, <1>3, WholeIs
<1> QED
  BY <1>1, <1>2, <1>4 DEF Truncate

LEMMA WholeMinus ==
  ASSUME NEW a, NEW b, IsWhole(a), IsWhole(b), b =< a
  PROVE  IsWhole(a - b)
<1>1. a \in Nat /\ b \in Nat
  BY DEF IsWhole
<1>2. PICK p \in Nat : a = Unit * p
  BY <1>1, WholeIs
<1>3. PICK q \in Nat : b = Unit * q
  BY <1>1, WholeIs
<1>4. Unit \in Nat \ {0}
  BY UnitAssumption
<1>5. q =< p
  <2> SUFFICES ASSUME q > p PROVE FALSE
    BY <1>2, <1>3
  <2>1. Unit * (q - p) >= Unit
    BY <1>4
  <2> QED
    BY <2>1, <1>1, <1>2, <1>3, <1>4
<1>6. a - b = Unit * (p - q) /\ p - q \in Nat
  BY <1>2, <1>3, <1>4, <1>5
<1> QED
  BY <1>1, <1>6, WholeIs

\* What is smaller than a whole amount rounds to at most that amount.
LEMMA RoundUnitIs ==
  ASSUME NEW n \in Nat, NEW a, IsWhole(a), n < a
  PROVE  /\ IsWhole(RoundUnit(n)) /\ RoundUnit(n) =< a
         /\ Truncate(n) =< RoundUnit(n)
<1>1. Unit \in Nat \ {0} /\ a \in Nat
  BY UnitAssumption DEF IsWhole
<1> DEFINE h == Unit \div 2
           x == n + h
<1>2. h \in Nat /\ h < Unit
  <2>1. Unit % 2 \in 0 .. 1 /\ h \in Int /\ Unit = 2 * h + (Unit % 2)
    BY <1>1, Divided
  <2> QED
    BY <1>1, <2>1
<1> HIDE DEF h
<1>3. x \in Nat
  BY <1>2
<1>4. IsWhole(Truncate(x)) /\ Truncate(x) =< x /\ x - Truncate(x) < Unit
  BY <1>3, TruncateIs
<1>5. IsWhole(Truncate(n)) /\ Truncate(n) =< n
  BY TruncateIs
<1>6. PICK p \in Nat : a = Unit * p
  BY <1>1, WholeIs
<1>7. PICK q \in Nat : Truncate(x) = Unit * q
  BY <1>4, WholeIs DEF IsWhole
<1>8. PICK r \in Nat : Truncate(n) = Unit * r
  BY <1>5, WholeIs DEF IsWhole
<1>9. Truncate(x) =< a
  <2> SUFFICES ASSUME ~(q =< p) PROVE FALSE
    BY <1>1, <1>6, <1>7
  <2>1. Unit * (q - p) >= Unit
    BY <1>1
  <2>2. Unit * q - Unit * p < Unit
    BY <1>1, <1>2, <1>4, <1>6, <1>7
  <2> QED
    BY <2>1, <2>2, <1>1
<1>10. Truncate(n) =< Truncate(x)
  <2> SUFFICES ASSUME ~(r =< q) PROVE FALSE
    BY <1>1, <1>7, <1>8
  <2>1. Unit * (r - q) >= Unit
    BY <1>1
  <2>2. Unit * r - Unit * q < Unit
    BY <1>1, <1>2, <1>3, <1>4, <1>5, <1>7, <1>8
  <2> QED
    BY <2>1, <2>2, <1>1
<1>11. RoundUnit(n) = Truncate(x)
  BY DEF RoundUnit, h
<1> QED
  BY <1>4, <1>9, <1>10, <1>11

LEMMA RoundDivIs ==
  ASSUME NEW a \in Nat, NEW b \in Nat
  PROVE  RoundDiv(a, b) \in Nat
<1>1. CASE b = 0
  BY <1>1, InfinityAssumption DEF RoundDiv
<1>2. CASE b # 0
  <2>1. 2 * a + b \in Nat /\ 2 * b \in Nat \ {0}
    BY <1>2
  <2>2. (2 * a + b) \div (2 * b) \in Nat
    BY <2>1, DividedNat
  <2> QED
    BY <1>2, <2>2 DEF RoundDiv
<1> QED
  BY <1>1, <1>2

\* An order in memory.
Memory == [side : Side, owning : Nat, requesting : Nat]

LEMMA PriceIs ==
  ASSUME NEW m \in Memory
  PROVE  Price(m) \in Nat
<1>1. m.owning \in Nat /\ m.requesting \in Nat /\ Scale \in Nat
  BY UnitAssumption DEF Memory
<1>2. m.owning * Scale \in Nat /\ m.requesting * Scale \in Nat
  BY <1>1
<1>3. RoundDiv(m.owning * Scale, m.requesting) \in Nat /\ RoundDiv(m.requesting * Scale, m.owning) \in Nat
  BY <1>1, <1>2, RoundDivIs
<1> QED
  BY <1>3 DEF Price

LEMMA SplitIs ==
  ASSUME NEW m \in Memory, IsWhole(m.owning), NEW o \in Nat, NEW r \in Nat, NEW target,
         CanSplit(m, o, r, target)
  PROVE  /\ Rest(m, o, r) \in Memory /\ Part(m, o, r) \in Memory
         /\ Rest(m, o, r).side = m.side /\ Part(m, o, r).side = m.side
         /\ IsWhole(Rest(m, o, r).owning)
         /\ Rest(m, o, r).owning = m.owning - RoundUnit(o)
         /\ Truncate(o) =< RoundUnit(o) /\ RoundUnit(o) \in Nat
         /\ Part(m, o, r).owning = o
<1>1. m.owning \in Nat /\ m.requesting \in Nat /\ o < m.owning
  BY DEF Memory, CanSplit
<1>2. IsWhole(RoundUnit(o)) /\ RoundUnit(o) =< m.owning /\ Truncate(o) =< RoundUnit(o)
  BY <1>1, RoundUnitIs
<1>3. IsWhole(m.owning - RoundUnit(o)) /\ RoundUnit(o) \in Nat
  BY <1>2, WholeMinus DEF IsWhole
<1>4. m.owning - RoundUnit(o) \in Nat
  BY <1>3 DEF IsWhole
<1>5. m.requesting * (m.owning - o) \in Nat /\ m.owning \in Nat \ {0}
  BY <1>1
<1>6. (m.requesting * (m.owning - o)) \div m.owning \in Nat
  BY <1>5, DividedNat
<1>7. Rest(m, o, r) = [m EXCEPT !.requesting = (m.requesting * (m.owning - o)) \div m.owning,
                                !.owning = m.owning - RoundUnit(o)]
  BY DEF Rest, Memory
<1>8. /\ Rest(m, o, r) \in Memory /\ Rest(m, o, r).side = m.side
      /\ Rest(m, o, r).owning = m.owning - RoundUnit(o)
  BY <1>4, <1>6, <1>7 DEF Memory
<1>9. /\ Part(m, o, r) \in Memory /\ Part(m, o, r).side = m.side /\ Part(m, o, r).owning = o
  BY DEF Part, Memory
<1> QED
  BY <1>2, <1>3, <1>8, <1>9

-----------------------------------------------------------------------------
(* A function defined by recursion on a number exists: there is no least   *)
(* number at which it stops.                                               *)

IsIteration(g, X, a, N, F) ==
  /\ g \in [0 .. N -> X] /\ g[0] = a
  /\ \A n \in 1 .. N : g[n] = F[<<g[n - 1], n>>]

LEMMA Iterates ==
  ASSUME NEW X, NEW a \in X, NEW N \in Nat, NEW F \in [X \X (1 .. N) -> X]
  PROVE  \E g : IsIteration(g, X, a, N, F)
<1> DEFINE Upto(g, m) == /\ g \in [0 .. m -> X] /\ g[0] = a
                         /\ \A n \in 1 .. m : g[n] = F[<<g[n - 1], n>>]
           Bad == {m \in 0 .. N : ~ \E g : Upto(g, m)}
<1>1. ASSUME Bad # {} PROVE FALSE
  <2>1. PICK m \in Bad : \A k \in Bad : m =< k
    <3>1. Bad \in SUBSET Nat /\ Bad # {}
      BY <1>1
    <3> HIDE DEF Bad
    <3> QED
      BY <3>1, LeastNumber
  <2>2. m \in 0 .. N /\ ~ \E g : Upto(g, m)
    BY <2>1
  <2>3. m # 0
    <3> SUFFICES ASSUME m = 0 PROVE FALSE
      OBVIOUS
    <3>1. Upto([n \in 0 .. 0 |-> a], 0)
      OBVIOUS
    <3> QED
      BY <3>1, <2>2
  <2>4. m - 1 \in 0 .. N /\ m - 1 \notin Bad
    <3>1. m - 1 \in 0 .. N /\ ~(m =< m - 1)
      BY <2>2, <2>3
    <3> HIDE DEF Bad
    <3> QED
      BY <2>1, <3>1
  <2>5. PICK h : Upto(h, m - 1)
    <3> HIDE DEF Upto
    <3> QED
      BY <2>4
  <2>6. /\ h \in [0 .. m - 1 -> X] /\ h[0] = a
        /\ \A n \in 1 .. m - 1 : h[n] = F[<<h[n - 1], n>>]
    BY <2>5
  <2>7. h[m - 1] \in X /\ m \in 1 .. N
    BY <2>2, <2>3, <2>6
  <2>8. F[<<h[m - 1], m>>] \in X
    BY <2>7
  <2> DEFINE last == F[<<h[m - 1], m>>]
             g == [n \in 0 .. m |-> IF n = m THEN last ELSE h[n]]
  <2>9. g \in [0 .. m -> X]
    <3> HIDE DEF last
    <3>1. last \in X
      BY <2>8 DEF last
    <3>2. ASSUME NEW n \in 0 .. m, n # m PROVE h[n] \in X
      <4>1. n \in 0 .. m - 1
        BY <3>2, <2>7
      <4> QED
        BY <4>1, <2>6
    <3> QED
      BY <3>1, <3>2
  <2>10. g[0] = a
    BY <2>2, <2>3, <2>6
  <2>11. ASSUME NEW n \in 1 .. m PROVE g[n] = F[<<g[n - 1], n>>]
    <3>1. n - 1 \in 0 .. m /\ n - 1 # m /\ n \in 0 .. m
      BY <2>7
    <3>2. g[n - 1] = h[n - 1]
      BY <3>1
    <3>3. CASE n = m
      BY <3>1, <3>2, <3>3
    <3>4. CASE n # m
      <4>1. n \in 1 .. m - 1
        BY <3>4, <2>7
      <4>2. g[n] = h[n]
        BY <3>1, <3>4
      <4>3. h[n] = F[<<h[n - 1], n>>]
        BY <4>1, <2>6
      <4> QED
        BY <3>2, <4>2, <4>3
    <3> QED
      BY <3>3, <3>4
  <2>12. Upto(g, m)
    <3> HIDE DEF g
    <3> QED
      BY <2>9, <2>10, <2>11
  <2> HIDE DEF Upto, g
  <2> QED
    BY <2>2, <2>12
<1>2. N \in 0 .. N /\ N \notin Bad
  <2> HIDE DEF Bad
  <2> QED
    BY <1>1
<1>3. PICK g : Upto(g, N)
  <2> HIDE DEF Upto
  <2> QED
    BY <1>2
<1>4. IsIteration(g, X, a, N, F)
  BY <1>3 DEF IsIteration
<1> QED
  BY <1>4

-----------------------------------------------------------------------------
(* types *)

Wallets == {w \in [available : Int, locked : Int, pending : UNION {[D -> Int] : D \in SUBSET Order}] :
              \A o \in DOMAIN w.pending : w.pending[o] < 0}

LEMMA WalletIs ==
  ASSUME NEW w
  PROVE  w \in Wallets <=> IsWallet(w, Order) /\ \A o \in DOMAIN w.pending : w.pending[o] < 0
<1>1. ASSUME w \in Wallets PROVE IsWallet(w, Order)
  <2>1. w \in [available : Int, locked : Int, pending : UNION {[D -> Int] : D \in SUBSET Order}]
    BY <1>1 DEF Wallets
  <2>2. PICK D \in SUBSET Order : w.pending \in [D -> Int]
    BY <2>1
  <2> QED
    BY <2>1, <2>2 DEF IsWallet
<1>2. ASSUME IsWallet(w, Order), \A o \in DOMAIN w.pending : w.pending[o] < 0 PROVE w \in Wallets
  <2> DEFINE D == DOMAIN w.pending
  <2>1. D \in SUBSET Order /\ w.pending \in [D -> Int]
    BY <1>2 DEF IsWallet
  <2>2. w.pending \in UNION {[E -> Int] : E \in SUBSET Order}
    BY <2>1
  <2>3. w = [available |-> w.available, locked |-> w.locked, pending |-> w.pending]
        /\ w.available \in Int /\ w.locked \in Int
    BY <1>2 DEF IsWallet
  <2>4. w \in [available : Int, locked : Int, pending : UNION {[E -> Int] : E \in SUBSET Order}]
    BY <2>2, <2>3
  <2> QED
    BY <2>4, <1>2 DEF Wallets
<1> QED
  BY <1>1, <1>2 DEF Wallets

\* A side of a match: an order or a part of it, on the side of the order.
Piece == {m \in [id : Order, part : {{}} \cup {{p} : p \in Memory}] :
            \A p \in m.part : p.side = asked[m.id].side}

Exec == [pc : ExecPc, taker : SUBSET Order, remaining : Nat, matchs : Seq(Piece \X Piece),
         leftovers : Seq(Order), unsaved : SUBSET Order]

RecordTypes ==
  /\ asked \in [Order -> Kinds]
  /\ doc \in [Order -> Doc]
  /\ \A o \in Order : doc[o].side = asked[o].side /\ IsWhole(doc[o].owning)
  /\ adding \in [Order -> AddPc]
  /\ removing \in [Order -> [pc : RemovePc, found : Doc]]
  /\ born \in Seq(Order)

OrderTypes ==
  /\ order \in [Order -> Memory]
  /\ \A o \in Order : order[o].side = asked[o].side /\ IsWhole(order[o].owning)

BookTypes == market \in MarketType /\ Full(market)

QueueTypes == pending \in Seq(Order) /\ boot \in Seq(Order)

ExecTypes ==
  /\ exec \in Exec
  /\ exec.pc = "loop" => \E o \in Order : exec.taker = {o}

PaidTypes ==
  /\ wallet \in [Person -> [Currency -> Wallets]]
  /\ paid \in [Order -> Nat] /\ got \in [Order -> Nat]

Types == RecordTypes /\ OrderTypes /\ BookTypes /\ QueueTypes /\ ExecTypes /\ PaidTypes

LEMMA AskedIs ==
  ASSUME RecordTypes, NEW o \in Order
  PROVE  /\ asked[o] \in Memory /\ asked[o].side \in Side
         /\ asked[o].owning \in Nat \ {0} /\ asked[o].requesting \in Nat \ {0}
         /\ IsWhole(asked[o].owning) /\ IsWhole(asked[o].requesting)
         /\ Price(asked[o]) < Infinity
<1>1. asked[o] \in Kinds
  BY DEF RecordTypes
<1>2. asked[o] \in [side : Side, owning : Amount, requesting : Amount] /\ Price(asked[o]) < Infinity
  BY <1>1, KindsAssumption
<1> QED
  BY <1>2 DEF Amount, IsWhole, Memory

LEMMA InitTypes == Init => Types
<1> SUFFICES ASSUME Init PROVE Types
  OBVIOUS
<1>0. asked \in [Order -> Kinds] /\ doc = [o \in Order |-> Stored("none", asked[o])]
  BY DEF Init
<1>1. ASSUME NEW o \in Order
      PROVE  /\ asked[o] \in Memory /\ IsWhole(asked[o].owning)
             /\ doc[o] \in Doc /\ doc[o].side = asked[o].side /\ IsWhole(doc[o].owning)
  <2>1. asked[o] \in [side : Side, owning : Amount, requesting : Amount]
    BY <1>0, KindsAssumption
  <2> QED
    BY <2>1, <1>0 DEF Amount, IsWhole, Memory, Stored, Doc, Status
<1>2. RecordTypes
  BY <1>0, <1>1 DEF Init, RecordTypes, AddPc, RemovePc
<1>3. OrderTypes
  BY <1>0, <1>1 DEF Init, OrderTypes
<1>4. BookTypes
  BY InfinityAssumption DEF Init, BookTypes, NoMarket, MarketType, Full
<1>5. QueueTypes
  BY DEF Init, QueueTypes
<1>6. ExecTypes
  BY DEF Init, ExecTypes, NoExec, Exec, ExecPc
<1>7. PaidTypes
  <2>1. IsWallet(NewWallet(Funds), Order) /\ DOMAIN NewWallet(Funds).pending = {}
    BY FundsAssumption DEF NewWallet, IsWallet
  <2>2. NewWallet(Funds) \in Wallets
    BY <2>1, WalletIs
  <2> QED
    BY <2>2 DEF Init, PaidTypes
<1> QED
  BY <1>2, <1>3, <1>4, <1>5, <1>6, <1>7 DEF Types

-----------------------------------------------------------------------------
(* The leftovers return to the book one by one. *)

BackFrom(g, m, o) ==
  /\ Gets(g, m, o, order[o].side, Price(order[o]))
  /\ m = UnshiftMaker(g, o, order[o].side, Price(order[o]))

IsBack(g, os) ==
  g = [n \in 0 .. Len(os) |->
         IF n = 0 THEN market
         ELSE LET o == os[n]
              IN UnshiftMaker(g[n - 1], o, order[o].side, Price(order[o]))]

LEMMA ReturnedIsChosen ==
  ASSUME NEW os
  PROVE  Returned(os) = (CHOOSE g : IsBack(g, os))[Len(os)]
BY DEF Returned, IsBack

LEMMA UnshiftIs ==
  ASSUME OrderTypes, NEW m \in MarketType, NEW o \in Order
  PROVE  /\ UnshiftMaker(m, o, order[o].side, Price(order[o])) \in MarketType
         /\ BackFrom(m, UnshiftMaker(m, o, order[o].side, Price(order[o])), o)
<1>1. Price(order[o]) \in Nat
  BY PriceIs DEF OrderTypes
<1>2. Gets(m, UnshiftMaker(m, o, order[o].side, Price(order[o])), o, order[o].side, Price(order[o]))
  BY <1>1, PlaceGives
<1> QED
  BY <1>2 DEF Gets, BackFrom

LEMMA BackExists ==
  ASSUME OrderTypes, BookTypes, NEW os \in Seq(Order)
  PROVE  \E g : IsBack(g, os)
<1> DEFINE N == Len(os)
           Un(m, o) == UnshiftMaker(m, o, order[o].side, Price(order[o]))
           F == [x \in MarketType \X (1 .. N) |-> Un(x[1], os[x[2]])]
<1>1. N \in Nat /\ \A n \in 1 .. N : os[n] \in Order
  BY LenProperties, ElementOfSeq
<1>2. \A m \in MarketType, o \in Order : Un(m, o) \in MarketType
  BY UnshiftIs
<1> HIDE DEF Un, N
<1>3. F \in [MarketType \X (1 .. N) -> MarketType]
  BY <1>1, <1>2
<1>4. \A m \in MarketType, n \in 1 .. N : F[<<m, n>>] = Un(m, os[n])
  OBVIOUS
<1>5. market \in MarketType
  BY DEF BookTypes
<1> HIDE DEF F
<1>6. PICK g : IsIteration(g, MarketType, market, N, F)
  BY <1>1, <1>3, <1>5, Iterates
<1>7. ASSUME NEW n \in 1 .. N PROVE g[n] = Un(g[n - 1], os[n])
  <2>1. n - 1 \in 0 .. N
    BY <1>1
  <2>2. g[n - 1] \in MarketType /\ g[n] = F[<<g[n - 1], n>>]
    BY <2>1, <1>6 DEF IsIteration
  <2> QED
    BY <2>2, <1>4
<1>8. ASSUME NEW n \in 0 .. N PROVE g[n] = IF n = 0 THEN market ELSE Un(g[n - 1], os[n])
  <2>1. n = 0 \/ n \in 1 .. N
    BY <1>1
  <2> QED
    BY <2>1, <1>6, <1>7 DEF IsIteration
<1>9. g = [n \in 0 .. N |-> IF n = 0 THEN market ELSE Un(g[n - 1], os[n])]
  BY <1>6, <1>8 DEF IsIteration
<1>10. IsBack(g, os)
  BY <1>9 DEF IsBack, N, Un
<1> QED
  BY <1>10

LEMMA ReturnedChain ==
  ASSUME OrderTypes, BookTypes, NEW os \in Seq(Order)
  PROVE  \E g : /\ g \in [0 .. Len(os) -> MarketType]
                /\ g[0] = market /\ g[Len(os)] = Returned(os)
                /\ \A n \in 1 .. Len(os) : BackFrom(g[n - 1], g[n], os[n])
<1> DEFINE N == Len(os)
           Un(m, o) == UnshiftMaker(m, o, order[o].side, Price(order[o]))
           g == CHOOSE g : IsBack(g, os)
<1>1. N \in Nat /\ \A n \in 1 .. N : os[n] \in Order
  BY LenProperties, ElementOfSeq
<1>2. \A m \in MarketType, o \in Order : Un(m, o) \in MarketType /\ BackFrom(m, Un(m, o), o)
  BY UnshiftIs
<1>3. IsBack(g, os)
  BY BackExists
<1>4. g = [n \in 0 .. N |-> IF n = 0 THEN market ELSE Un(g[n - 1], os[n])]
  BY <1>3 DEF IsBack
<1>5. g[N] = Returned(os)
  BY ReturnedIsChosen
<1> HIDE DEF g, Un, N
<1> DEFINE Bad == {n \in 0 .. N : g[n] \notin MarketType}
<1>6. ASSUME Bad # {} PROVE FALSE
  <2>1. PICK n \in Bad : \A k \in Bad : n =< k
    <3>1. Bad \in SUBSET Nat
      BY <1>1
    <3> HIDE DEF Bad
    <3> QED
      BY <1>6, <3>1, LeastNumber
  <2>2. n \in 0 .. N /\ g[n] \notin MarketType
    BY <2>1
  <2>3. n # 0
    BY <2>2, <1>1, <1>4 DEF BookTypes
  <2>4. n - 1 \in 0 .. N /\ ~(n =< n - 1)
    BY <2>2, <2>3, <1>1
  <2>5. n - 1 \notin Bad
    <3> HIDE DEF Bad
    <3> QED
      BY <2>1, <2>4
  <2>6. g[n - 1] \in MarketType /\ n \in 1 .. N
    BY <2>2, <2>3, <2>4, <2>5, <1>1
  <2>7. g[n] = Un(g[n - 1], os[n])
    BY <2>2, <2>3, <1>4
  <2> QED
    BY <2>2, <2>6, <2>7, <1>1, <1>2
<1>7. \A n \in 0 .. N : g[n] \in MarketType
  BY <1>6
<1>8. g \in [0 .. N -> MarketType]
  BY <1>4, <1>7
<1>9. g[0] = market
  BY <1>1, <1>4
<1>10. ASSUME NEW n \in 1 .. N PROVE BackFrom(g[n - 1], g[n], os[n])
  <2>1. n \in 0 .. N /\ n # 0 /\ n - 1 \in 0 .. N
    BY <1>1
  <2>2. g[n] = Un(g[n - 1], os[n])
    BY <2>1, <1>4
  <2> QED
    BY <2>1, <2>2, <1>1, <1>2, <1>7
<1>11. /\ g \in [0 .. Len(os) -> MarketType]
       /\ g[0] = market /\ g[Len(os)] = Returned(os)
       /\ \A n \in 1 .. Len(os) : BackFrom(g[n - 1], g[n], os[n])
  BY <1>5, <1>8, <1>9, <1>10 DEF N
<1> QED
  BY <1>11

LEMMA ReturnedGives ==
  ASSUME OrderTypes, BookTypes, NEW os \in Seq(Order)
  PROVE  /\ Returned(os) \in MarketType /\ Full(Returned(os))
         /\ In(Returned(os)) = In(market) \cup ToSet(os)
<1>1. PICK g : /\ g \in [0 .. Len(os) -> MarketType]
               /\ g[0] = market /\ g[Len(os)] = Returned(os)
               /\ \A n \in 1 .. Len(os) : BackFrom(g[n - 1], g[n], os[n])
  BY ReturnedChain
<1> DEFINE N == Len(os)
           First(n) == {os[i] : i \in 1 .. n}
           Good(n) == Full(g[n]) /\ In(g[n]) = In(market) \cup First(n)
           Bad == {n \in 0 .. N : ~Good(n)}
<1>2. N \in Nat /\ \A n \in 1 .. N : os[n] \in Order
  BY LenProperties, ElementOfSeq
<1>3. First(0) = {}
  OBVIOUS
<1>4. \A n \in 1 .. N : First(n) = First(n - 1) \cup {os[n]}
  BY <1>2
<1>5. Good(0)
  BY <1>1, <1>3 DEF BookTypes
<1>6. ASSUME NEW n \in 1 .. N, Good(n - 1) PROVE Good(n)
  <2>1. g[n - 1] \in MarketType /\ os[n] \in Order
    BY <1>1, <1>2
  <2>2. Price(order[os[n]]) \in Nat
    BY <2>1, PriceIs DEF OrderTypes
  <2>3. Gets(g[n - 1], g[n], os[n], order[os[n]].side, Price(order[os[n]]))
    BY <1>1 DEF BackFrom
  <2>4. In(g[n]) = In(g[n - 1]) \cup {os[n]} /\ (Full(g[n - 1]) => Full(g[n]))
    <3> DEFINE before == g[n - 1]
               after == g[n]
               o == os[n]
               side == order[os[n]].side
               price == Price(order[os[n]])
    <3>1. before \in MarketType /\ o \in Order /\ price \in Nat /\ Gets(before, after, o, side, price)
      BY <2>1, <2>2, <2>3
    <3> HIDE DEF before, after, o, side, price
    <3>2. In(after) = In(before) \cup {o} /\ (Full(before) => Full(after))
      BY <3>1, GetsIn
    <3> QED
      BY <3>2 DEF before, after, o
  <2> HIDE DEF First
  <2> QED
    BY <2>4, <1>4, <1>6
<1> HIDE DEF Good
<1>7. ASSUME Bad # {} PROVE FALSE
  <2>1. PICK n \in Bad : \A k \in Bad : n =< k
    <3>1. Bad \in SUBSET Nat
      BY <1>2
    <3> HIDE DEF Bad
    <3> QED
      BY <1>7, <3>1, LeastNumber
  <2>2. n \in 0 .. N /\ ~Good(n) /\ n # 0
    BY <2>1, <1>5
  <2>3. n - 1 \in 0 .. N /\ ~(n =< n - 1) /\ n \in 1 .. N
    BY <2>2, <1>2
  <2>4. n - 1 \notin Bad
    <3> HIDE DEF Bad
    <3> QED
      BY <2>1, <2>3
  <2> QED
    BY <2>2, <2>3, <2>4, <1>6
<1>8. Good(N)
  BY <1>2, <1>7
<1>9. First(N) = ToSet(os)
  BY ToSetIs
<1> QED
  BY <1>1, <1>2, <1>8, <1>9 DEF Good

-----------------------------------------------------------------------------
(* What bootstrap finds are the orders that are ready. *)

IsNewest(g) ==
  g = [n \in 0 .. Len(born) |->
         IF n = 0 THEN <<>>
         ELSE IF doc[born[n]].status = "ready" THEN <<born[n]>> \o g[n - 1] ELSE g[n - 1]]

LEMMA BootstrappedIsChosen == Bootstrapped = (CHOOSE g : IsNewest(g))[Len(born)]
BY DEF Bootstrapped, IsNewest

LEMMA NewestExists ==
  ASSUME RecordTypes
  PROVE  \E g : IsNewest(g)
<1> DEFINE N == Len(born)
           More(s, o) == IF doc[o].status = "ready" THEN <<o>> \o s ELSE s
           F == [x \in Seq(Order) \X (1 .. N) |-> More(x[1], born[x[2]])]
<1>1. N \in Nat /\ \A n \in 1 .. N : born[n] \in Order
  BY LenProperties, ElementOfSeq DEF RecordTypes
<1>2. \A s \in Seq(Order), o \in Order : More(s, o) \in Seq(Order)
  BY ConsToSet
<1> HIDE DEF More, N
<1>3. F \in [Seq(Order) \X (1 .. N) -> Seq(Order)]
  BY <1>1, <1>2
<1>4. \A s \in Seq(Order), n \in 1 .. N : F[<<s, n>>] = More(s, born[n])
  OBVIOUS
<1>5. <<>> \in Seq(Order)
  OBVIOUS
<1> HIDE DEF F
<1>6. PICK g : IsIteration(g, Seq(Order), <<>>, N, F)
  BY <1>1, <1>3, <1>5, Iterates
<1>7. ASSUME NEW n \in 0 .. N PROVE g[n] = IF n = 0 THEN <<>> ELSE More(g[n - 1], born[n])
  <2>1. n = 0 \/ (n \in 1 .. N /\ n - 1 \in 0 .. N)
    BY <1>1
  <2>2. CASE n = 0
    BY <2>2, <1>6 DEF IsIteration
  <2>3. CASE n \in 1 .. N /\ n - 1 \in 0 .. N
    <3>1. g[n - 1] \in Seq(Order) /\ g[n] = F[<<g[n - 1], n>>]
      BY <2>3, <1>6 DEF IsIteration
    <3> QED
      BY <3>1, <2>3, <1>1, <1>4
  <2> QED
    BY <2>1, <2>2, <2>3
<1>8. g = [n \in 0 .. N |-> IF n = 0 THEN <<>> ELSE More(g[n - 1], born[n])]
  BY <1>6, <1>7 DEF IsIteration
<1>9. IsNewest(g)
  BY <1>8 DEF IsNewest, N, More
<1> QED
  BY <1>9

LEMMA BootstrappedGives ==
  ASSUME RecordTypes
  PROVE  /\ Bootstrapped \in Seq(Order)
         /\ ToSet(Bootstrapped) = {o \in ToSet(born) : doc[o].status = "ready"}
<1> DEFINE N == Len(born)
           More(s, o) == IF doc[o].status = "ready" THEN <<o>> \o s ELSE s
           g == CHOOSE g : IsNewest(g)
           Ready(n) == {o \in {born[i] : i \in 1 .. n} : doc[o].status = "ready"}
           Good(n) == g[n] \in Seq(Order) /\ ToSet(g[n]) = Ready(n)
           Bad == {n \in 0 .. N : ~Good(n)}
<1>1. N \in Nat /\ \A n \in 1 .. N : born[n] \in Order
  BY LenProperties, ElementOfSeq DEF RecordTypes
<1>2. IsNewest(g)
  BY NewestExists
<1>3. g = [n \in 0 .. N |-> IF n = 0 THEN <<>> ELSE More(g[n - 1], born[n])]
  BY <1>2 DEF IsNewest
<1>4. g[N] = Bootstrapped
  BY BootstrappedIsChosen
<1> HIDE DEF g
<1>5. Good(0)
  <2>1. g[0] = <<>>
    BY <1>1, <1>3
  <2> QED
    BY <2>1, EmptyToSet
<1>6. ASSUME NEW n \in 1 .. N, Good(n - 1) PROVE Good(n)
  <2>1. n \in 0 .. N /\ n # 0 /\ n - 1 \in 0 .. N
    BY <1>1
  <2>2. g[n] = More(g[n - 1], born[n])
    <3> HIDE DEF More
    <3> QED
      BY <2>1, <1>3
  <2>3. {born[i] : i \in 1 .. n} = {born[i] : i \in 1 .. n - 1} \cup {born[n]}
    BY <1>1
  <2>4. CASE doc[born[n]].status = "ready"
    <3>1. g[n] = <<born[n]>> \o g[n - 1]
      BY <2>2, <2>4
    <3>2. g[n] \in Seq(Order) /\ ToSet(g[n]) = {born[n]} \cup ToSet(g[n - 1])
      BY <3>1, <1>1, <1>6, ConsToSet
    <3>3. Ready(n) = {born[n]} \cup Ready(n - 1)
      BY <2>3, <2>4
    <3> QED
      BY <3>2, <3>3, <1>6
  <2>5. CASE doc[born[n]].status # "ready"
    <3>1. g[n] = g[n - 1]
      BY <2>2, <2>5
    <3>2. Ready(n) = Ready(n - 1)
      BY <2>3, <2>5
    <3> QED
      BY <3>1, <3>2, <1>6
  <2> QED
    BY <2>4, <2>5
<1> HIDE DEF Good
<1>7. ASSUME Bad # {} PROVE FALSE
  <2>1. PICK n \in Bad : \A k \in Bad : n =< k
    <3>1. Bad \in SUBSET Nat
      BY <1>1
    <3> HIDE DEF Bad
    <3> QED
      BY <1>7, <3>1, LeastNumber
  <2>2. n \in 0 .. N /\ ~Good(n) /\ n # 0
    BY <2>1, <1>5
  <2>3. n - 1 \in 0 .. N /\ ~(n =< n - 1) /\ n \in 1 .. N
    BY <2>2, <1>1
  <2>4. n - 1 \notin Bad
    <3> HIDE DEF Bad
    <3> QED
      BY <2>1, <2>3
  <2> QED
    BY <2>2, <2>3, <2>4, <1>6
<1>8. Good(N)
  BY <1>1, <1>7
<1>9. {born[i] : i \in 1 .. N} = ToSet(born)
  BY ToSetIs DEF RecordTypes
<1> QED
  BY <1>4, <1>8, <1>9 DEF Good

-----------------------------------------------------------------------------
(* A step keeps the types of what it leaves alone. *)

LEMMA KeptTypes ==
  ASSUME Types
  PROVE  /\ UNCHANGED <<asked, doc, adding, removing, born>> => RecordTypes'
         /\ UNCHANGED <<asked, order>> => OrderTypes'
         /\ UNCHANGED market => BookTypes'
         /\ UNCHANGED <<pending, boot>> => QueueTypes'
         /\ UNCHANGED <<asked, exec>> => ExecTypes'
         /\ UNCHANGED <<wallet, paid, got>> => PaidTypes'
<1>1. UNCHANGED <<asked, doc, adding, removing, born>> => RecordTypes'
  BY DEF Types, RecordTypes
<1>2. UNCHANGED <<asked, order>> => OrderTypes'
  BY DEF Types, OrderTypes
<1>3. UNCHANGED market => BookTypes'
  BY DEF Types, BookTypes, Full
<1>4. UNCHANGED <<pending, boot>> => QueueTypes'
  BY DEF Types, QueueTypes
<1>5. UNCHANGED <<asked, exec>> => ExecTypes'
  <2> SUFFICES ASSUME asked' = asked, exec' = exec PROVE ExecTypes'
    OBVIOUS
  <2>1. Piece' = Piece
    BY DEF Piece
  <2>2. Exec' = Exec
    BY <2>1 DEF Exec
  <2> QED
    BY <2>2 DEF Types, ExecTypes
<1>6. UNCHANGED <<wallet, paid, got>> => PaidTypes'
  BY DEF Types, PaidTypes
<1> QED
  BY <1>1, <1>2, <1>3, <1>4, <1>5, <1>6

LEMMA StutterTypes == Types /\ UNCHANGED vars => Types'
BY KeptTypes DEF vars, memory, database, Types

\* The status of a document changes.
LEMMA StatusTypes ==
  ASSUME RecordTypes, NEW o \in Order, NEW s \in Status
  PROVE  LET d == [doc EXCEPT ![o].status = s]
         IN  d \in [Order -> Doc]
             /\ \A p \in Order : d[p].side = asked[p].side /\ IsWhole(d[p].owning)
<1> DEFINE d == [doc EXCEPT ![o].status = s]
<1>1. doc \in [Order -> Doc] /\ \A p \in Order : doc[p].side = asked[p].side /\ IsWhole(doc[p].owning)
  BY DEF RecordTypes
<1>2. ASSUME NEW p \in Order
      PROVE  d[p] \in Doc /\ d[p].side = doc[p].side /\ d[p].owning = doc[p].owning
  BY <1>1 DEF Doc
<1>3. d \in [Order -> Doc]
  BY <1>1, <1>2
<1> HIDE DEF d
<1>4. \A p \in Order : d[p].side = asked[p].side /\ IsWhole(d[p].owning)
  BY <1>1, <1>2
<1> QED
  BY <1>3, <1>4 DEF d

LEMMA PrepareTypes == ASSUME Types, NEW o \in Order, Prepare(o) PROVE Types'
<1>1. RecordTypes /\ born \in Seq(Order)
  BY DEF Types, RecordTypes
<1>2. RecordTypes'
  <2>1. born' \in Seq(Order)
    BY <1>1, AppendToSet DEF Prepare
  <2>2. doc' \in [Order -> Doc]
        /\ \A p \in Order : doc'[p].side = asked[p].side /\ IsWhole(doc'[p].owning)
    BY <1>1, StatusTypes DEF Prepare, Status
  <2>3. adding' \in [Order -> AddPc]
    BY <1>1 DEF Prepare, RecordTypes, AddPc
  <2> QED
    BY <1>1, <2>1, <2>2, <2>3 DEF Prepare, RecordTypes
<1> QED
  BY <1>2, KeptTypes DEF Prepare, memory, Types

LEMMA SetReadyTypes == ASSUME Types, NEW o \in Order, SetReady(o) PROVE Types'
<1>1. RecordTypes
  BY DEF Types
<1>2. RecordTypes'
  <2>2. doc' \in [Order -> Doc]
        /\ \A p \in Order : doc'[p].side = asked[p].side /\ IsWhole(doc'[p].owning)
    BY <1>1, StatusTypes DEF SetReady, Status
  <2>3. adding' \in [Order -> AddPc]
    BY <1>1 DEF SetReady, RecordTypes, AddPc
  <2> QED
    BY <1>1, <2>2, <2>3 DEF SetReady, RecordTypes
<1> QED
  BY <1>2, KeptTypes DEF SetReady, memory, Types

LEMMA RemoveFindTypes == ASSUME Types, NEW o \in Order, RemoveFind(o) PROVE Types'
<1>1. RecordTypes'
  BY DEF Types, RemoveFind, database, RecordTypes, RemovePc
<1> QED
  BY <1>1, KeptTypes DEF RemoveFind, database, memory, Types

LEMMA RemoveAbortsTypes == ASSUME Types, NEW o \in Order, RemoveAborts(o) PROVE Types'
<1>1. RecordTypes'
  BY DEF Types, RemoveAborts, database, RecordTypes, RemovePc
<1> QED
  BY <1>1, KeptTypes DEF RemoveAborts, database, memory, Types

LEMMA FailTypes == ASSUME ExecTypes, Fail, asked' = asked PROVE ExecTypes'
<1>1. Piece' = Piece /\ Exec' = Exec
  BY DEF Piece, Exec
<1>2. exec' \in Exec /\ exec'.pc = "failed"
  BY DEF Fail, ExecTypes, Exec, ExecPc
<1> QED
  BY <1>1, <1>2 DEF ExecTypes

LEMMA TradeFailsTypes == ASSUME Types, TradeFails PROVE Types'
<1>1. ExecTypes'
  BY FailTypes DEF TradeFails, database, Types
<1> QED
  BY <1>1, KeptTypes DEF TradeFails, database, Types

LEMMA IdleTypes == ASSUME exec' = NoExec PROVE ExecTypes'
<1>1. NoExec \in Exec'
  BY DEF NoExec, Exec, ExecPc
<1> QED
  BY <1>1 DEF ExecTypes, NoExec

LEMMA EndExecTypes == ASSUME Types, EndExec PROVE Types'
<1>1. ExecTypes'
  BY IdleTypes DEF EndExec
<1> QED
  BY <1>1, KeptTypes DEF EndExec, database, Types

-----------------------------------------------------------------------------
(* What the calls do to the wallet of a user. *)

WalletTypes == wallet \in [Person -> [Currency -> Wallets]]
WalletOf(o) == wallet[UserOf[o]][Owns(o)]
Held(w) == w.available + w.locked

LEMMA WalletHas ==
  ASSUME NEW w \in Wallets
  PROVE  /\ w.available \in Int /\ w.locked \in Int /\ Held(w) \in Int
         /\ \A o \in DOMAIN w.pending : o \in Order /\ w.pending[o] \in Int /\ w.pending[o] < 0
<1>1. IsWallet(w, Order) /\ \A o \in DOMAIN w.pending : w.pending[o] < 0
  BY WalletIs
<1> QED
  BY <1>1 DEF IsWallet, Held

LEMMA LockGives ==
  ASSUME NEW w \in Wallets, NEW o \in Order, NEW n \in Nat \ {0}
  PROVE  LET v == Add(w, o, -n)
         IN  /\ v \in Wallets /\ Held(v) = Held(w)
             /\ DOMAIN v.pending = DOMAIN w.pending \cup {o}
             /\ v.pending[o] = -n
             /\ \A x \in DOMAIN w.pending \ {o} : v.pending[x] = w.pending[x]
<1> DEFINE v == Add(w, o, -n)
<1>1. IsWallet(w, Order) /\ -n \in Int
  BY WalletIs
<1>2. /\ IsWallet(v, Order)
      /\ DOMAIN v.pending = DOMAIN w.pending \cup {o}
      /\ v.pending[o] = -n
      /\ \A x \in DOMAIN w.pending \ {o} : v.pending[x] = w.pending[x]
  BY <1>1, AddGives
<1>3. v.available = w.available - n /\ v.locked = w.locked + n
  BY <1>1 DEF Add, Abs, IsWallet
<1>4. Held(v) = Held(w)
  <2> HIDE DEF v
  <2> QED
    BY <1>1, <1>3 DEF Held, IsWallet
<1>5. \A x \in DOMAIN v.pending : v.pending[x] < 0
  <2> HIDE DEF v
  <2> QED
    BY <1>2, WalletHas
<1> HIDE DEF v
<1>6. v \in Wallets
  BY <1>2, <1>5, WalletIs
<1> QED
  BY <1>2, <1>4, <1>6 DEF v

LEMMA CancelGives ==
  ASSUME NEW w \in Wallets, NEW o, HasOp(w, o)
  PROVE  LET v == Cancel(w, o)
         IN  /\ v \in Wallets /\ Held(v) = Held(w)
             /\ DOMAIN v.pending = DOMAIN w.pending \ {o}
             /\ \A x \in DOMAIN w.pending \ {o} : v.pending[x] = w.pending[x]
<1> DEFINE v == Cancel(w, o)
<1>1. IsWallet(w, Order) /\ w.pending[o] \in Int /\ w.pending[o] < 0
  BY WalletIs, WalletHas DEF HasOp
<1> DEFINE p == -w.pending[o]
<1>2. Abs(w.pending[o]) = p /\ p \in Nat
  BY <1>1 DEF Abs
<1>3. v = RemoveOp(w, o, p)
  BY <1>1, <1>2 DEF Cancel
<1> HIDE DEF v
<1>4. /\ IsWallet(v, Order)
      /\ DOMAIN v.pending = DOMAIN w.pending \ {o}
      /\ \A x \in DOMAIN w.pending \ {o} : v.pending[x] = w.pending[x]
  <2> HIDE DEF p
  <2> QED
    BY <1>1, <1>2, <1>3, RemoveGives
<1>5. v.available = w.available + p /\ v.locked = w.locked - p
  BY <1>2, <1>3 DEF RemoveOp
<1>6. Held(v) = Held(w)
  <2> HIDE DEF p
  <2> QED
    BY <1>1, <1>2, <1>5 DEF Held, IsWallet
<1>7. \A x \in DOMAIN v.pending : v.pending[x] < 0
  BY <1>4, WalletHas
<1>8. v \in Wallets
  BY <1>4, <1>7, WalletIs
<1> QED
  BY <1>4, <1>6, <1>8 DEF v

Completes(w, v, o, n) ==
  /\ v \in Wallets /\ Held(v) = Held(w) - n
  /\ -w.pending[o] >= n
  /\ DOMAIN v.pending = IF -w.pending[o] = n THEN DOMAIN w.pending \ {o} ELSE DOMAIN w.pending
  /\ -w.pending[o] # n => v.pending[o] = w.pending[o] + n
  /\ \A x \in DOMAIN w.pending \ {o} : v.pending[x] = w.pending[x]

LEMMA CompleteGives ==
  ASSUME NEW w \in Wallets, NEW o, NEW n \in Nat \ {0}, CanComplete(w, o, n)
  PROVE  Completes(w, Complete(w, o, n), o, n)
<1> DEFINE v == Complete(w, o, n)
<1>1. IsWallet(w, Order) /\ HasOp(w, o) /\ w.pending[o] \in Int /\ w.pending[o] < 0
  BY WalletIs, WalletHas DEF HasOp, CanComplete
<1>2. Abs(w.pending[o]) = -w.pending[o] /\ Abs(n) = n
  BY <1>1 DEF Abs
<1>3. CASE -w.pending[o] = n
  <2>1. v = RemoveOp(w, o, 0)
    BY <1>1, <1>2, <1>3 DEF Complete, IsTotal, CompleteTotal
  <2> HIDE DEF v
  <2>2. /\ IsWallet(v, Order)
        /\ DOMAIN v.pending = DOMAIN w.pending \ {o}
        /\ \A x \in DOMAIN w.pending \ {o} : v.pending[x] = w.pending[x]
    BY <1>1, <2>1, RemoveGives
  <2>3. v.available = w.available + 0 /\ v.locked = w.locked - n
    BY <2>1, <1>2, <1>3 DEF RemoveOp
  <2>4. Held(v) = Held(w) - n
    BY <1>1, <2>3 DEF Held, IsWallet
  <2>5. \A x \in DOMAIN v.pending : v.pending[x] < 0
    BY <2>2, WalletHas
  <2>6. v \in Wallets
    BY <2>2, <2>5, WalletIs
  <2> QED
    BY <1>1, <1>3, <2>2, <2>4, <2>6 DEF v, Completes
<1>4. CASE -w.pending[o] # n
  <2>1. CanCompletePartial(w, o, n) /\ v = CompletePartial(w, o, n)
    BY <1>1, <1>2, <1>4 DEF Complete, CanComplete, IsTotal
  <2>2. -w.pending[o] - n > 0
    BY <2>1, <1>2 DEF CanCompletePartial
  <2> HIDE DEF v
  <2>3. /\ IsWallet(v, Order)
        /\ DOMAIN v.pending = DOMAIN w.pending
        /\ v.pending[o] = w.pending[o] + n
        /\ \A x \in DOMAIN w.pending \ {o} : v.pending[x] = w.pending[x]
    BY <1>1, <2>1, PartialGives
  <2>4. v.available = w.available + 0 /\ v.locked = w.locked - n
    BY <2>1, <1>1, <1>2 DEF CompletePartial
  <2>5. Held(v) = Held(w) - n
    BY <1>1, <2>4 DEF Held, IsWallet
  <2>6. \A x \in DOMAIN v.pending : v.pending[x] < 0
    BY <1>1, <2>2, <2>3, WalletHas
  <2>7. v \in Wallets
    BY <2>3, <2>6, WalletIs
  <2> QED
    BY <1>1, <1>4, <2>2, <2>3, <2>5, <2>7 DEF v, Completes
<1> QED
  BY <1>3, <1>4

LEMMA CreditedGives ==
  ASSUME NEW w \in Wallets, NEW n \in Nat \ {0}
  PROVE  LET v == Complete(Add(w, "trade", n), "trade", 0)
         IN  /\ v \in Wallets /\ Held(v) = Held(w) + n
             /\ v.pending = w.pending
<1> DEFINE Ops == Order \cup {"trade"}
           u == Add(w, "trade", n)
           v == Complete(u, "trade", 0)
<1>1. IsWallet(w, Order) /\ \A o \in DOMAIN w.pending : w.pending[o] < 0
  BY WalletIs
<1>2. IsWallet(w, Ops) /\ ~HasOp(w, "trade")
  BY <1>1, OrderAssumption DEF IsWallet, HasOp
<1>3. /\ IsWallet(v, Ops) /\ v.available = w.available + n
      /\ DOMAIN v.pending = DOMAIN w.pending
      /\ \A o \in DOMAIN w.pending : v.pending[o] = w.pending[o]
  <2>1. "trade" \in Ops
    OBVIOUS
  <2> HIDE DEF Ops
  <2> QED
    BY <1>2, <2>1, CreditGives
<1>4. v.locked = w.locked + 0
  <2>1. u.pending["trade"] = n /\ u.locked = w.locked + n
    BY DEF Add, Abs
  <2>2. v = RemoveOp(u, "trade", n)
    BY <2>1 DEF Complete, IsTotal, CompleteTotal
  <2>3. v.locked = u.locked - n
    <3> HIDE DEF u, v
    <3> QED
      BY <2>1, <2>2 DEF RemoveOp, Abs
  <2> HIDE DEF u, v
  <2> QED
    BY <2>1, <2>3, <1>1 DEF IsWallet
<1> HIDE DEF u, v
<1>5. v.pending = w.pending
  BY <1>1, <1>3 DEF IsWallet
<1>6. IsWallet(v, Order)
  BY <1>1, <1>3, <1>5 DEF IsWallet
<1>7. v \in Wallets
  BY <1>1, <1>5, <1>6, WalletIs
<1>8. Held(v) = Held(w) + n
  BY <1>1, <1>3, <1>4 DEF Held, IsWallet
<1> QED
  BY <1>5, <1>7, <1>8 DEF u, v

\* Some wallets are others but for the one of u in c, which is v.
Alters(w, x, u, c, v) ==
  /\ x \in [Person -> [Currency -> Wallets]]
  /\ x[u][c] = v
  /\ \A p \in Person, d \in Currency : (p # u \/ d # c) => x[p][d] = w[p][d]

LEMMA AltersIs ==
  ASSUME NEW w \in [Person -> [Currency -> Wallets]], NEW u \in Person, NEW c \in Currency,
         NEW v \in Wallets
  PROVE  Alters(w, [w EXCEPT ![u][c] = v], u, c, v)
<1> HIDE DEF Wallets
<1> QED
  BY DEF Alters

LEMMA OwnsIs ==
  ASSUME RecordTypes, NEW o \in Order
  PROVE  /\ UserOf[o] \in Person
         /\ Owns(o) \in Currency /\ Wants(o) \in Currency /\ Owns(o) # Wants(o)
         /\ \A p \in Order : asked[p].side # asked[o].side => Owns(p) = Wants(o) /\ Wants(p) = Owns(o)
<1>1. \A p \in Order : asked[p].side \in {"buy", "sell"}
  BY AskedIs DEF Side
<1> QED
  BY <1>1, OrderAssumption DEF Owns, Wants, Currency

\* What the settlement of one side of a match does to the wallets.
Settles(w, x, m, given, gotten) ==
  /\ x \in [Person -> [Currency -> Wallets]]
  /\ x[UserOf[m.id]][Owns(m.id)] = Complete(w[UserOf[m.id]][Owns(m.id)], m.id, given)
  /\ \A u \in Person, c \in Currency :
       /\ (u # UserOf[m.id] \/ c # Owns(m.id)) => x[u][c].pending = w[u][c].pending
       /\ Held(x[u][c]) = Held(w[u][c])
                          - (IF u = UserOf[m.id] /\ c = Owns(m.id) THEN given ELSE 0)
                          + (IF u = UserOf[m.id] /\ c = Wants(m.id) THEN gotten ELSE 0)

LEMMA SettleGives ==
  ASSUME RecordTypes, NEW w \in [Person -> [Currency -> Wallets]], NEW m, m.id \in Order,
         Traded(m).owning \in Nat \ {0}, Traded(m).requesting \in Nat \ {0},
         CanComplete(w[UserOf[m.id]][Owns(m.id)], m.id, Traded(m).owning)
  PROVE  Settles(w, Settle(w, m), m, Traded(m).owning, Traded(m).requesting)
<1> DEFINE u == UserOf[m.id]
           c == Owns(m.id)
           d == Wants(m.id)
           n == Traded(m).owning
           r == Traded(m).requesting
           v == Complete(w[u][c], m.id, n)
           z == Complete(Add(w[u][d], "trade", r), "trade", 0)
           y == [w EXCEPT ![u][c] = v]
           x == [y EXCEPT ![u][d] = z]
<1>1. u \in Person /\ c \in Currency /\ d \in Currency /\ c # d
  BY OwnsIs
<1>2. w[u][c] \in Wallets /\ w[u][d] \in Wallets
  BY <1>1
<1>3. v \in Wallets /\ Held(v) = Held(w[u][c]) - n
  <2> DEFINE s == w[u][c]
             o == m.id
  <2>1. s \in Wallets /\ n \in Nat \ {0} /\ CanComplete(s, o, n)
    BY <1>2
  <2> HIDE DEF s, o, n
  <2>2. Completes(s, Complete(s, o, n), o, n)
    BY <2>1, CompleteGives
  <2> QED
    BY <2>2 DEF s, o, Completes
<1>4. z \in Wallets /\ Held(z) = Held(w[u][d]) + r /\ z.pending = w[u][d].pending
  BY <1>2, CreditedGives
<1>5. Settle(w, m) = x
  BY <1>1 DEF Settle
<1> HIDE DEF u, c, d, v, z
<1>6. Alters(w, y, u, c, v)
  BY <1>1, <1>3, AltersIs
<1>7. y \in [Person -> [Currency -> Wallets]]
  BY <1>6 DEF Alters
<1> HIDE DEF y
<1>8. Alters(y, x, u, d, z)
  BY <1>1, <1>4, <1>7, AltersIs
<1> HIDE DEF x
<1>9. /\ x \in [Person -> [Currency -> Wallets]]
      /\ x[u][c] = v /\ x[u][d] = z
      /\ \A p \in Person, e \in Currency : (p # u \/ e \notin {c, d}) => x[p][e] = w[p][e]
  BY <1>1, <1>6, <1>8 DEF Alters
<1>10. \A p \in Person, e \in Currency : Held(w[p][e]) \in Int
  BY WalletHas
<1> HIDE DEF n, r
<1>0. n \in Nat /\ r \in Nat
  BY DEF n, r
<1>11. ASSUME NEW p \in Person, NEW e \in Currency
       PROVE  /\ (p # u \/ e # c) => x[p][e].pending = w[p][e].pending
              /\ Held(x[p][e]) = Held(w[p][e]) - (IF p = u /\ e = c THEN n ELSE 0)
                                               + (IF p = u /\ e = d THEN r ELSE 0)
  <2>1. CASE p = u /\ e = c
    BY <2>1, <1>0, <1>1, <1>3, <1>9, <1>10
  <2>2. CASE p = u /\ e = d
    BY <2>2, <1>0, <1>1, <1>4, <1>9, <1>10
  <2>3. CASE p # u \/ e \notin {c, d}
    BY <2>3, <1>0, <1>9, <1>10
  <2> QED
    BY <2>1, <2>2, <2>3
<1>12. Settles(w, x, m, n, r)
  BY <1>9, <1>11 DEF Settles, u, c, d, v
<1> QED
  BY <1>5, <1>12 DEF n, r

\* CanComplete looks only at the pending operations.
LEMMA CanCompleteIs ==
  ASSUME NEW v, NEW w, v.pending = w.pending, NEW o, NEW n
  PROVE  CanComplete(v, o, n) <=> CanComplete(w, o, n)
BY DEF CanComplete, CanCompletePartial, HasOp, IsTotal, SomeOpCovers

LEMMA PieceIs ==
  ASSUME RecordTypes, OrderTypes, NEW m \in Piece
  PROVE  /\ m.id \in Order /\ Amounts(m) \in Memory
         /\ Amounts(m).side = asked[m.id].side
         /\ IsWhole(Traded(m).owning) /\ IsWhole(Traded(m).requesting)
         /\ Traded(m).owning = Truncate(Amounts(m).owning)
         /\ Traded(m).owning =< Amounts(m).owning
<1>1. m.id \in Order /\ (m.part = {} \/ \E p \in Memory : m.part = {p})
      /\ \A p \in m.part : p.side = asked[m.id].side
  BY DEF Piece
<1>2. Amounts(m) \in Memory /\ Amounts(m).side = asked[m.id].side
  <2>1. CASE m.part = {}
    BY <2>1, <1>1 DEF Amounts, OrderTypes
  <2>2. CASE m.part # {}
    <3>1. PICK p \in Memory : m.part = {p}
      BY <2>2, <1>1
    <3>2. Amounts(m) = p
      BY <3>1, <2>2 DEF Amounts
    <3> QED
      BY <1>1, <3>1, <3>2
  <2> QED
    BY <2>1, <2>2
<1> DEFINE a == Amounts(m)
<1>3. a \in Memory
  BY <1>2
<1> HIDE DEF a
<1>4. /\ Truncated(a).owning = Truncate(a.owning)
      /\ Truncated(a).requesting = Truncate(a.requesting)
      /\ a.owning \in Nat /\ a.requesting \in Nat
  BY <1>3 DEF Truncated, Memory
<1>5. /\ IsWhole(Truncate(a.owning)) /\ IsWhole(Truncate(a.requesting))
      /\ Truncate(a.owning) =< a.owning
  BY <1>4, TruncateIs
<1> QED
  BY <1>1, <1>2, <1>4, <1>5 DEF Traded, a

-----------------------------------------------------------------------------
(* The steps that move funds. *)

SameFunds ==
  /\ wallet' \in [Person -> [Currency -> Wallets]]
  /\ \A u \in Person, c \in Currency : Held(wallet'[u][c]) = Held(wallet[u][c])

LEMMA LockFunds ==
  ASSUME Types, NEW o \in Order, Lock(o)
  PROVE  /\ SameFunds
         /\ wallet' = wallet \/ Alters(wallet, wallet', UserOf[o], Owns(o),
                                       Add(WalletOf(o), o, -asked[o].owning))
<1>0. RecordTypes /\ wallet \in [Person -> [Currency -> Wallets]]
  BY DEF Types, PaidTypes
<1> DEFINE u == UserOf[o]
           c == Owns(o)
           n == asked[o].owning
           s == wallet[u][c]
           v == Add(s, o, -n)
<1>1. u \in Person /\ c \in Currency /\ n \in Nat \ {0}
  BY <1>0, OwnsIs, AskedIs
<1>2. s \in Wallets
  BY <1>0, <1>1
<1>3. CASE CanAdd(s, -n)
  <2>1. wallet' = [wallet EXCEPT ![u][c] = v]
    BY <1>3 DEF Lock
  <2>2. v \in Wallets /\ Held(v) = Held(s)
    <3> HIDE DEF s, n
    <3> QED
      BY <1>1, <1>2, LockGives
  <2> HIDE DEF v, u, c
  <2>3. Alters(wallet, wallet', u, c, v)
    BY <1>0, <1>1, <2>1, <2>2, AltersIs
  <2>4. SameFunds
    BY <2>2, <2>3 DEF SameFunds, Alters, s
  <2> QED
    BY <2>3, <2>4 DEF u, c, v, s, n, WalletOf
<1>4. CASE ~CanAdd(s, -n)
  <2>1. wallet' = wallet
    BY <1>4 DEF Lock
  <2> QED
    BY <1>0, <2>1 DEF SameFunds
<1> QED
  BY <1>3, <1>4

LEMMA RemoveFunds ==
  ASSUME Types, NEW o \in Order, RemoveCommit(o)
  PROVE  /\ SameFunds
         /\ Alters(wallet, wallet', UserOf[o], Owns(o), Cancel(WalletOf(o), o))
<1>0. RecordTypes /\ wallet \in [Person -> [Currency -> Wallets]]
  BY DEF Types, PaidTypes
<1> DEFINE u == UserOf[o]
           c == Owns(o)
           s == wallet[u][c]
           v == Cancel(s, o)
<1>1. u \in Person /\ c \in Currency
  BY <1>0, OwnsIs
<1>2. s \in Wallets /\ HasOp(s, o)
  BY <1>0, <1>1 DEF RemoveCommit
<1>3. wallet' = [wallet EXCEPT ![u][c] = v]
  BY DEF RemoveCommit
<1>4. v \in Wallets /\ Held(v) = Held(s)
  <2> HIDE DEF s
  <2> QED
    BY <1>2, CancelGives
<1> HIDE DEF v, u, c
<1>5. Alters(wallet, wallet', u, c, v)
  BY <1>0, <1>1, <1>3, <1>4, AltersIs
<1>6. SameFunds
  BY <1>4, <1>5 DEF SameFunds, Alters, s
<1> QED
  BY <1>5, <1>6 DEF u, c, v, s, WalletOf

\* The wallets between the settlement of the maker and that of the taker.
Trades(maker, taker, w) ==
  /\ maker \in Piece /\ taker \in Piece
  /\ Traded(maker).owning \in Nat \ {0} /\ Traded(maker).requesting \in Nat \ {0}
  /\ Traded(taker).owning = Traded(maker).requesting
  /\ Traded(taker).requesting = Traded(maker).owning
  /\ Owns(taker.id) = Wants(maker.id) /\ Wants(taker.id) = Owns(maker.id)
  /\ maker.id # taker.id
  /\ CanComplete(wallet[UserOf[maker.id]][Owns(maker.id)], maker.id, Traded(maker).owning)
  /\ CanComplete(w[UserOf[taker.id]][Owns(taker.id)], taker.id, Traded(taker).owning)
  /\ Settles(wallet, w, maker, Traded(maker).owning, Traded(maker).requesting)
  /\ Settles(w, wallet', taker, Traded(taker).owning, Traded(taker).requesting)

LEMMA MatchIs ==
  ASSUME ExecTypes, exec.matchs # <<>>
  PROVE  exec.matchs[1][1] \in Piece /\ exec.matchs[1][2] \in Piece
<1>1. exec.matchs \in Seq(Piece \X Piece)
  BY DEF ExecTypes, Exec
<1>2. exec.matchs[1] \in Piece \X Piece
  BY <1>1, EmptySeq, ElementOfSeq, LenProperties
<1> HIDE DEF Piece
<1> QED
  BY <1>2

LEMMA TradeFunds ==
  ASSUME Types, Trade
  PROVE  \E w : Trades(exec.matchs[1][1], exec.matchs[1][2], w)
<1>0. RecordTypes /\ OrderTypes /\ ExecTypes /\ wallet \in [Person -> [Currency -> Wallets]]
  BY DEF Types, PaidTypes
<1> DEFINE maker == exec.matchs[1][1]
           taker == exec.matchs[1][2]
           w == Settle(wallet, maker)
<1>1. maker \in Piece /\ taker \in Piece
  BY <1>0, MatchIs DEF Trade, Trading
<1>2. CanTrade(maker, taker) /\ wallet' = Settle(w, taker)
  BY DEF Trade
<1> HIDE DEF maker, taker, w
<1>3. /\ maker.id \in Order /\ taker.id \in Order
      /\ Amounts(maker).side = asked[maker.id].side /\ Amounts(taker).side = asked[taker.id].side
      /\ Traded(maker).owning \in Nat /\ Traded(maker).requesting \in Nat
      /\ Traded(taker).owning \in Nat /\ Traded(taker).requesting \in Nat
  BY <1>0, <1>1, PieceIs DEF IsWhole
<1>4. /\ Traded(maker).owning = Traded(taker).requesting
      /\ Traded(maker).requesting = Traded(taker).owning
      /\ asked[maker.id].side # asked[taker.id].side
      /\ Traded(maker).requesting > 0 /\ Traded(taker).requesting > 0
      /\ CanSettle(maker) /\ CanSettle(taker)
  BY <1>2, <1>3 DEF CanTrade, Agree, TradeSaves
<1>5. Owns(taker.id) = Wants(maker.id) /\ Wants(taker.id) = Owns(maker.id) /\ maker.id # taker.id
  BY <1>0, <1>3, <1>4, OwnsIs
<1>6. Settles(wallet, w, maker, Traded(maker).owning, Traded(maker).requesting)
  BY <1>0, <1>3, <1>4, SettleGives DEF CanSettle, w
<1>7. CanComplete(w[UserOf[taker.id]][Owns(taker.id)], taker.id, Traded(taker).owning)
  <2> DEFINE u == UserOf[taker.id]
             c == Owns(taker.id)
  <2>1. u \in Person /\ c \in Currency /\ c # Owns(maker.id)
    BY <1>0, <1>3, <1>5, OwnsIs
  <2>2. w[u][c].pending = wallet[u][c].pending
    BY <1>6, <2>1 DEF Settles
  <2>3. CanComplete(wallet[u][c], taker.id, Traded(taker).owning)
    BY <1>4 DEF CanSettle
  <2> HIDE DEF u, c
  <2>4. CanComplete(w[u][c], taker.id, Traded(taker).owning)
    <3> DEFINE a == w[u][c]
               b == wallet[u][c]
    <3> HIDE DEF a, b
    <3>1. a.pending = b.pending /\ CanComplete(b, taker.id, Traded(taker).owning)
      BY <2>2, <2>3 DEF a, b
    <3>2. CanComplete(a, taker.id, Traded(taker).owning)
      BY <3>1, CanCompleteIs
    <3> QED
      BY <3>2 DEF a
  <2> QED
    BY <2>4 DEF u, c
<1>8. w \in [Person -> [Currency -> Wallets]]
  BY <1>6 DEF Settles
<1>9. Settles(w, wallet', taker, Traded(taker).owning, Traded(taker).requesting)
  <2>1. /\ taker.id \in Order
        /\ Traded(taker).owning \in Nat \ {0} /\ Traded(taker).requesting \in Nat \ {0}
    BY <1>3, <1>4
  <2>2. Settles(w, Settle(w, taker), taker, Traded(taker).owning, Traded(taker).requesting)
    BY <1>0, <1>7, <1>8, <2>1, SettleGives
  <2> QED
    BY <1>2, <2>2
<1>10. Trades(maker, taker, w)
  BY <1>1, <1>3, <1>4, <1>5, <1>6, <1>7, <1>9 DEF Trades, CanSettle
<1> QED
  BY <1>10 DEF maker, taker

LEMMA LockTypes == ASSUME Types, NEW o \in Order, Lock(o) PROVE Types'
<1>0. RecordTypes /\ PaidTypes
  BY DEF Types
<1>1. PaidTypes'
  BY <1>0, LockFunds DEF SameFunds, PaidTypes, Lock
<1>2. RecordTypes'
  <2>1. adding' \in [Order -> AddPc]
    BY <1>0 DEF Lock, RecordTypes, AddPc
  <2>2. doc' \in [Order -> Doc] /\ \A p \in Order : doc'[p].side = asked[p].side /\ IsWhole(doc'[p].owning)
    <3>1. CASE doc' = doc
      BY <3>1, <1>0 DEF RecordTypes
    <3>2. CASE doc' = [doc EXCEPT ![o].status = "none"]
      BY <3>2, <1>0, StatusTypes DEF Status
    <3> QED
      BY <3>1, <3>2 DEF Lock
  <2> QED
    BY <1>0, <2>1, <2>2 DEF Lock, RecordTypes
<1> QED
  BY <1>1, <1>2, KeptTypes DEF Lock, memory, Types

LEMMA RemoveCommitTypes == ASSUME Types, NEW o \in Order, RemoveCommit(o) PROVE Types'
<1>0. RecordTypes /\ PaidTypes
  BY DEF Types
<1>1. PaidTypes'
  BY <1>0, RemoveFunds DEF SameFunds, PaidTypes, RemoveCommit
<1>2. RecordTypes'
  <2>1. removing' \in [Order -> [pc : RemovePc, found : Doc]]
    BY <1>0 DEF RemoveCommit, RecordTypes, RemovePc
  <2>2. doc' \in [Order -> Doc] /\ \A p \in Order : doc'[p].side = asked[p].side /\ IsWhole(doc'[p].owning)
    BY <1>0, StatusTypes DEF RemoveCommit, Status
  <2> QED
    BY <1>0, <2>1, <2>2 DEF RemoveCommit, RecordTypes
<1> QED
  BY <1>1, <1>2, KeptTypes DEF RemoveCommit, memory, Types

LEMMA TradeTypes == ASSUME Types, Trade PROVE Types'
<1>0. RecordTypes /\ PaidTypes /\ ExecTypes
  BY DEF Types
<1> DEFINE maker == exec.matchs[1][1]
           taker == exec.matchs[1][2]
<1>1. PICK w : Trades(maker, taker, w)
  BY TradeFunds
<1>2. wallet' \in [Person -> [Currency -> Wallets]]
  BY <1>1 DEF Trades, Settles
<1>3. maker.id \in Order /\ taker.id \in Order
  BY <1>1 DEF Trades, Piece
<1>4. paid' \in [Order -> Nat] /\ got' \in [Order -> Nat]
  <2>1. /\ Traded(maker).owning \in Nat /\ Traded(maker).requesting \in Nat
        /\ Traded(taker).owning \in Nat /\ Traded(taker).requesting \in Nat
    BY <1>1 DEF Trades
  <2>2. /\ paid' = [paid EXCEPT ![maker.id] = @ + Traded(maker).owning,
                                ![taker.id] = @ + Traded(taker).owning]
        /\ got' = [got EXCEPT ![maker.id] = @ + Traded(maker).requesting,
                              ![taker.id] = @ + Traded(taker).requesting]
    BY DEF Trade
  <2>3. paid \in [Order -> Nat] /\ got \in [Order -> Nat]
    BY <1>0 DEF PaidTypes
  <2> HIDE DEF maker, taker
  <2> QED
    BY <2>1, <2>2, <2>3, <1>3
<1>5. PaidTypes'
  BY <1>2, <1>4 DEF PaidTypes
<1>6. RecordTypes'
  <2>1. ASSUME NEW p \in Order
        PROVE  doc'[p] \in Doc /\ doc'[p].side = doc[p].side /\ doc'[p].owning = doc[p].owning
    <3>1. doc[p] \in Doc
      BY <1>0 DEF RecordTypes
    <3>2. doc'[p] = doc[p] \/ doc'[p] = [doc[p] EXCEPT !.status = "none"]
      BY DEF Trade
    <3> QED
      BY <3>1, <3>2 DEF Doc, Status
  <2>2. doc' \in [Order -> Doc]
    <3>1. doc' = [p \in Order |-> doc'[p]]
      BY DEF Trade
    <3> QED
      BY <2>1, <3>1
  <2> QED
    BY <1>0, <2>1, <2>2 DEF Trade, RecordTypes
<1>7. ExecTypes'
  <2>1. exec' = [exec EXCEPT !.matchs = Tail(@)] /\ asked' = asked /\ exec.pc = "trading" /\ exec.matchs # <<>>
    BY DEF Trade, Trading
  <2>2. exec \in Exec /\ exec.matchs \in Seq(Piece \X Piece)
    BY <1>0 DEF ExecTypes, Exec
  <2>3. Tail(exec.matchs) \in Seq(Piece \X Piece)
    BY <2>1, <2>2, HeadTailProperties
  <2>4. exec' \in Exec /\ exec'.pc = "trading"
    BY <2>1, <2>2, <2>3 DEF Exec
  <2>5. Piece' = Piece /\ Exec' = Exec
    BY <2>1 DEF Piece, Exec
  <2> QED
    BY <2>4, <2>5 DEF ExecTypes
<1> QED
  BY <1>5, <1>6, <1>7, KeptTypes DEF Trade, Types

LEMMA AddToMarketTypes ==
  ASSUME Types, NEW o \in Order, Begin(o), asked' = asked
  PROVE  BookTypes' /\ ExecTypes'
<1>0. RecordTypes /\ OrderTypes /\ BookTypes /\ ExecTypes
  BY DEF Types
<1>1. order[o] \in Memory /\ Price(order[o]) \in Nat
  BY <1>0, PriceIs DEF OrderTypes
<1>2. Piece' = Piece /\ Exec' = Exec
  BY DEF Piece, Exec
<1>3. CASE Crosses(o)
  <2>1. market' = market
    BY <1>3 DEF Begin
  <2>2. exec' = [NoExec EXCEPT !.pc = "loop", !.taker = {o}, !.remaining = order[o].owning]
    BY <1>3 DEF Begin
  <2>3. /\ exec' = [pc |-> "loop", taker |-> {o}, remaining |-> order[o].owning, matchs |-> <<>>,
                     leftovers |-> <<>>, unsaved |-> {}]
        /\ order[o].owning \in Nat
    BY <1>1, <2>2 DEF NoExec, Memory
  <2>4. exec' \in Exec
    BY <2>3 DEF Exec, ExecPc
  <2> QED
    BY <1>0, <1>2, <2>1, <2>3, <2>4 DEF ExecTypes, BookTypes, Full
<1>4. CASE ~Crosses(o)
  <2>1. market' = PushMaker(market, o, order[o].side, Price(order[o])) /\ exec' = exec
    BY <1>4 DEF Begin
  <2>2. market \in MarketType /\ Full(market)
    BY <1>0 DEF BookTypes
  <2>3. Gets(market, market', o, order[o].side, Price(order[o]))
    BY <1>1, <2>1, <2>2, PlaceGives
  <2>4. market' \in MarketType /\ Full(market')
    <3> DEFINE n == market'
               side == order[o].side
               price == Price(order[o])
    <3>1. Gets(market, n, o, side, price) /\ price \in Nat
      BY <1>1, <2>3
    <3> HIDE DEF n, side, price
    <3>2. n \in MarketType /\ Full(n)
      BY <2>2, <3>1, GetsIn DEF Gets
    <3> QED
      BY <3>2 DEF n
  <2>5. BookTypes'
    BY <2>4 DEF BookTypes, Full
  <2> QED
    BY <1>0, <1>2, <2>1, <2>5 DEF ExecTypes
<1> QED
  BY <1>3, <1>4

LEMMA AddedTypes == ASSUME Types, NEW o \in Order, Added(o) PROVE Types'
<1>1. BookTypes' /\ ExecTypes' /\ pending' \in Seq(Order)
  <2>1. CASE exec.pc = "idle"
    BY <2>1, AddToMarketTypes DEF Added, AddToMarket, database, Types, QueueTypes
  <2>2. CASE exec.pc # "idle"
    <3>1. pending' = Append(pending, o) /\ UNCHANGED <<asked, exec, market>>
      BY <2>2 DEF Added, AddToMarket, database
    <3>2. pending' \in Seq(Order)
      BY <3>1, AppendToSet DEF Types, QueueTypes
    <3> QED
      BY <3>1, <3>2, KeptTypes
  <2> QED
    BY <2>1, <2>2
<1>2. RecordTypes'
  BY DEF Types, Added, database, RecordTypes, AddPc
<1>3. QueueTypes'
  BY <1>1 DEF Types, Added, QueueTypes
<1> QED
  BY <1>1, <1>2, <1>3, KeptTypes DEF Added, database, Types

LEMMA BootTypes == ASSUME Types, Boot PROVE Types'
<1>0. boot \in Seq(Order) /\ boot # <<>> /\ pending \in Seq(Order)
  BY DEF Types, QueueTypes, Boot
<1>1. Head(boot) \in Order /\ Tail(boot) \in Seq(Order)
  BY <1>0, HeadTailProperties
<1>2. BookTypes' /\ ExecTypes' /\ pending' \in Seq(Order)
  <2> DEFINE o == Head(boot)
  <2>0. o \in Order /\ AddToMarket(o) /\ asked' = asked
    BY <1>1 DEF Boot, database
  <2> HIDE DEF o
  <2>1. CASE exec.pc = "idle"
    BY <2>0, <2>1, <1>0, AddToMarketTypes DEF AddToMarket
  <2>2. CASE exec.pc # "idle"
    <3>1. pending' = Append(pending, o) /\ UNCHANGED <<asked, exec, market>>
      BY <2>0, <2>2 DEF AddToMarket
    <3>2. pending' \in Seq(Order)
      BY <1>0, <2>0, <3>1, AppendToSet
    <3> QED
      BY <3>1, <3>2, KeptTypes
  <2> QED
    BY <2>1, <2>2
<1>3. QueueTypes'
  BY <1>1, <1>2 DEF Boot, QueueTypes
<1> QED
  BY <1>2, <1>3, KeptTypes DEF Boot, database, Types

LEMMA NextPendingTypes == ASSUME Types, NextPending PROVE Types'
<1>0. pending \in Seq(Order) /\ pending # <<>>
  BY DEF Types, QueueTypes, NextPending
<1>1. Head(pending) \in Order /\ Tail(pending) \in Seq(Order)
  BY <1>0, HeadTailProperties
<1>2. BookTypes' /\ ExecTypes'
  BY <1>1, AddToMarketTypes DEF NextPending, database
<1>3. QueueTypes'
  BY <1>1 DEF NextPending, QueueTypes, Types
<1> QED
  BY <1>2, <1>3, KeptTypes DEF NextPending, database, Types

LEMMA RestartTypes == ASSUME Types, Restart PROVE Types'
<1>0. RecordTypes
  BY DEF Types
<1>1. RecordTypes'
  BY <1>0 DEF Restart, database, RecordTypes, AddPc, RemovePc
<1>2. OrderTypes'
  <2>1. ASSUME NEW o \in Order
        PROVE  /\ InMemory(doc[o]) \in Memory /\ InMemory(doc[o]).side = asked[o].side
               /\ IsWhole(InMemory(doc[o]).owning)
    BY <1>0 DEF RecordTypes, Doc, InMemory, Memory
  <2>2. order' = [o \in Order |-> InMemory(doc[o])] /\ asked' = asked
    BY DEF Restart, database
  <2> QED
    BY <2>1, <2>2 DEF OrderTypes
<1>3. BookTypes'
  BY InfinityAssumption DEF Restart, BookTypes, NoMarket, MarketType, Full
<1>4. QueueTypes'
  BY <1>0, BootstrappedGives DEF Restart, QueueTypes
<1>5. ExecTypes'
  BY IdleTypes DEF Restart
<1> QED
  BY <1>1, <1>2, <1>3, <1>4, <1>5, KeptTypes DEF Restart, database, Types

LEMMA SaveOrderTypes == ASSUME Types, NEW o \in Order, SaveOrder(o) PROVE Types'
<1>0. RecordTypes /\ OrderTypes /\ ExecTypes
  BY DEF Types
<1>1. asked' = asked /\ order' = [order EXCEPT ![o] = Truncated(order[o])]
  BY DEF SaveOrder
<1>2. order[o] \in Memory /\ order[o].side = asked[o].side
  BY <1>0 DEF OrderTypes
<1>3. /\ Truncated(order[o]) \in Memory /\ Truncated(order[o]).side = asked[o].side
      /\ IsWhole(Truncated(order[o]).owning)
  <2> DEFINE m == order[o]
  <2>1. m.owning \in Nat /\ m.requesting \in Nat
    BY <1>2 DEF Memory
  <2> HIDE DEF m
  <2>2. /\ IsWhole(Truncate(m.owning)) /\ IsWhole(Truncate(m.requesting))
    BY <2>1, TruncateIs
  <2>3. m \in Memory /\ m.side = asked[o].side
    BY <1>2 DEF m
  <2> QED
    BY <2>2, <2>3 DEF Truncated, Memory, IsWhole, m
<1>4. OrderTypes'
  <2> DEFINE t == Truncated(order[o])
  <2> HIDE DEF t
  <2> QED
    BY <1>0, <1>1, <1>3 DEF OrderTypes, t
<1>5. RecordTypes'
  <2>1. CASE doc' = doc
    BY <2>1, <1>0 DEF SaveOrder, RecordTypes
  <2>2. CASE doc' = [doc EXCEPT ![o] = Stored(SavedStatus(o), order'[o])]
    <3>1. order'[o] = Truncated(order[o])
      BY <1>0, <1>1 DEF OrderTypes
    <3>2. Stored(SavedStatus(o), order'[o]) \in Doc
          /\ Stored(SavedStatus(o), order'[o]).side = asked[o].side
          /\ IsWhole(Stored(SavedStatus(o), order'[o]).owning)
      BY <3>1, <1>3 DEF Stored, SavedStatus, Doc, Status, Memory
    <3> QED
      BY <2>2, <3>2, <1>0 DEF SaveOrder, RecordTypes
  <2> QED
    BY <2>1, <2>2 DEF SaveOrder
<1>6. ExecTypes'
  <2>1. Piece' = Piece /\ Exec' = Exec
    BY <1>1 DEF Piece, Exec
  <2>2. exec \in Exec /\ (exec.pc = "loop" => \E p \in Order : exec.taker = {p})
    BY <1>0 DEF ExecTypes
  <2>3. \/ exec' = [exec EXCEPT !.unsaved = exec.unsaved \ {o}]
        \/ exec' = [exec EXCEPT !.unsaved = exec.unsaved \ {o}, !.pc = "failed"]
    BY DEF SaveOrder
  <2>4. exec' \in Exec /\ exec'.taker = exec.taker /\ (exec'.pc = "loop" => exec.pc = "loop")
    BY <2>2, <2>3 DEF Exec, ExecPc
  <2> QED
    BY <2>1, <2>2, <2>4 DEF ExecTypes
<1> QED
  BY <1>4, <1>5, <1>6, KeptTypes DEF SaveOrder, Types

\* The removal of an order takes it out of the book, or leaves the book alone.
LEMMA RemoveFromBookGives ==
  ASSUME Types, NEW o \in Order, RemoveFromBook(o)
  PROVE  /\ BookTypes'
         /\ In(market)' \subseteq In(market)
         /\ In(market) \subseteq In(market)' \cup {o}
         /\ market' = market \/ removing'[o].pc = "taken"
<1>0. RecordTypes /\ BookTypes
  BY DEF Types
<1> DEFINE price == Price(InMemory(removing[o].found))
           os == OrdersAt(market, price)
           i == CHOOSE i \in DOMAIN OrdersAt(market, price) : OrdersAt(market, price)[i] = o
<1>1. CASE price \in Prices(market) /\ Contains(os, o)
  <2>1. market' = GetOrderFromIndex(market, price, i) /\ removing'[o].pc = "taken"
    BY <1>0, <1>1 DEF RemoveFromBook, RecordTypes
  <2>2. os \in Seq(Order) /\ market \in MarketType /\ Full(market)
    BY <1>0, <1>1, NodeIs DEF BookTypes
  <2>3. i \in 1 .. Len(os) /\ os[i] = o
    <3>1. \E j \in 1 .. Len(os) : os[j] = o
      BY <1>1 DEF Contains
    <3>2. DOMAIN os = 1 .. Len(os)
      BY <2>2, LenProperties
    <3> QED
      BY <3>1, <3>2
  <2> DEFINE n == market'
  <2> HIDE DEF price, i
  <2>4. Loses(market, n, price, i)
    BY <1>1, <2>1, <2>2, <2>3, TakeGives
  <2> HIDE DEF n
  <2>5. /\ n \in MarketType /\ Full(n) /\ In(n) \subseteq In(market)
        /\ In(market) \subseteq In(n) \cup {os[i]}
    BY <1>1, <2>2, <2>3, <2>4, LosesIn DEF Loses
  <2> QED
    BY <2>1, <2>3, <2>5 DEF BookTypes, n, Full, In
<1>2. CASE ~(price \in Prices(market) /\ Contains(os, o))
  <2>1. market' = market
    BY <1>2 DEF RemoveFromBook
  <2> QED
    BY <1>0, <2>1 DEF BookTypes, Full, In
<1> QED
  BY <1>1, <1>2

LEMMA RemoveFromBookTypes == ASSUME Types, NEW o \in Order, RemoveFromBook(o) PROVE Types'
<1>0. RecordTypes /\ BookTypes
  BY DEF Types
<1>1. RecordTypes'
  <2>1. removing' \in [Order -> [pc : RemovePc, found : Doc]]
    BY <1>0 DEF RemoveFromBook, RecordTypes, RemovePc
  <2> QED
    BY <1>0, <2>1 DEF RemoveFromBook, database, RecordTypes
<1>2. BookTypes'
  BY RemoveFromBookGives
<1> QED
  BY <1>1, <1>2, KeptTypes DEF RemoveFromBook, database, Types

\* The execution looks at a taker, and at the first order of the node at the
\* price of the market.
LEMMA MatchingIs ==
  ASSUME Types, Matching
  PROVE  /\ exec.taker = {Taker} /\ Taker \in Order /\ exec.remaining \in Nat \ {0}
         /\ TakerPrice \in Prices(market)
         /\ Maker \in Order /\ Maker = OrdersAt(market, TakerPrice)[1]
         /\ 1 \in 1 .. Len(OrdersAt(market, TakerPrice))
         /\ Loses(market, GetOrderFromIndex(market, TakerPrice, 1), TakerPrice, 1)
<1>0. ExecTypes /\ BookTypes
  BY DEF Types
<1>1. PICK o \in Order : exec.taker = {o}
  BY <1>0 DEF Matching, ExecTypes
<1>2. exec.remaining \in Nat \ {0}
  <2>1. exec.remaining \in Nat
    BY <1>0 DEF ExecTypes, Exec
  <2> QED
    BY <2>1 DEF Matching, MakersLeft
<1>3. exec.taker = {Taker} /\ Taker \in Order
  BY <1>1 DEF Taker
<1> DEFINE price == TakerPrice
           os == OrdersAt(market, price)
<1>4. price \in Prices(market)
  BY DEF Matching
<1> HIDE DEF price
<1>5. /\ market \in MarketType /\ Full(market)
      /\ NodeAt(market, price) \in 1 .. Len(market.book)
      /\ os = market.book[NodeAt(market, price)].orders /\ os \in Seq(Order)
  BY <1>0, <1>4, NodeIs DEF BookTypes
<1>6. os # <<>>
  BY <1>5 DEF Full
<1>7. 1 \in 1 .. Len(os) /\ os[1] \in Order /\ Head(os) = os[1]
  BY <1>5, <1>6, EmptySeq, LenProperties, ElementOfSeq
<1>8. Loses(market, GetOrderFromIndex(market, price, 1), price, 1)
  BY <1>4, <1>5, <1>7, TakeGives
<1> QED
  BY <1>2, <1>3, <1>4, <1>7, <1>8 DEF price, Maker

LEMMA TakeMakerGives ==
  ASSUME Types, Matching, TakeMaker
  PROVE  /\ BookTypes'
         /\ Maker \in In(market)
         /\ In(market)' \subseteq In(market)
         /\ In(market) \subseteq In(market)' \cup {Maker}
<1>1. /\ TakerPrice \in Prices(market)
      /\ Maker = OrdersAt(market, TakerPrice)[1]
      /\ 1 \in 1 .. Len(OrdersAt(market, TakerPrice))
      /\ Loses(market, GetOrderFromIndex(market, TakerPrice, 1), TakerPrice, 1)
  BY MatchingIs
<1>2. market \in MarketType /\ Full(market)
  BY DEF Types, BookTypes
<1> DEFINE n == market'
           price == TakerPrice
<1>3. Loses(market, n, price, 1)
  BY <1>1 DEF TakeMaker
<1> HIDE DEF n, price
<1>4. /\ OrdersAt(market, price)[1] \in In(market)
      /\ In(n) \subseteq In(market)
      /\ In(market) \subseteq In(n) \cup {OrdersAt(market, price)[1]}
      /\ n \in MarketType /\ Full(n)
  BY <1>1, <1>2, <1>3, LosesIn DEF Loses, price
<1> QED
  BY <1>1, <1>4 DEF n, price, BookTypes, Full, In

LEMMA NotNegative ==
  ASSUME NEW n \in Int
  PROVE  Max({0, n}) = (IF n > 0 THEN n ELSE 0) /\ Max({0, n}) \in Nat
<1>1. CASE n > 0
  <2>1. \A x \in {0, n} : (\A y \in {0, n} : x >= y) <=> x = n
    BY <1>1
  <2> QED
    BY <1>1, <2>1 DEF Max
<1>2. CASE ~(n > 0)
  <2>1. \A x \in {0, n} : (\A y \in {0, n} : x >= y) <=> x = 0
    BY <1>2
  <2> QED
    BY <1>2, <2>1 DEF Max
<1> QED
  BY <1>1, <1>2

LEMMA PiecesAre ==
  ASSUME NEW o \in Order
  PROVE  /\ Whole(o) \in Piece
         /\ \A p \in Memory : p.side = asked[o].side => PartOf(o, p) \in Piece
BY DEF Whole, PartOf, Piece

\* A match is added to the others.
LEMMA MatchTypes ==
  ASSUME ExecTypes, exec.pc = "loop", asked' = asked,
         NEW a \in Piece, NEW b \in Piece, NEW n \in Nat, NEW left \in Seq(Order),
         exec' = [exec EXCEPT !.matchs = Append(exec.matchs, <<a, b>>), !.remaining = n,
                              !.leftovers = left]
  PROVE  ExecTypes'
<1>1. Piece' = Piece /\ Exec' = Exec
  BY DEF Piece, Exec
<1>2. exec \in Exec /\ exec.matchs \in Seq(Piece \X Piece)
  BY DEF ExecTypes, Exec
<1>3. Append(exec.matchs, <<a, b>>) \in Seq(Piece \X Piece)
  BY <1>2, AppendProperties
<1>4. exec' \in Exec /\ exec'.taker = exec.taker
  BY <1>2, <1>3 DEF Exec
<1> QED
  BY <1>1, <1>4 DEF ExecTypes

LEMMA SplitTakerTypes == ASSUME Types, SplitTaker PROVE Types'
<1> DEFINE m == order[Maker]
           t == order[Taker]
           rest == Rest(t, m.requesting, m.owning)
           part == Part(t, m.requesting, m.owning)
<1>0. OrderTypes /\ ExecTypes
  BY DEF Types
<1>1. /\ Taker \in Order /\ Maker \in Order
      /\ m \in Memory /\ t \in Memory /\ IsWhole(t.owning) /\ t.side = asked[Taker].side
      /\ exec.remaining \in Nat /\ exec.pc = "loop"
  BY <1>0, MatchingIs DEF SplitTaker, OrderTypes, Matching
<1>2. BookTypes' /\ asked' = asked
  BY TakeMakerGives DEF SplitTaker, database
<1>3. m.requesting \in Nat /\ m.owning \in Nat /\ exec.remaining > m.requesting
  BY <1>1 DEF Memory, SplitTaker
<1>4. CASE CanSplit(t, m.requesting, m.owning, Price(m))
  <2>1. /\ order' = [order EXCEPT ![Taker] = rest]
        /\ exec' = [exec EXCEPT !.matchs = Append(exec.matchs, <<Whole(Maker), PartOf(Taker, part)>>),
                                !.remaining = exec.remaining - m.requesting]
    BY <1>4 DEF SplitTaker
  <2>2. rest \in Memory /\ part \in Memory /\ rest.side = t.side /\ part.side = t.side /\ IsWhole(rest.owning)
    <3> HIDE DEF t
    <3> QED
      BY <1>1, <1>3, <1>4, SplitIs
  <2> HIDE DEF rest, part, m, t
  <2>3. OrderTypes'
    BY <1>0, <1>1, <1>2, <2>1, <2>2 DEF OrderTypes
  <2>4. Whole(Maker) \in Piece /\ PartOf(Taker, part) \in Piece
    BY <1>1, <2>2, PiecesAre
  <2>5. exec.leftovers \in Seq(Order) /\ exec \in Exec /\ exec.remaining - m.requesting \in Nat
    BY <1>0, <1>1, <1>3 DEF ExecTypes, Exec
  <2>6. exec' = [exec EXCEPT !.matchs = Append(exec.matchs, <<Whole(Maker), PartOf(Taker, part)>>),
                             !.remaining = exec.remaining - m.requesting,
                             !.leftovers = exec.leftovers]
    BY <2>1, <2>5 DEF Exec
  <2>7. ExecTypes'
    BY <1>0, <1>1, <1>2, <2>4, <2>5, <2>6, MatchTypes
  <2> QED
    BY <1>2, <2>3, <2>7, KeptTypes DEF SplitTaker, database, Types
<1>5. CASE ~CanSplit(t, m.requesting, m.owning, Price(m))
  <2>1. Fail /\ order' = order
    BY <1>5 DEF SplitTaker
  <2>2. ExecTypes'
    BY <1>0, <1>2, <2>1, FailTypes
  <2> QED
    BY <1>2, <2>1, <2>2, KeptTypes DEF SplitTaker, database, Types
<1> QED
  BY <1>4, <1>5

LEMMA SplitMakerTypes == ASSUME Types, SplitMaker PROVE Types'
<1> DEFINE m == order[Maker]
           t == order[Taker]
           rest == Rest(m, t.requesting, t.owning)
           part == Part(m, t.requesting, t.owning)
           n == exec.remaining - rest.requesting
<1>0. OrderTypes /\ ExecTypes
  BY DEF Types
<1>1. /\ Taker \in Order /\ Maker \in Order
      /\ m \in Memory /\ t \in Memory /\ IsWhole(m.owning) /\ m.side = asked[Maker].side
      /\ exec.remaining \in Nat /\ exec.pc = "loop"
  BY <1>0, MatchingIs DEF SplitMaker, OrderTypes, Matching
<1>2. BookTypes' /\ asked' = asked
  BY TakeMakerGives DEF SplitMaker, database
<1>3. t.requesting \in Nat /\ t.owning \in Nat
  BY <1>1 DEF Memory
<1>4. CASE CanSplit(m, t.requesting, t.owning, Price(m))
  <2>1. /\ order' = [order EXCEPT ![Maker] = rest]
        /\ exec' = [exec EXCEPT !.matchs = Append(exec.matchs, <<PartOf(Maker, part), Whole(Taker)>>),
                                !.leftovers = Append(exec.leftovers, Maker),
                                !.remaining = Max({0, n})]
    BY <1>4 DEF SplitMaker
  <2>2. rest \in Memory /\ part \in Memory /\ rest.side = m.side /\ part.side = m.side /\ IsWhole(rest.owning)
    <3> HIDE DEF m
    <3> QED
      BY <1>1, <1>3, <1>4, SplitIs
  <2>3. Max({0, n}) \in Nat
    <3>1. n \in Int
      BY <1>1, <2>2 DEF Memory
    <3> HIDE DEF n
    <3> QED
      BY <3>1, NotNegative
  <2> HIDE DEF rest, part, m, t, n
  <2>4. OrderTypes'
    BY <1>0, <1>1, <1>2, <2>1, <2>2 DEF OrderTypes
  <2>5. PartOf(Maker, part) \in Piece /\ Whole(Taker) \in Piece
    BY <1>1, <2>2, PiecesAre
  <2>6. Append(exec.leftovers, Maker) \in Seq(Order) /\ exec \in Exec
    BY <1>0, <1>1, AppendProperties DEF ExecTypes, Exec
  <2>7. exec' = [exec EXCEPT !.matchs = Append(exec.matchs, <<PartOf(Maker, part), Whole(Taker)>>),
                             !.remaining = Max({0, n}),
                             !.leftovers = Append(exec.leftovers, Maker)]
    BY <2>1, <2>6 DEF Exec
  <2>8. ExecTypes'
    BY <1>0, <1>1, <1>2, <2>3, <2>5, <2>6, <2>7, MatchTypes
  <2> QED
    BY <1>2, <2>4, <2>8, KeptTypes DEF SplitMaker, database, Types
<1>5. CASE ~CanSplit(m, t.requesting, t.owning, Price(m))
  <2>1. Fail /\ order' = order
    BY <1>5 DEF SplitMaker
  <2>2. ExecTypes'
    BY <1>0, <1>2, <2>1, FailTypes
  <2> QED
    BY <1>2, <2>1, <2>2, KeptTypes DEF SplitMaker, database, Types
<1> QED
  BY <1>4, <1>5

LEMMA MatchBothTypes == ASSUME Types, MatchBoth PROVE Types'
<1> DEFINE m == order[Maker]
           n == exec.remaining - m.requesting
<1>0. OrderTypes /\ ExecTypes
  BY DEF Types
<1>1. /\ Taker \in Order /\ Maker \in Order
      /\ m \in Memory /\ exec.remaining \in Nat /\ exec.pc = "loop"
  BY <1>0, MatchingIs DEF MatchBoth, OrderTypes, Matching
<1>2. BookTypes' /\ asked' = asked
  BY TakeMakerGives DEF MatchBoth, database
<1>3. m.requesting \in Nat /\ m.owning \in Nat
  BY <1>1 DEF Memory
<1>4. /\ order' = [order EXCEPT ![Taker].requesting = m.owning]
      /\ exec' = [exec EXCEPT !.matchs = Append(exec.matchs, <<Whole(Maker), Whole(Taker)>>),
                              !.remaining = Max({0, n})]
  BY DEF MatchBoth
<1>5. Max({0, n}) \in Nat
  <2>1. n \in Int
    BY <1>1, <1>3
  <2> HIDE DEF n
  <2> QED
    BY <2>1, NotNegative
<1>6. OrderTypes'
  <2>1. \A o \in Order : order'[o] \in Memory /\ order'[o].side = order[o].side /\ order'[o].owning = order[o].owning
    BY <1>0, <1>1, <1>3, <1>4 DEF OrderTypes, Memory
  <2>2. order' \in [Order -> Memory]
    BY <1>0, <1>4, <2>1 DEF OrderTypes
  <2> QED
    BY <1>0, <1>2, <2>1, <2>2 DEF OrderTypes
<1> HIDE DEF m, n
<1>7. Whole(Maker) \in Piece /\ Whole(Taker) \in Piece
  BY <1>1, PiecesAre
<1>8. exec.leftovers \in Seq(Order) /\ exec \in Exec
  BY <1>0 DEF ExecTypes, Exec
<1>9. exec' = [exec EXCEPT !.matchs = Append(exec.matchs, <<Whole(Maker), Whole(Taker)>>),
                           !.remaining = Max({0, n}),
                           !.leftovers = exec.leftovers]
  BY <1>4, <1>8 DEF Exec
<1>10. ExecTypes'
  BY <1>0, <1>1, <1>2, <1>5, <1>7, <1>8, <1>9, MatchTypes
<1> QED
  BY <1>2, <1>6, <1>10, KeptTypes DEF MatchBoth, database, Types

LEMMA LeftoversAre ==
  ASSUME ExecTypes, exec.pc = "loop"
  PROVE  /\ Leftovers \in Seq(Order) /\ WholesMatched \subseteq Order
         /\ ToSet(Leftovers) = ToSet(exec.leftovers) \cup (IF exec.remaining > 0 THEN {Taker} ELSE {})
<1>1. Taker \in Order
  BY DEF ExecTypes, Taker
<1>2. exec.leftovers \in Seq(Order) /\ exec.matchs \in Seq(Piece \X Piece)
  BY DEF ExecTypes, Exec
<1>3. /\ Leftovers \in Seq(Order)
      /\ ToSet(Leftovers) = ToSet(exec.leftovers) \cup (IF exec.remaining > 0 THEN {Taker} ELSE {})
  BY <1>1, <1>2, AppendToSet DEF Leftovers
<1>4. \A i \in DOMAIN exec.matchs : exec.matchs[i] \in Piece \X Piece
  BY <1>2, ElementOfSeq, LenProperties
<1>5. \A m \in Matched : m \in Piece
  BY <1>4 DEF Matched
<1>6. WholesMatched \subseteq Order
  BY <1>5 DEF WholesMatched, Piece
<1> QED
  BY <1>3, <1>6

LEMMA EndLoopTypes == ASSUME Types, EndLoop PROVE Types'
<1>0. OrderTypes /\ BookTypes /\ ExecTypes /\ exec.pc = "loop" /\ asked' = asked
  BY DEF Types, EndLoop, database
<1>1. CASE MakersLeft
  BY <1>0, <1>1, FailTypes, KeptTypes DEF EndLoop, database, Types
<1>2. CASE ~MakersLeft
  <2> DEFINE left == Leftovers
             pc == IF exec.matchs = <<>> \/ SavedTwice(left) THEN "failed" ELSE "trading"
  <2>1. /\ market' = Returned(left)
        /\ exec' = [exec EXCEPT !.leftovers = left, !.unsaved = WholesMatched \cup ToSet(left), !.pc = pc]
    BY <1>2 DEF EndLoop
  <2>2. left \in Seq(Order) /\ WholesMatched \subseteq Order /\ ToSet(left) \subseteq Order
    BY <1>0, LeftoversAre, ToSetIs
  <2>3. pc \in {"failed", "trading"}
    OBVIOUS
  <2> HIDE DEF left, pc
  <2>4. BookTypes'
    BY <1>0, <2>1, <2>2, ReturnedGives DEF BookTypes, Full
  <2>5. ExecTypes'
    <3>1. Piece' = Piece /\ Exec' = Exec
      BY <1>0 DEF Piece, Exec
    <3>2. exec' \in Exec /\ exec'.pc # "loop"
      BY <1>0, <2>1, <2>2, <2>3 DEF ExecTypes, Exec, ExecPc
    <3> QED
      BY <3>1, <3>2 DEF ExecTypes
  <2> QED
    BY <2>4, <2>5, KeptTypes DEF EndLoop, database, Types
<1> QED
  BY <1>1, <1>2

LEMMA NextTypes == Types /\ [Next]_vars => Types'
<1> SUFFICES ASSUME Types, [Next]_vars PROVE Types'
  OBVIOUS
<1>1. CASE \E o \in Order : Prepare(o) \/ AddStep(o) \/ RemoveFind(o) \/ RemoveStep(o)
  <2>1. PICK o \in Order : Prepare(o) \/ AddStep(o) \/ RemoveFind(o) \/ RemoveStep(o)
    BY <1>1
  <2>2. CASE Prepare(o) \/ RemoveFind(o)
    BY <2>2, PrepareTypes, RemoveFindTypes
  <2>3. CASE AddStep(o)
    BY <2>3, LockTypes, SetReadyTypes, AddedTypes DEF AddStep
  <2>4. CASE RemoveStep(o)
    BY <2>4, RemoveFromBookTypes, RemoveCommitTypes, RemoveAbortsTypes DEF RemoveStep
  <2> QED
    BY <2>1, <2>2, <2>3, <2>4
<1>2. CASE Boot \/ NextPending \/ Restart
  BY <1>2, BootTypes, NextPendingTypes, RestartTypes
<1>3. CASE SplitTaker \/ SplitMaker \/ MatchBoth \/ EndLoop
  BY <1>3, SplitTakerTypes, SplitMakerTypes, MatchBothTypes, EndLoopTypes
<1>4. CASE \E o \in Order : SaveOrder(o)
  BY <1>4, SaveOrderTypes
<1>5. CASE Trade \/ TradeFails \/ EndExec
  BY <1>5, TradeTypes, TradeFailsTypes, EndExecTypes
<1>6. CASE UNCHANGED vars
  BY <1>6, StutterTypes
<1> QED
  BY <1>1, <1>2, <1>3, <1>4, <1>5, <1>6 DEF Next, ExecStep

LEMMA SpecTypes == Spec => []Types
<1>1. Init => Types
  BY InitTypes
<1>2. Types /\ [Next]_vars => Types'
  BY NextTypes
<1> QED
  BY <1>1, <1>2, PTL DEF Spec

\* Whatever the orders, users and digits, the market holds numbers where it
\* should: no split, truncation, trade or removal makes an amount negative, a
\* wallet that is none, or puts in the book what is not an order.
THEOREM MarketTypeOK == Spec => []TypeOK
<1>1. Types => TypeOK
  <2> SUFFICES ASSUME Types PROVE TypeOK
    OBVIOUS
  <2>1. RecordTypes /\ OrderTypes /\ BookTypes /\ QueueTypes /\ ExecTypes /\ PaidTypes
    BY DEF Types
  <2>2. asked \in [Order -> Kinds] /\ doc \in [Order -> Doc] /\ adding \in [Order -> AddPc]
        /\ (\A o \in Order : removing[o].pc \in RemovePc /\ removing[o].found \in Doc)
        /\ born \in Seq(Order)
    BY <2>1 DEF RecordTypes
  <2>3. \A u \in Person, c \in Currency : IsWallet(wallet[u][c], Order)
    <3>1. \A u \in Person, c \in Currency : wallet[u][c] \in Wallets
      BY <2>1 DEF PaidTypes
    <3> QED
      BY <3>1, WalletIs
  <2>4. \A o \in Order : order[o].owning \in Nat /\ order[o].requesting \in Nat
    BY <2>1 DEF OrderTypes, Memory
  <2>5. InBook \subseteq Order
    BY <2>1, InIs DEF BookTypes, InBook, In
  <2>6. ToSet(pending) \subseteq Order /\ ToSet(boot) \subseteq Order
    BY <2>1, ToSetIs DEF QueueTypes
  <2>7. exec.pc \in ExecPc /\ exec.remaining \in Nat /\ exec.unsaved \subseteq Order
    BY <2>1 DEF ExecTypes, Exec
  <2>8. paid \in [Order -> Nat] /\ got \in [Order -> Nat]
    BY <2>1 DEF PaidTypes
  <2> QED
    BY <2>2, <2>3, <2>4, <2>5, <2>6, <2>7, <2>8 DEF TypeOK
<1> QED
  BY <1>1, SpecTypes, PTL

-----------------------------------------------------------------------------
(* A trade moves funds between users and makes none. *)

HeldBy(c) == [u \in Person |-> wallet[u][c].available + wallet[u][c].locked]

LEMMA SumMoves ==
  ASSUME NEW S, IsFiniteSet(S), NEW f, NEW g, \A x \in S : f[x] \in Int,
         NEW y \in S, NEW z \in S, NEW n \in Nat,
         \A x \in S : g[x] = f[x] - (IF x = y THEN n ELSE 0) + (IF x = z THEN n ELSE 0)
  PROVE  SumOf(g, S) = SumOf(f, S)
<1> DEFINE h == [x \in S |-> f[x] - (IF x = y THEN n ELSE 0)]
<1>1. \A x \in S : h[x] = f[x] - (IF x = y THEN n ELSE 0) /\ h[x] \in Int
  OBVIOUS
<1> HIDE DEF h
<1>2. \A x \in S : g[x] = h[x] + (IF x = z THEN n ELSE 0) /\ g[x] \in Int
  BY <1>1
<1>3. DifferAt(y, f, h, S) /\ h[y] = f[y] - n
  BY <1>1 DEF DifferAt
<1>4. DifferAt(z, h, g, S) /\ g[z] = h[z] + n
  BY <1>1, <1>2 DEF DifferAt
<1>5. SumOf(f, S) \in Int
  BY SumTake
<1>6. SumOf(h, S) = SumOf(f, S) - f[y] + h[y]
  BY <1>3, SumChange
<1>7. SumOf(g, S) = SumOf(h, S) - h[z] + g[z]
  BY <1>4, SumChange
<1>8. f[y] \in Int /\ h[z] \in Int
  BY <1>1
<1> QED
  BY <1>3, <1>4, <1>5, <1>6, <1>7, <1>8

LEMMA FundsSame ==
  ASSUME SameFunds, NEW c \in Currency
  PROVE  FundsOf(c)' = FundsOf(c)
<1> DEFINE f == HeldBy(c)
           g == HeldBy(c)'
<1>1. \A u \in Person : g[u] = f[u]
  BY DEF SameFunds, Held, HeldBy
<1>2. FundsOf(c) = SumOf(f, Person) /\ FundsOf(c)' = SumOf(g, Person)
  BY DEF FundsOf, HeldBy
<1> HIDE DEF f, g
<1>3. SumOf(f, Person) = SumOf(g, Person)
  BY <1>1, PersonAssumption, SumSame
<1> QED
  BY <1>2, <1>3

LEMMA FundsMove ==
  ASSUME Types, Trade, NEW c \in Currency
  PROVE  FundsOf(c)' = FundsOf(c)
<1> DEFINE maker == exec.matchs[1][1]
           taker == exec.matchs[1][2]
           a == UserOf[maker.id]
           b == UserOf[taker.id]
           give == Traded(maker).owning
           take == Traded(maker).requesting
           f == HeldBy(c)
           g == HeldBy(c)'
<1>1. PICK w : Trades(maker, taker, w)
  BY TradeFunds
<1>2. /\ maker.id \in Order /\ taker.id \in Order
      /\ give \in Nat /\ take \in Nat
      /\ Traded(taker).owning = take /\ Traded(taker).requesting = give
      /\ Owns(taker.id) = Wants(maker.id) /\ Wants(taker.id) = Owns(maker.id)
      /\ Settles(wallet, w, maker, give, take)
      /\ Settles(w, wallet', taker, take, give)
  BY <1>1 DEF Trades, Piece
<1>3. /\ a \in Person /\ b \in Person
      /\ Owns(maker.id) \in Currency /\ Wants(maker.id) \in Currency
      /\ Owns(maker.id) # Wants(maker.id)
  BY <1>2, OwnsIs DEF Types
<1>4. c = Owns(maker.id) \/ c = Wants(maker.id)
  BY <1>3 DEF Currency
<1>5. \A u \in Person : f[u] = Held(wallet[u][c]) /\ g[u] = Held(wallet'[u][c])
  BY DEF HeldBy, Held
<1>6. FundsOf(c) = SumOf(f, Person) /\ FundsOf(c)' = SumOf(g, Person)
  BY DEF FundsOf, HeldBy
<1>7. \A u \in Person : Held(wallet[u][c]) \in Int
  BY WalletHas DEF Types, PaidTypes
<1> HIDE DEF f, g, a, b, give, take, maker, taker
<1>8. \A u \in Person :
        /\ Held(w[u][c]) = Held(wallet[u][c])
             - (IF u = a /\ c = Owns(maker.id) THEN give ELSE 0)
             + (IF u = a /\ c = Wants(maker.id) THEN take ELSE 0)
        /\ Held(wallet'[u][c]) = Held(w[u][c])
             - (IF u = b /\ c = Wants(maker.id) THEN take ELSE 0)
             + (IF u = b /\ c = Owns(maker.id) THEN give ELSE 0)
  BY <1>2 DEF Settles, a, b
<1>9. CASE c = Owns(maker.id)
  <2>1. \A u \in Person : g[u] = f[u] - (IF u = a THEN give ELSE 0) + (IF u = b THEN give ELSE 0)
    BY <1>2, <1>3, <1>5, <1>7, <1>8, <1>9
  <2>2. SumOf(g, Person) = SumOf(f, Person)
    BY <1>2, <1>3, <1>5, <1>7, <2>1, PersonAssumption, SumMoves
  <2> QED
    BY <2>2, <1>6
<1>10. CASE c = Wants(maker.id)
  <2>1. \A u \in Person : g[u] = f[u] - (IF u = b THEN take ELSE 0) + (IF u = a THEN take ELSE 0)
    BY <1>2, <1>3, <1>5, <1>7, <1>8, <1>10
  <2>2. SumOf(g, Person) = SumOf(f, Person)
    BY <1>2, <1>3, <1>5, <1>7, <2>1, PersonAssumption, SumMoves
  <2> QED
    BY <2>2, <1>6
<1> QED
  BY <1>4, <1>9, <1>10

\* As many times the same.
LEMMA SumEqual ==
  ASSUME NEW S, IsFiniteSet(S), NEW n \in Nat, NEW f, \A x \in S : f[x] = n
  PROVE  SumOf(f, S) = Cardinality(S) * n
<1> DEFINE Bad == {s \in SUBSET S : SumOf(f, s) # Cardinality(s) * n}
<1>1. ASSUME Bad # {} PROVE FALSE
  <2>1. PICK s \in Bad : \A r \in Bad : r \subseteq s => r = s
    <3>1. Bad \in SUBSET SUBSET S
      OBVIOUS
    <3> HIDE DEF Bad
    <3> QED
      BY <1>1, <3>1, LeastSubset
  <2>2. s \in SUBSET S /\ SumOf(f, s) # Cardinality(s) * n /\ IsFiniteSet(s)
    BY <2>1, FS_Subset
  <2>3. CASE s = {}
    <3>1. SumOf(f, {}) = 0
      BY SumByParts, FS_EmptySet
    <3>2. Cardinality({}) = 0
      BY FS_EmptySet
    <3>3. 0 * n = 0
      OBVIOUS
    <3> QED
      BY <2>2, <2>3, <3>1, <3>2, <3>3
  <2>4. CASE s # {}
    <3>1. PICK y : y \in s
      BY <2>4
    <3> DEFINE r == s \ {y}
    <3>2. r \in SUBSET S /\ r \subseteq s /\ r # s
      BY <2>2, <3>1
    <3>3. r \notin Bad
      <4> HIDE DEF Bad, r
      <4> QED
        BY <2>1, <3>2
    <3>4. SumOf(f, r) = Cardinality(r) * n
      <4> HIDE DEF r
      <4> QED
        BY <3>2, <3>3
    <3>5. SumOf(f, s) = f[y] + SumOf(f, r) /\ f[y] = n
      BY <2>2, <3>1, SumTake
    <3>6. Cardinality(r) = Cardinality(s) - 1 /\ Cardinality(s) \in Nat /\ IsFiniteSet(r)
      BY <2>2, <3>1, FS_RemoveElement, FS_CardinalityType
    <3> DEFINE k == Cardinality(s)
    <3>7. SumOf(f, s) = n + (k - 1) * n /\ k \in Nat
      BY <3>4, <3>5, <3>6
    <3> HIDE DEF k
    <3>8. n + (k - 1) * n = k * n
      BY <3>7
    <3> QED
      BY <2>2, <3>7, <3>8 DEF k
  <2> QED
    BY <2>3, <2>4
<1>2. S \in SUBSET S
  OBVIOUS
<1> QED
  BY <1>1, <1>2

LEMMA InitFunds == Init => TradesConserve
<1> SUFFICES ASSUME Init, NEW c \in Currency PROVE FundsOf(c) = Cardinality(Person) * Funds
  BY DEF TradesConserve
<1> DEFINE f == HeldBy(c)
<1>1. \A u \in Person : f[u] = Funds
  BY FundsAssumption DEF Init, HeldBy, NewWallet
<1>2. FundsOf(c) = SumOf(f, Person)
  BY DEF FundsOf, HeldBy
<1> HIDE DEF f
<1> QED
  BY <1>1, <1>2, PersonAssumption, FundsAssumption, SumEqual

LEMMA NextFunds == Types /\ TradesConserve /\ [Next]_vars => TradesConserve'
<1> SUFFICES ASSUME Types, TradesConserve, [Next]_vars, NEW c \in Currency
             PROVE  FundsOf(c)' = FundsOf(c)
  BY DEF TradesConserve
<1>1. CASE Trade
  BY <1>1, FundsMove
<1>2. CASE \E o \in Order : Lock(o) \/ RemoveCommit(o)
  BY <1>2, LockFunds, RemoveFunds, FundsSame
<1>3. CASE wallet' = wallet
  BY <1>3 DEF FundsOf
<1>4. Trade \/ (\E o \in Order : Lock(o) \/ RemoveCommit(o)) \/ wallet' = wallet
  BY DEF Next, ExecStep, AddStep, RemoveStep, Prepare, SetReady, Added, Boot, NextPending, Restart,
         SplitTaker, SplitMaker, MatchBoth, EndLoop, SaveOrder, TradeFails, EndExec, RemoveFind,
         RemoveFromBook, RemoveAborts, vars, database
<1> QED
  BY <1>1, <1>2, <1>3, <1>4

\* Whatever is added, matched, removed or lost in a crash, and however the
\* digits of a split are cut, what the users have of a currency, available and
\* locked, is what they had: trade gives to one what it takes from the other,
\* and a match whose amounts differ is not traded.
THEOREM MarketTradesConserve == Spec => []TradesConserve
<1>1. Init => TradesConserve
  BY InitFunds
<1>2. Types /\ TradesConserve /\ [Next]_vars => TradesConserve'
  BY NextFunds
<1> QED
  BY <1>1, <1>2, SpecTypes, PTL DEF Spec

-----------------------------------------------------------------------------
(* What the parts of an order that are still to be traded amount to. *)

PartOwning(m, o) ==
  IF m.id = o /\ m.part # {} THEN Truncate((CHOOSE p \in m.part : TRUE).owning) ELSE 0
MatchOwning(e, o) == PartOwning(e[1], o) + PartOwning(e[2], o)
PromisedIn(s, o) == SumOf([i \in 1 .. Len(s) |-> MatchOwning(s[i], o)], 1 .. Len(s))

LEMMA SumNext ==
  ASSUME NEW n \in Nat, NEW f, \A i \in 1 .. n + 1 : f[i] \in Int
  PROVE  SumOf(f, 1 .. n + 1) = SumOf(f, 1 .. n) + f[n + 1] /\ SumOf(f, 1 .. n) \in Int
<1> DEFINE S == 1 .. n + 1
           y == n + 1
<1>1. IsFiniteSet(S) /\ IsFiniteSet(1 .. n) /\ y \in S /\ S \ {y} = 1 .. n
  BY FS_Interval
<1>2. \A x \in S : f[x] \in Int
  OBVIOUS
<1>3. \A x \in 1 .. n : f[x] \in Int
  OBVIOUS
<1>4. SumOf(f, 1 .. n) \in Int
  BY <1>1, <1>3, SumTake
<1> HIDE DEF S, y
<1>5. SumOf(f, S) = f[y] + SumOf(f, S \ {y}) /\ f[y] \in Int
  BY <1>1, <1>2, SumTake
<1>6. SumOf(f, S) = f[y] + SumOf(f, 1 .. n)
  BY <1>1, <1>5
<1>7. \A a, b \in Int : a + b = b + a
  OBVIOUS
<1>8. SumOf(f, S) = SumOf(f, 1 .. n) + f[y]
  BY <1>4, <1>5, <1>6, <1>7
<1> QED
  BY <1>4, <1>8 DEF S, y

LEMMA SumNat ==
  ASSUME NEW S, IsFiniteSet(S), NEW f, \A x \in S : f[x] \in Nat
  PROVE  SumOf(f, S) \in Nat
<1> DEFINE Bad == {s \in SUBSET S : SumOf(f, s) \notin Nat}
<1>1. ASSUME Bad # {} PROVE FALSE
  <2>1. PICK s \in Bad : \A r \in Bad : r \subseteq s => r = s
    <3>1. Bad \in SUBSET SUBSET S
      OBVIOUS
    <3> HIDE DEF Bad
    <3> QED
      BY <1>1, <3>1, LeastSubset
  <2>2. s \in SUBSET S /\ SumOf(f, s) \notin Nat /\ IsFiniteSet(s)
    BY <2>1, FS_Subset
  <2>3. PICK y : y \in s
    <3>1. SumOf(f, {}) = 0
      BY SumByParts, FS_EmptySet
    <3> QED
      BY <2>2, <3>1
  <2> DEFINE r == s \ {y}
  <2>4. r \in SUBSET S /\ r \subseteq s /\ r # s
    BY <2>2, <2>3
  <2>5. r \notin Bad
    <3> HIDE DEF Bad, r
    <3> QED
      BY <2>1, <2>4
  <2>6. SumOf(f, r) \in Nat
    <3> HIDE DEF r
    <3> QED
      BY <2>4, <2>5
  <2>7. SumOf(f, s) = f[y] + SumOf(f, r) /\ f[y] \in Nat
    BY <2>2, <2>3, SumTake
  <2> HIDE DEF r
  <2> QED
    BY <2>2, <2>6, <2>7
<1>2. S \in SUBSET S
  OBVIOUS
<1> QED
  BY <1>1, <1>2

LEMMA SumShift ==
  ASSUME NEW N \in Nat, NEW f, NEW g, \A i \in 1 .. N + 1 : f[i] \in Int,
         \A i \in 1 .. N : g[i] = f[i + 1]
  PROVE  SumOf(f, 1 .. N + 1) = f[1] + SumOf(g, 1 .. N)
<1> DEFINE Good(n) == SumOf(f, 1 .. n + 1) = f[1] + SumOf(g, 1 .. n)
           Bad == {n \in 0 .. N : ~Good(n)}
<1>1. SumOf(f, 1 .. 0) = 0 /\ SumOf(g, 1 .. 0) = 0
  <2>1. 1 .. 0 = {}
    OBVIOUS
  <2> QED
    BY <2>1, SumByParts, FS_EmptySet
<1>2. Good(0)
  <2> DEFINE z == 0
  <2>0. z \in Nat /\ z + 1 = 1 /\ \A i \in 1 .. z + 1 : f[i] \in Int
    OBVIOUS
  <2>1. SumOf(f, 1 .. z + 1) = SumOf(f, 1 .. z) + f[z + 1] /\ f[1] \in Int
    <3> HIDE DEF z
    <3> QED
      BY <2>0, SumNext
  <2> QED
    BY <2>1, <1>1
<1>3. ASSUME NEW n \in 0 .. N, n # 0, Good(n - 1) PROVE Good(n)
  <2> DEFINE k == n - 1
  <2>1. k \in Nat /\ n \in Nat /\ k + 1 = n /\ k + 1 + 1 = n + 1
    BY <1>3
  <2>2. \A i \in 1 .. n + 1 : f[i] \in Int
    BY <1>3
  <2>3. \A i \in 1 .. n : g[i] \in Int
    BY <1>3
  <2> HIDE DEF k
  <2>4. SumOf(f, 1 .. n + 1) = SumOf(f, 1 .. n) + f[n + 1]
    BY <2>1, <2>2, SumNext
  <2>5. SumOf(g, 1 .. k + 1) = SumOf(g, 1 .. k) + g[k + 1] /\ SumOf(g, 1 .. k) \in Int
    <3>1. \A i \in 1 .. k + 1 : g[i] \in Int
      BY <2>1, <2>3
    <3> QED
      BY <2>1, <3>1, SumNext
  <2>6. SumOf(f, 1 .. n) = f[1] + SumOf(g, 1 .. k)
    BY <1>3, <2>1 DEF k
  <2>7. g[n] = f[n + 1] /\ g[n] \in Int /\ f[1] \in Int
    BY <1>3, <2>2, <2>3
  <2>8. SumOf(g, 1 .. n) = SumOf(g, 1 .. k) + g[n]
    BY <2>1, <2>5
  <2> QED
    BY <2>4, <2>5, <2>6, <2>7, <2>8
<1> HIDE DEF Good
<1>4. ASSUME Bad # {} PROVE FALSE
  <2>1. PICK n \in Bad : \A k \in Bad : n =< k
    <3>1. Bad \in SUBSET Nat
      OBVIOUS
    <3> HIDE DEF Bad
    <3> QED
      BY <1>4, <3>1, LeastNumber
  <2>2. n \in 0 .. N /\ ~Good(n) /\ n # 0
    BY <2>1, <1>2
  <2>3. n - 1 \in 0 .. N /\ ~(n =< n - 1)
    BY <2>2
  <2>4. n - 1 \notin Bad
    <3> HIDE DEF Bad
    <3> QED
      BY <2>1, <2>3
  <2> QED
    BY <2>2, <2>3, <2>4, <1>3
<1>5. Good(N)
  BY <1>4
<1> QED
  BY <1>5 DEF Good

LEMMA PartOwningNat ==
  ASSUME NEW m \in Piece, NEW o
  PROVE  PartOwning(m, o) \in Nat
<1>1. CASE m.part = {}
  BY <1>1 DEF PartOwning
<1>2. CASE m.part # {}
  <2>1. PICK p \in Memory : m.part = {p}
    BY <1>2 DEF Piece
  <2>2. (CHOOSE q \in m.part : TRUE) = p
    BY <2>1
  <2>3. p.owning \in Nat
    BY DEF Memory
  <2>4. Truncate(p.owning) \in Nat
    BY <2>3, TruncateIs DEF IsWhole
  <2> QED
    BY <2>2, <2>4 DEF PartOwning
<1> QED
  BY <1>1, <1>2

LEMMA MatchOwningNat ==
  ASSUME NEW e \in Piece \X Piece, NEW o
  PROVE  MatchOwning(e, o) \in Nat
<1>1. e[1] \in Piece /\ e[2] \in Piece
  OBVIOUS
<1>2. PartOwning(e[1], o) \in Nat /\ PartOwning(e[2], o) \in Nat
  BY <1>1, PartOwningNat
<1> QED
  BY <1>2 DEF MatchOwning

LEMMA PromisedNat ==
  ASSUME NEW s \in Seq(Piece \X Piece), NEW o
  PROVE  PromisedIn(s, o) \in Nat
<1> DEFINE f == [i \in 1 .. Len(s) |-> MatchOwning(s[i], o)]
           S == 1 .. Len(s)
<1>1. Len(s) \in Nat /\ \A i \in 1 .. Len(s) : s[i] \in Piece \X Piece
  BY LenProperties, ElementOfSeq
<1>2. \A i \in S : f[i] \in Nat
  BY <1>1, MatchOwningNat
<1>3. IsFiniteSet(S)
  BY <1>1, FS_Interval
<1> HIDE DEF f, S
<1>4. SumOf(f, S) \in Nat
  BY <1>2, <1>3, SumNat
<1> QED
  BY <1>4 DEF PromisedIn, f, S

LEMMA PromisedAppend ==
  ASSUME NEW s \in Seq(Piece \X Piece), NEW e \in Piece \X Piece, NEW o
  PROVE  PromisedIn(Append(s, e), o) = PromisedIn(s, o) + MatchOwning(e, o)
<1> DEFINE t == Append(s, e)
           n == Len(s)
           f == [i \in 1 .. Len(s) |-> MatchOwning(s[i], o)]
           g == [i \in 1 .. Len(t) |-> MatchOwning(t[i], o)]
<1>1. n \in Nat /\ \A i \in 1 .. n : s[i] \in Piece \X Piece
  BY LenProperties, ElementOfSeq
<1>2. Len(t) = n + 1 /\ t[n + 1] = e /\ \A i \in 1 .. n : t[i] = s[i]
  BY AppendProperties
<1> HIDE DEF t, n
<1>3. \A i \in 1 .. n + 1 : i \in 1 .. n \/ i = n + 1
  BY <1>1
<1>4. \A i \in 1 .. n + 1 : t[i] \in Piece \X Piece
  BY <1>1, <1>2, <1>3
<1>5. \A i \in 1 .. n + 1 : g[i] = MatchOwning(t[i], o) /\ g[i] \in Int
  <2>1. \A i \in 1 .. n + 1 : MatchOwning(t[i], o) \in Nat
    BY <1>4, MatchOwningNat
  <2> QED
    BY <1>2, <2>1
<1>6. \A i \in 1 .. n : f[i] = MatchOwning(s[i], o)
  BY DEF n
<1>7. n + 1 \in 1 .. n + 1 /\ \A i \in 1 .. n : i \in 1 .. n + 1
  BY <1>1
<1>8. PromisedIn(s, o) = SumOf(f, 1 .. n) /\ PromisedIn(t, o) = SumOf(g, 1 .. n + 1)
  BY <1>2 DEF PromisedIn, n
<1> HIDE DEF f, g
<1>9. SumOf(g, 1 .. n + 1) = SumOf(g, 1 .. n) + g[n + 1]
  BY <1>1, <1>5, SumNext
<1>10. SumOf(f, 1 .. n) = SumOf(g, 1 .. n)
  <2>1. \A i \in 1 .. n : f[i] = g[i]
    BY <1>2, <1>5, <1>6, <1>7
  <2>2. IsFiniteSet(1 .. n)
    BY <1>1, FS_Interval
  <2> QED
    BY <2>1, <2>2, SumSame
<1>11. g[n + 1] = MatchOwning(e, o)
  BY <1>2, <1>5, <1>7
<1> QED
  BY <1>8, <1>9, <1>10, <1>11 DEF t

LEMMA PromisedTail ==
  ASSUME NEW s \in Seq(Piece \X Piece), s # <<>>, NEW o
  PROVE  PromisedIn(s, o) = MatchOwning(s[1], o) + PromisedIn(Tail(s), o)
<1> DEFINE t == Tail(s)
           n == Len(t)
           f == [i \in 1 .. Len(s) |-> MatchOwning(s[i], o)]
           g == [i \in 1 .. Len(t) |-> MatchOwning(t[i], o)]
<1>1. /\ t \in Seq(Piece \X Piece) /\ n = Len(s) - 1 /\ Len(s) \in Nat /\ n \in Nat
      /\ \A i \in 1 .. n : t[i] = s[i + 1]
      /\ \A i \in 1 .. Len(s) : s[i] \in Piece \X Piece
  BY HeadTailProperties, LenProperties, ElementOfSeq
<1> HIDE DEF t, n
<1>2. Len(s) = n + 1
  BY <1>1
<1>3. \A i \in 1 .. n + 1 : f[i] = MatchOwning(s[i], o) /\ f[i] \in Int
  <2>1. \A i \in 1 .. n + 1 : MatchOwning(s[i], o) \in Nat
    BY <1>1, <1>2, MatchOwningNat
  <2> QED
    BY <1>2, <2>1
<1>4. \A i \in 1 .. n : g[i] = MatchOwning(t[i], o)
  BY DEF n
<1>5. PromisedIn(s, o) = SumOf(f, 1 .. n + 1) /\ PromisedIn(t, o) = SumOf(g, 1 .. n)
  BY <1>2 DEF PromisedIn, n
<1> HIDE DEF f, g
<1>6. \A i \in 1 .. n : g[i] = f[i + 1]
  <2>1. \A i \in 1 .. n : i + 1 \in 1 .. n + 1
    BY <1>1
  <2> QED
    BY <2>1, <1>1, <1>3, <1>4
<1>7. SumOf(f, 1 .. n + 1) = f[1] + SumOf(g, 1 .. n)
  BY <1>1, <1>3, <1>6, SumShift
<1>8. f[1] = MatchOwning(s[1], o)
  BY <1>1, <1>3
<1> QED
  BY <1>5, <1>7, <1>8 DEF t

\* The orders of the matches.
IdsIn(s) == UNION {{s[i][1].id, s[i][2].id} : i \in 1 .. Len(s)}

LEMMA PromisedNone ==
  ASSUME NEW s \in Seq(Piece \X Piece), NEW o, o \notin IdsIn(s)
  PROVE  PromisedIn(s, o) = 0
<1> DEFINE f == [i \in 1 .. Len(s) |-> MatchOwning(s[i], o)]
           S == 1 .. Len(s)
<1>1. Len(s) \in Nat
  BY LenProperties
<1>2. \A i \in S : f[i] = 0
  <2> SUFFICES ASSUME NEW i \in S PROVE MatchOwning(s[i], o) = 0
    OBVIOUS
  <2>1. s[i][1].id # o /\ s[i][2].id # o
    BY DEF IdsIn
  <2> QED
    BY <2>1 DEF MatchOwning, PartOwning
<1>3. IsFiniteSet(S) /\ Cardinality(S) \in Nat
  BY <1>1, FS_Interval, FS_CardinalityType
<1> HIDE DEF f, S
<1>4. SumOf(f, S) = Cardinality(S) * 0
  BY <1>2, <1>3, SumEqual
<1> QED
  BY <1>3, <1>4 DEF PromisedIn, f, S

MatchesIn(s) == {s[i] : i \in DOMAIN s}

AddsMatch(s, t, a, b) ==
  /\ IdsIn(t) = IdsIn(s) \cup {a.id, b.id}
  /\ MatchesIn(t) = MatchesIn(s) \cup {<<a, b>>}

LEMMA IdsAppend ==
  ASSUME NEW s \in Seq(Piece \X Piece), NEW a \in Piece, NEW b \in Piece
  PROVE  AddsMatch(s, Append(s, <<a, b>>), a, b)
<1> DEFINE t == Append(s, <<a, b>>)
           n == Len(s)
<1>1. /\ Len(t) = n + 1 /\ t[n + 1] = <<a, b>> /\ (\A i \in 1 .. n : t[i] = s[i]) /\ n \in Nat
      /\ DOMAIN t = 1 .. Len(t) /\ DOMAIN s = 1 .. n
  BY AppendProperties, LenProperties
<1> HIDE DEF t, n
<1>2. \A i \in 1 .. n + 1 : i \in 1 .. n \/ i = n + 1
  BY <1>1
<1>3. n + 1 \in 1 .. n + 1 /\ \A i \in 1 .. n : i \in 1 .. n + 1
  BY <1>1
<1> DEFINE ids(e) == {e[1].id, e[2].id}
<1>4. ids(<<a, b>>) = {a.id, b.id}
  OBVIOUS
<1>5. IdsIn(t) = UNION {ids(t[i]) : i \in 1 .. n + 1} /\ IdsIn(s) = UNION {ids(s[i]) : i \in 1 .. n}
  BY <1>1 DEF IdsIn, n
<1> HIDE DEF ids
<1>6. IdsIn(t) = IdsIn(s) \cup {a.id, b.id}
  BY <1>1, <1>2, <1>3, <1>4, <1>5
<1>7. MatchesIn(t) = MatchesIn(s) \cup {<<a, b>>}
  BY <1>1, <1>2, <1>3 DEF MatchesIn
<1> QED
  BY <1>6, <1>7 DEF t, AddsMatch

LEMMA IdsTail ==
  ASSUME NEW s \in Seq(Piece \X Piece), s # <<>>
  PROVE  /\ s[1][1].id \in IdsIn(s) /\ s[1][2].id \in IdsIn(s)
         /\ IdsIn(Tail(s)) \subseteq IdsIn(s)
<1>1. /\ Len(Tail(s)) = Len(s) - 1 /\ Len(s) \in Nat \ {0}
      /\ \A i \in 1 .. Len(Tail(s)) : Tail(s)[i] = s[i + 1]
  BY HeadTailProperties, EmptySeq, LenProperties
<1>2. 1 \in 1 .. Len(s) /\ \A i \in 1 .. Len(Tail(s)) : i + 1 \in 1 .. Len(s)
  BY <1>1
<1> DEFINE t == Tail(s)
           ids(e) == {e[1].id, e[2].id}
<1>3. IdsIn(t) = UNION {ids(t[i]) : i \in 1 .. Len(t)} /\ IdsIn(s) = UNION {ids(s[i]) : i \in 1 .. Len(s)}
  BY DEF IdsIn
<1>4. s[1][1].id \in ids(s[1]) /\ s[1][2].id \in ids(s[1])
  OBVIOUS
<1> HIDE DEF ids
<1>5. \A i \in 1 .. Len(t) : t[i] = s[i + 1]
  BY <1>1
<1> HIDE DEF t
<1>6. IdsIn(t) \subseteq IdsIn(s)
  BY <1>2, <1>3, <1>5 DEF t
<1> QED
  BY <1>2, <1>3, <1>4, <1>6 DEF t

-----------------------------------------------------------------------------
(* Where the market has an order, and what it may have changed of it that   *)
(* is not saved.                                                            *)

Places == In(market) \cup ToSet(pending) \cup ToSet(boot) \cup exec.taker \cup ToSet(exec.leftovers)
          \cup exec.unsaved \cup IdsIn(exec.matchs)

Dirty(o) ==
  \/ exec.pc = "failed" \/ o \in exec.unsaved
  \/ exec.pc = "loop" /\ o \in exec.taker \cup ToSet(exec.leftovers)

Open(o) == doc[o].status \in {"ready", "matched"}
Promised(o) == PromisedIn(exec.matchs, o)

\* An order is in no place of the market before add gives it to it.
AddedOK(o) ==
  /\ adding[o] # "done" =>
       o \notin Places /\ order[o].owning = asked[o].owning /\ doc[o].owning = asked[o].owning
  /\ adding[o] \in {"off", "preparing"} => LockedFor(o) = 0
  /\ adding[o] = "off" => doc[o].status = "none"
  /\ adding[o] = "preparing" => doc[o].status = "preparing"
  /\ adding[o] = "locked" => doc[o].status = "preparing" /\ LockedFor(o) = asked[o].owning
  /\ adding[o] = "ready" => doc[o].status # "preparing"
  /\ o \in Places => doc[o].status # "preparing"

FoundOK(o) == removing[o].pc \in {"found", "taken"} => removing[o].found.status = "ready"

\* What an order in memory offers is what its document says, or will be saved.
CleanOK(o) == doc[o].owning > 0 /\ (Dirty(o) \/ doc[o].owning = order[o].owning)

LoopOK ==
  /\ exec.pc \in {"idle", "loop"} => exec.unsaved = {}
  /\ exec.pc = "loop" /\ exec.remaining = 0 => Taker \in WholesMatched

\* What is locked covers the order in memory and all its parts that are still
\* to be traded.
LockOK(o) ==
  /\ Open(o) => LockedFor(o) >= doc[o].owning /\ LockedFor(o) >= order[o].owning + Promised(o)
  /\ LockedFor(o) > 0 => doc[o].status # "none" \/ paid[o] > 0

BackedInv ==
  /\ \A o \in Order : AddedOK(o) /\ FoundOK(o) /\ CleanOK(o) /\ LockOK(o)
  /\ LoopOK

\* A step that leaves alone what is known of an order.
Still(o) ==
  doc'[o] = doc[o] /\ order'[o].owning = order[o].owning /\ LockedFor(o)' = LockedFor(o)

LEMMA LockedSame ==
  ASSUME wallet' = wallet, asked' = asked
  PROVE  \A o : LockedFor(o)' = LockedFor(o)
BY DEF LockedFor, Owns

LEMMA LockedIs ==
  ASSUME Types, NEW o \in Order
  PROVE  /\ WalletOf(o) \in Wallets /\ LockedFor(o) \in Nat
         /\ HasOp(WalletOf(o), o) => LockedFor(o) = -WalletOf(o).pending[o] /\ LockedFor(o) > 0
         /\ ~HasOp(WalletOf(o), o) => LockedFor(o) = 0
<1>1. UserOf[o] \in Person /\ Owns(o) \in Currency
  BY OwnsIs DEF Types
<1>2. WalletOf(o) \in Wallets
  BY <1>1 DEF Types, PaidTypes, WalletOf
<1>3. LockedFor(o) = IF HasOp(WalletOf(o), o) THEN -WalletOf(o).pending[o] ELSE 0
  BY DEF LockedFor, WalletOf
<1> DEFINE w == WalletOf(o)
<1> HIDE DEF w
<1>4. o \in DOMAIN w.pending => w.pending[o] \in Int /\ w.pending[o] < 0
  BY <1>2, WalletHas DEF w
<1> QED
  BY <1>2, <1>3, <1>4 DEF HasOp, w

LEMMA AmountsAre ==
  ASSUME Types, NEW o \in Order
  PROVE  /\ doc[o].owning \in Nat /\ order[o].owning \in Nat /\ asked[o].owning \in Nat \ {0}
         /\ Promised(o) \in Nat /\ paid[o] \in Nat /\ LockedFor(o) \in Nat
         /\ doc[o].status \in Status /\ IsWhole(order[o].owning)
<1>1. doc[o].owning \in Nat /\ doc[o].status \in Status /\ asked[o].owning \in Nat \ {0}
  BY AskedIs DEF Types, RecordTypes, Doc
<1>2. order[o].owning \in Nat /\ IsWhole(order[o].owning) /\ paid[o] \in Nat
  BY DEF Types, OrderTypes, Memory, PaidTypes
<1>3. Promised(o) \in Nat
  BY PromisedNat DEF Types, ExecTypes, Exec, Promised
<1> QED
  BY <1>1, <1>2, <1>3, LockedIs

LEMMA ExecAfter ==
  ASSUME Types', asked' = asked
  PROVE  exec' \in Exec /\ exec'.matchs \in Seq(Piece \X Piece)
<1>1. Piece' = Piece
  BY DEF Piece
<1>2. Exec' = Exec
  BY <1>1 DEF Exec
<1>3. exec' \in Exec'
  BY DEF Types, ExecTypes
<1>4. exec' \in Exec
  BY <1>2, <1>3
<1> QED
  BY <1>4 DEF Exec

LEMMA AddedKept ==
  ASSUME NEW o \in Order, AddedOK(o), asked' = asked, adding'[o] = adding[o],
         o \in Places' => o \in Places,
         \/ Still(o)
         \/ adding[o] = "done" /\ (doc'[o].status # "preparing" \/ doc'[o].status = doc[o].status)
  PROVE  AddedOK(o)'
<1>1. CASE Still(o)
  BY <1>1 DEF AddedOK, Still
<1>2. CASE adding[o] = "done" /\ (doc'[o].status # "preparing" \/ doc'[o].status = doc[o].status)
  BY <1>2 DEF AddedOK
<1> QED
  BY <1>1, <1>2

LEMMA LockKept ==
  ASSUME Types, Types', asked' = asked, NEW o \in Order, LockOK(o), Still(o),
         Promised(o)' =< Promised(o), paid'[o] >= paid[o]
  PROVE  LockOK(o)'
<1>1. /\ doc[o].owning \in Nat /\ order[o].owning \in Nat
      /\ Promised(o) \in Nat /\ paid[o] \in Nat /\ LockedFor(o) \in Nat
  BY AmountsAre
<1>2. Promised(o)' \in Nat /\ paid'[o] \in Nat
  <2>1. paid' \in [Order -> Nat]
    BY DEF Types, PaidTypes
  <2>2. exec'.matchs \in Seq(Piece \X Piece)
    BY ExecAfter
  <2> QED
    BY <2>1, <2>2, PromisedNat DEF Promised
<1>3. doc'[o] = doc[o] /\ order'[o].owning = order[o].owning /\ LockedFor(o)' = LockedFor(o)
  BY DEF Still
<1>4. CASE Open(o)
  BY <1>1, <1>2, <1>3, <1>4 DEF LockOK, Open
<1>5. CASE ~Open(o)
  BY <1>1, <1>2, <1>3, <1>5 DEF LockOK, Open
<1> QED
  BY <1>4, <1>5

LEMMA FrameBacked ==
  ASSUME Types, Types', BackedInv, asked' = asked, adding' = adding, paid' = paid, LoopOK',
         Places' \subseteq Places,
         \A o \in Order : /\ Still(o) /\ FoundOK(o)'
                          /\ Promised(o)' =< Promised(o)
                          /\ Dirty(o) => Dirty(o)'
  PROVE  BackedInv'
<1>1. ASSUME NEW o \in Order PROVE AddedOK(o)' /\ FoundOK(o)' /\ CleanOK(o)' /\ LockOK(o)'
  <2>1. AddedOK(o) /\ CleanOK(o) /\ LockOK(o) /\ Still(o)
    BY DEF BackedInv
  <2>2. AddedOK(o)'
    BY <2>1, AddedKept
  <2>3. CleanOK(o)'
    BY <2>1 DEF CleanOK, Still
  <2>4. paid'[o] >= paid[o]
    BY AmountsAre
  <2>5. LockOK(o)'
    BY <2>1, <2>4, LockKept
  <2> QED
    BY <2>2, <2>3, <2>5
<1> QED
  BY <1>1 DEF BackedInv

LEMMA ExecKept ==
  ASSUME exec' = exec
  PROVE  /\ LoopOK' <=> LoopOK
         /\ \A o : Promised(o)' = Promised(o) /\ (Dirty(o)' <=> Dirty(o))
<1>1. WholesMatched' = WholesMatched /\ Taker' = Taker
  BY DEF WholesMatched, Matched, Taker
<1> QED
  BY <1>1 DEF LoopOK, Promised, Dirty

LEMMA PlacesKept ==
  ASSUME UNCHANGED <<market, pending, exec, boot>>
  PROVE  Places' = Places
BY DEF Places, In

LEMMA RemoveFindBacked == ASSUME Types, Types', BackedInv, NEW o \in Order, RemoveFind(o) PROVE BackedInv'
<1>1. UNCHANGED <<database, adding, memory>> /\ doc[o].status = "ready"
      /\ removing' = [removing EXCEPT ![o] = [pc |-> "found", found |-> doc[o]]]
  BY DEF RemoveFind
<1>2. ASSUME NEW p \in Order PROVE FoundOK(p)'
  <2>1. FoundOK(p) /\ removing \in [Order -> [pc : RemovePc, found : Doc]]
    BY DEF BackedInv, Types, RecordTypes
  <2> QED
    BY <1>1, <2>1 DEF FoundOK
<1>3. /\ asked' = asked /\ wallet' = wallet /\ doc' = doc /\ order' = order /\ paid' = paid
      /\ exec' = exec /\ UNCHANGED <<market, pending, exec, boot>> /\ adding' = adding
  BY <1>1 DEF database, memory
<1>4. \A p \in Order : Still(p) /\ Promised(p)' =< Promised(p) /\ (Dirty(p) => Dirty(p)')
  BY <1>3, LockedSame, ExecKept, AmountsAre DEF Still
<1>5. LoopOK' /\ Places' \subseteq Places
  BY <1>3, ExecKept, PlacesKept DEF BackedInv
<1> QED
  BY <1>2, <1>3, <1>4, <1>5, FrameBacked

LEMMA RemoveAbortsBacked == ASSUME Types, Types', BackedInv, NEW o \in Order, RemoveAborts(o) PROVE BackedInv'
<1>1. UNCHANGED <<database, adding, memory>> /\ removing' = [removing EXCEPT ![o].pc = "lost"]
  BY DEF RemoveAborts
<1>2. ASSUME NEW p \in Order PROVE FoundOK(p)'
  <2>1. FoundOK(p) /\ removing \in [Order -> [pc : RemovePc, found : Doc]]
    BY DEF BackedInv, Types, RecordTypes
  <2> QED
    BY <1>1, <2>1 DEF FoundOK
<1>3. /\ asked' = asked /\ wallet' = wallet /\ doc' = doc /\ order' = order /\ paid' = paid
      /\ exec' = exec /\ UNCHANGED <<market, pending, exec, boot>> /\ adding' = adding
  BY <1>1 DEF database, memory
<1>4. \A p \in Order : Still(p) /\ Promised(p)' =< Promised(p) /\ (Dirty(p) => Dirty(p)')
  BY <1>3, LockedSame, ExecKept, AmountsAre DEF Still
<1>5. LoopOK' /\ Places' \subseteq Places
  BY <1>3, ExecKept, PlacesKept DEF BackedInv
<1> QED
  BY <1>2, <1>3, <1>4, <1>5, FrameBacked

\* A step of the execution leaves the removals as they are.
LEMMA FoundKept ==
  ASSUME BackedInv, removing' = removing
  PROVE  \A o \in Order : FoundOK(o)'
BY DEF BackedInv, FoundOK

\* In(market) loses orders only.
LEMMA BookShrinks ==
  ASSUME In(market)' \subseteq In(market), UNCHANGED <<pending, exec, boot>>
  PROVE  Places' \subseteq Places
BY DEF Places

LEMMA RemoveFromBookBacked == ASSUME Types, Types', BackedInv, NEW o \in Order, RemoveFromBook(o) PROVE BackedInv'
<1>1. UNCHANGED <<database, adding, order, pending, exec, boot>>
  BY DEF RemoveFromBook
<1>2. ASSUME NEW p \in Order PROVE FoundOK(p)'
  <2>1. FoundOK(p) /\ removing \in [Order -> [pc : RemovePc, found : Doc]]
    BY DEF BackedInv, Types, RecordTypes
  <2>2. /\ removing[o].pc = "found"
        /\ \/ removing' = [removing EXCEPT ![o].pc = "taken"]
           \/ removing' = [removing EXCEPT ![o].pc = "off"]
    BY DEF RemoveFromBook
  <2> QED
    BY <2>1, <2>2 DEF FoundOK
<1>3. /\ asked' = asked /\ wallet' = wallet /\ doc' = doc /\ order' = order /\ paid' = paid
      /\ exec' = exec /\ adding' = adding
  BY <1>1 DEF database
<1>4. \A p \in Order : Still(p) /\ Promised(p)' =< Promised(p) /\ (Dirty(p) => Dirty(p)')
  BY <1>3, LockedSame, ExecKept, AmountsAre DEF Still
<1>5. LoopOK'
  BY <1>3, ExecKept DEF BackedInv
<1>6. Places' \subseteq Places
  BY <1>1, RemoveFromBookGives, BookShrinks
<1> QED
  BY <1>2, <1>3, <1>4, <1>5, <1>6, FrameBacked

LEMMA TradeFailsBacked == ASSUME Types, Types', BackedInv, TradeFails PROVE BackedInv'
<1>1. UNCHANGED <<database, adding, removing, order, market, pending, boot>> /\ Fail
  BY DEF TradeFails
<1>2. exec' = [exec EXCEPT !.pc = "failed"] /\ exec \in Exec
  BY <1>1 DEF Fail, Types, ExecTypes
<1>3. /\ exec'.pc = "failed" /\ exec'.matchs = exec.matchs /\ exec'.taker = exec.taker
      /\ exec'.leftovers = exec.leftovers /\ exec'.unsaved = exec.unsaved
  BY <1>2 DEF Exec
<1>4. /\ asked' = asked /\ wallet' = wallet /\ doc' = doc /\ order' = order /\ paid' = paid
      /\ adding' = adding /\ removing' = removing
  BY <1>1 DEF database
<1>5. \A p \in Order : Still(p) /\ Promised(p)' =< Promised(p) /\ (Dirty(p) => Dirty(p)')
  BY <1>3, <1>4, LockedSame, AmountsAre DEF Still, Promised, Dirty
<1>6. Places' \subseteq Places /\ LoopOK'
  BY <1>1, <1>3 DEF Places, In, LoopOK
<1> QED
  BY <1>4, <1>5, <1>6, FoundKept, FrameBacked

LEMMA EndExecBacked == ASSUME Types, Types', BackedInv, EndExec PROVE BackedInv'
<1>1. /\ UNCHANGED <<database, adding, removing, order, market, pending, boot>>
      /\ exec' = NoExec /\ exec.pc = "trading" /\ exec.unsaved = {} /\ exec.matchs = <<>>
  BY DEF EndExec
<1>4. /\ asked' = asked /\ wallet' = wallet /\ doc' = doc /\ order' = order /\ paid' = paid
      /\ adding' = adding /\ removing' = removing
  BY <1>1 DEF database
<1>5. \A p \in Order : Still(p) /\ Promised(p)' =< Promised(p) /\ (Dirty(p) => Dirty(p)')
  BY <1>1, <1>4, LockedSame, AmountsAre DEF Still, Promised, Dirty, NoExec
<1>6. IdsIn(exec'.matchs) = {} /\ ToSet(exec'.leftovers) = {}
  BY <1>1, EmptyToSet DEF NoExec, IdsIn
<1>7. Places' \subseteq Places /\ LoopOK'
  BY <1>1, <1>6 DEF Places, In, LoopOK, NoExec
<1> QED
  BY <1>4, <1>5, <1>7, FoundKept, FrameBacked

\* What a step that puts an order in the market does to its places.
LEMMA BeginGives ==
  ASSUME Types, BackedInv, NEW o \in Order, Begin(o), exec.pc = "idle", asked' = asked,
         order[o].owning > 0
  PROVE  /\ In(market)' \subseteq In(market) \cup {o}
         /\ exec'.taker \cup ToSet(exec'.leftovers) \cup exec'.unsaved \cup IdsIn(exec'.matchs)
              \subseteq {o} \cup exec.taker \cup ToSet(exec.leftovers) \cup exec.unsaved \cup IdsIn(exec.matchs)
         /\ \A p \in Order : Promised(p)' =< Promised(p) /\ ~Dirty(p)
         /\ LoopOK'
<1>0. exec.unsaved = {} /\ LoopOK /\ market \in MarketType
  BY DEF BackedInv, LoopOK, Types, BookTypes
<1>1. \A p \in Order : ~Dirty(p)
  BY <1>0 DEF Dirty
<1>2. CASE Crosses(o)
  <2>1. market' = market
    BY <1>2 DEF Begin
  <2>2. exec' = [pc |-> "loop", taker |-> {o}, remaining |-> order[o].owning, matchs |-> <<>>,
                 leftovers |-> <<>>, unsaved |-> {}]
    BY <1>2 DEF Begin, NoExec
  <2>3. IdsIn(exec'.matchs) = {} /\ ToSet(exec'.leftovers) = {}
    BY <2>2, EmptyToSet DEF IdsIn
  <2>4. \A p \in Order : PromisedIn(<<>>, p) = 0
    <3>1. <<>> \in Seq(Piece \X Piece) /\ IdsIn(<<>>) = {}
      BY DEF IdsIn
    <3> QED
      BY <3>1, PromisedNone
  <2>5. \A p \in Order : Promised(p)' =< Promised(p)
    BY <2>2, <2>4, AmountsAre DEF Promised
  <2>6. LoopOK'
    BY <2>2 DEF LoopOK
  <2> QED
    BY <1>1, <2>1, <2>2, <2>3, <2>5, <2>6 DEF In
<1>3. CASE ~Crosses(o)
  <2>1. market' = PushMaker(market, o, order[o].side, Price(order[o])) /\ exec' = exec
    BY <1>3 DEF Begin
  <2> DEFINE n == market'
             side == order[o].side
             price == Price(order[o])
  <2>2. price \in Nat
    BY PriceIs DEF Types, OrderTypes
  <2>3. n = PushMaker(market, o, side, price)
    BY <2>1
  <2> HIDE DEF n, side, price
  <2>4. In(n) = In(market) \cup {o}
    BY <1>0, <2>2, <2>3, PlaceGives, GetsIn
  <2>5. In(market)' = In(market) \cup {o}
    BY <2>4 DEF n, In
  <2>6. LoopOK' /\ \A p \in Order : Promised(p)' =< Promised(p)
    BY <1>0, <2>1, ExecKept, AmountsAre
  <2> QED
    BY <1>1, <2>1, <2>5, <2>6
<1> QED
  BY <1>2, <1>3

\* An order that is not dirty offers something.
LEMMA OffersIs ==
  ASSUME Types, BackedInv, exec.pc = "idle", NEW o \in Order
  PROVE  order[o].owning > 0
<1>1. exec.unsaved = {} /\ CleanOK(o)
  BY DEF BackedInv, LoopOK
<1> QED
  BY <1>1 DEF CleanOK, Dirty

LEMMA AddToMarketGives ==
  ASSUME Types, BackedInv, NEW o \in Order, AddToMarket(o), asked' = asked
  PROVE  /\ In(market)' \cup ToSet(pending') \cup exec'.taker \cup ToSet(exec'.leftovers)
              \cup exec'.unsaved \cup IdsIn(exec'.matchs)
              \subseteq {o} \cup In(market) \cup ToSet(pending) \cup exec.taker \cup ToSet(exec.leftovers)
              \cup exec.unsaved \cup IdsIn(exec.matchs)
         /\ \A p \in Order : Promised(p)' =< Promised(p) /\ (Dirty(p) => Dirty(p)')
         /\ LoopOK'
<1>1. CASE exec.pc = "idle"
  <2>1. Begin(o) /\ pending' = pending
    BY <1>1 DEF AddToMarket
  <2> QED
    BY <1>1, <2>1, OffersIs, BeginGives
<1>2. CASE exec.pc # "idle"
  <2>1. pending' = Append(pending, o) /\ exec' = exec /\ market' = market
    BY <1>2 DEF AddToMarket
  <2>2. ToSet(pending') = ToSet(pending) \cup {o}
    BY <2>1, AppendToSet DEF Types, QueueTypes
  <2>3. In(market)' = In(market)
    BY <2>1 DEF In
  <2>4. LoopOK' /\ \A p \in Order : Promised(p)' =< Promised(p) /\ (Dirty(p) => Dirty(p)')
    BY <2>1, ExecKept, AmountsAre DEF BackedInv
  <2> QED
    BY <2>1, <2>2, <2>3, <2>4
<1> QED
  BY <1>1, <1>2

LEMMA AddedBacked == ASSUME Types, Types', BackedInv, NEW o \in Order, Added(o) PROVE BackedInv'
<1>1. /\ AddToMarket(o) /\ adding[o] = "ready" /\ adding' = [adding EXCEPT ![o] = "done"]
      /\ asked' = asked /\ wallet' = wallet /\ doc' = doc /\ order' = order /\ paid' = paid
      /\ removing' = removing /\ boot' = boot /\ adding \in [Order -> AddPc]
  BY DEF Added, database, Types, RecordTypes
<1>2. /\ \A p \in Order : Promised(p)' =< Promised(p) /\ (Dirty(p) => Dirty(p)')
      /\ LoopOK' /\ Places' \subseteq Places \cup {o}
  BY <1>1, AddToMarketGives DEF Places
<1>3. \A p \in Order : Still(p)
  BY <1>1, LockedSame DEF Still
<1>4. ASSUME NEW p \in Order PROVE AddedOK(p)' /\ CleanOK(p)' /\ LockOK(p)'
  <2>1. AddedOK(p) /\ CleanOK(p) /\ LockOK(p) /\ Still(p) /\ paid'[p] >= paid[p]
    BY <1>1, <1>3, AmountsAre DEF BackedInv
  <2>2. AddedOK(p)'
    <3>1. CASE p = o
      BY <1>1, <2>1, <3>1 DEF AddedOK
    <3>2. CASE p # o
      BY <1>1, <1>2, <2>1, <3>2, AddedKept
    <3> QED
      BY <3>1, <3>2
  <2>3. CleanOK(p)'
    BY <1>2, <2>1 DEF CleanOK, Still
  <2>4. LockOK(p)'
    BY <1>1, <1>2, <2>1, LockKept
  <2> QED
    BY <2>2, <2>3, <2>4
<1> QED
  BY <1>1, <1>2, <1>4, FoundKept DEF BackedInv

LEMMA BootBacked == ASSUME Types, Types', BackedInv, Boot PROVE BackedInv'
<1>1. /\ AddToMarket(Head(boot)) /\ boot' = Tail(boot) /\ boot # <<>>
      /\ asked' = asked /\ wallet' = wallet /\ doc' = doc /\ order' = order /\ paid' = paid
      /\ removing' = removing /\ adding' = adding
  BY DEF Boot, database
<1>2. Head(boot) \in Order /\ ToSet(boot) = {Head(boot)} \cup ToSet(boot')
  BY <1>1, TailToSet DEF Types, QueueTypes
<1>3. /\ \A p \in Order : Promised(p)' =< Promised(p) /\ (Dirty(p) => Dirty(p)')
      /\ LoopOK' /\ Places' \subseteq Places
  BY <1>1, <1>2, AddToMarketGives DEF Places
<1>4. \A p \in Order : Still(p)
  BY <1>1, LockedSame DEF Still
<1> QED
  BY <1>1, <1>3, <1>4, FoundKept, FrameBacked

LEMMA NextPendingBacked == ASSUME Types, Types', BackedInv, NextPending PROVE BackedInv'
<1>1. /\ Begin(Head(pending)) /\ pending' = Tail(pending) /\ pending # <<>> /\ exec.pc = "idle"
      /\ asked' = asked /\ wallet' = wallet /\ doc' = doc /\ order' = order /\ paid' = paid
      /\ removing' = removing /\ adding' = adding /\ boot' = boot
  BY DEF NextPending, database
<1>2. Head(pending) \in Order /\ ToSet(pending) = {Head(pending)} \cup ToSet(pending')
  BY <1>1, TailToSet DEF Types, QueueTypes
<1>3. /\ \A p \in Order : Promised(p)' =< Promised(p) /\ (Dirty(p) => Dirty(p)')
      /\ LoopOK' /\ Places' \subseteq Places
  <2> DEFINE o == Head(pending)
  <2>1. o \in Order /\ Begin(o) /\ o \in ToSet(pending)
    BY <1>1, <1>2
  <2> HIDE DEF o
  <2>2. /\ In(market)' \subseteq In(market) \cup {o}
        /\ exec'.taker \cup ToSet(exec'.leftovers) \cup exec'.unsaved \cup IdsIn(exec'.matchs)
             \subseteq {o} \cup exec.taker \cup ToSet(exec.leftovers) \cup exec.unsaved \cup IdsIn(exec.matchs)
        /\ \A p \in Order : Promised(p)' =< Promised(p) /\ ~Dirty(p)
        /\ LoopOK'
    BY <1>1, <2>1, OffersIs, BeginGives
  <2>3. ToSet(pending') \subseteq ToSet(pending)
    BY <1>2
  <2> QED
    BY <1>1, <2>1, <2>2, <2>3 DEF Places
<1>4. \A p \in Order : Still(p)
  BY <1>1, LockedSame DEF Still
<1> QED
  BY <1>1, <1>3, <1>4, FoundKept, FrameBacked

LEMMA WholesAreIds == ASSUME ExecTypes PROVE WholesMatched \subseteq IdsIn(exec.matchs)
<1>1. DOMAIN exec.matchs = 1 .. Len(exec.matchs)
  BY LenProperties DEF ExecTypes, Exec
<1> QED
  BY <1>1 DEF WholesMatched, Matched, IdsIn

LEMMA EndLoopBacked == ASSUME Types, Types', BackedInv, EndLoop PROVE BackedInv'
<1>0. OrderTypes /\ BookTypes /\ ExecTypes /\ exec.pc = "loop" /\ exec \in Exec /\ LoopOK
  BY DEF Types, EndLoop, ExecTypes, BackedInv
<1>1. /\ asked' = asked /\ wallet' = wallet /\ doc' = doc /\ order' = order /\ paid' = paid
      /\ removing' = removing /\ adding' = adding /\ boot' = boot /\ pending' = pending
  BY DEF EndLoop, database
<1>2. exec.taker = {Taker} /\ Taker \in Order
  BY <1>0 DEF ExecTypes, Taker
<1>3. \A p \in Order : Still(p)
  BY <1>1, LockedSame DEF Still
<1>4. CASE MakersLeft
  <2>1. exec' = [exec EXCEPT !.pc = "failed"] /\ market' = market
    BY <1>4 DEF EndLoop, Fail
  <2>2. /\ exec'.pc = "failed" /\ exec'.matchs = exec.matchs /\ exec'.taker = exec.taker
        /\ exec'.leftovers = exec.leftovers /\ exec'.unsaved = exec.unsaved
    BY <1>0, <2>1 DEF Exec
  <2>3. LoopOK' /\ Places' \subseteq Places
    BY <1>1, <2>1, <2>2 DEF LoopOK, Places, In
  <2>4. \A p \in Order : Promised(p)' =< Promised(p) /\ (Dirty(p) => Dirty(p)')
    BY <2>2, AmountsAre DEF Promised, Dirty
  <2> QED
    BY <1>1, <1>3, <2>3, <2>4, FoundKept, FrameBacked
<1>5. CASE ~MakersLeft
  <2>1. /\ market' = Returned(Leftovers) /\ exec'.leftovers = Leftovers
        /\ exec'.unsaved = WholesMatched \cup ToSet(Leftovers)
        /\ exec'.pc \in {"failed", "trading"}
        /\ exec'.matchs = exec.matchs /\ exec'.taker = exec.taker
    BY <1>0, <1>5 DEF EndLoop, Exec
  <2>2. /\ Leftovers \in Seq(Order)
        /\ ToSet(Leftovers) = ToSet(exec.leftovers) \cup (IF exec.remaining > 0 THEN {Taker} ELSE {})
    BY <1>0, LeftoversAre
  <2>3. In(market)' = In(market) \cup ToSet(Leftovers)
    <3>1. In(Returned(Leftovers)) = In(market) \cup ToSet(Leftovers)
      BY <1>0, <2>2, ReturnedGives
    <3> QED
      BY <2>1, <3>1 DEF In
  <2>4. Places' \subseteq Places
    BY <1>0, <1>1, <1>2, <2>1, <2>2, <2>3, WholesAreIds DEF Places
  <2>5. LoopOK'
    BY <2>1 DEF LoopOK
  <2>6. ASSUME NEW p \in Order, Dirty(p) PROVE Dirty(p)'
    <3>1. CASE exec.remaining > 0
      BY <1>0, <1>2, <2>1, <2>2, <2>6, <3>1 DEF Dirty, LoopOK
    <3>2. CASE ~(exec.remaining > 0)
      <4>1. exec.remaining = 0
        BY <1>0, <3>2 DEF Exec
      <4>2. Taker \in WholesMatched
        BY <1>0, <4>1 DEF LoopOK
      <4> QED
        BY <1>0, <1>2, <2>1, <2>2, <2>6, <4>2 DEF Dirty, LoopOK
    <3> QED
      BY <3>1, <3>2
  <2>7. \A p \in Order : Promised(p)' =< Promised(p)
    BY <2>1, AmountsAre DEF Promised
  <2> QED
    BY <1>1, <1>3, <2>4, <2>5, <2>6, <2>7, FoundKept, FrameBacked
<1> QED
  BY <1>4, <1>5

\* A step of add or remove on one order: what is true of the others stays so.
LEMMA OneBacked ==
  ASSUME Types, Types', BackedInv, NEW o \in Order,
         UNCHANGED <<asked, order, market, pending, exec, boot, paid>>,
         \A p \in Order \ {o} :
           doc'[p] = doc[p] /\ adding'[p] = adding[p] /\ LockedFor(p)' = LockedFor(p) /\ FoundOK(p)',
         doc'[o].owning = doc[o].owning, FoundOK(o)', AddedOK(o)', LockOK(o)'
  PROVE  BackedInv'
<1>1. LoopOK' /\ Places' = Places /\ \A p : Promised(p)' = Promised(p) /\ (Dirty(p)' <=> Dirty(p))
  BY ExecKept, PlacesKept DEF BackedInv
<1>2. ASSUME NEW p \in Order PROVE AddedOK(p)' /\ FoundOK(p)' /\ CleanOK(p)' /\ LockOK(p)'
  <2>1. AddedOK(p) /\ CleanOK(p) /\ LockOK(p)
    BY DEF BackedInv
  <2>2. CleanOK(p)'
    BY <1>1, <2>1 DEF CleanOK
  <2>3. CASE p = o
    BY <2>2, <2>3
  <2>4. CASE p # o
    <3>1. Still(p)
      BY <2>4 DEF Still
    <3>2. AddedOK(p)'
      BY <1>1, <2>1, <2>4, <3>1, AddedKept
    <3>3. Promised(p)' =< Promised(p) /\ paid'[p] >= paid[p]
      BY <1>1, AmountsAre
    <3>4. LockOK(p)'
      BY <2>1, <3>1, <3>3, LockKept
    <3> QED
      BY <2>2, <2>4, <3>2, <3>4
  <2> QED
    BY <2>3, <2>4
<1> QED
  BY <1>1, <1>2 DEF BackedInv

LEMMA PrepareBacked == ASSUME Types, Types', BackedInv, NEW o \in Order, Prepare(o) PROVE BackedInv'
<1>1. /\ adding[o] = "off" /\ adding' = [adding EXCEPT ![o] = "preparing"]
      /\ doc' = [doc EXCEPT ![o].status = "preparing"]
      /\ UNCHANGED <<asked, wallet, removing, order, market, pending, exec, boot, paid>>
  BY DEF Prepare, memory
<1>2. /\ adding'[o] = "preparing" /\ \A p \in Order \ {o} : adding'[p] = adding[p] /\ doc'[p] = doc[p]
      /\ doc'[o].status = "preparing" /\ doc'[o].owning = doc[o].owning
  BY <1>1 DEF Types, RecordTypes, Doc
<1>3. \A p : LockedFor(p)' = LockedFor(p)
  BY <1>1, LockedSame
<1>4. Places' = Places
  BY <1>1, PlacesKept
<1>5. AddedOK(o)'
  BY <1>1, <1>2, <1>3, <1>4 DEF BackedInv, AddedOK
<1>6. LockOK(o)'
  BY <1>1, <1>2, <1>3 DEF BackedInv, AddedOK, LockOK, Open
<1> QED
  BY <1>1, <1>2, <1>3, <1>5, <1>6, FoundKept, OneBacked

LEMMA SetReadyBacked == ASSUME Types, Types', BackedInv, NEW o \in Order, SetReady(o) PROVE BackedInv'
<1>1. /\ adding[o] = "locked" /\ adding' = [adding EXCEPT ![o] = "ready"]
      /\ doc' = [doc EXCEPT ![o].status = "ready"]
      /\ UNCHANGED <<asked, wallet, removing, order, market, pending, exec, boot, paid>>
  BY DEF SetReady, memory
<1>2. /\ adding'[o] = "ready" /\ \A p \in Order \ {o} : adding'[p] = adding[p] /\ doc'[p] = doc[p]
      /\ doc'[o].status = "ready" /\ doc'[o].owning = doc[o].owning
  BY <1>1 DEF Types, RecordTypes, Doc
<1>3. \A p : LockedFor(p)' = LockedFor(p) /\ Promised(p)' = Promised(p)
  BY <1>1, LockedSame, ExecKept
<1>4. Places' = Places
  BY <1>1, PlacesKept
<1>5. AddedOK(o)'
  BY <1>1, <1>2, <1>3, <1>4 DEF BackedInv, AddedOK
<1>6. LockOK(o)'
  <2>1. /\ o \notin Places /\ order[o].owning = asked[o].owning /\ doc[o].owning = asked[o].owning
        /\ LockedFor(o) = asked[o].owning
    BY <1>1 DEF BackedInv, AddedOK
  <2>2. Promised(o) = 0
    BY <2>1, PromisedNone DEF Promised, Places, Types, ExecTypes, Exec
  <2>3. asked[o].owning \in Nat
    BY AmountsAre
  <2>4. order' = order
    BY <1>1
  <2> QED
    BY <1>2, <1>3, <2>1, <2>2, <2>3, <2>4 DEF LockOK
<1> QED
  BY <1>1, <1>2, <1>3, <1>5, <1>6, FoundKept, OneBacked

\* What is locked after an operation of the wallet of o that is about o only.
LEMMA LockedOthers ==
  ASSUME Types, asked' = asked, NEW o \in Order, NEW v,
         Alters(wallet, wallet', UserOf[o], Owns(o), v),
         DOMAIN v.pending \ {o} = DOMAIN WalletOf(o).pending \ {o},
         \A x \in DOMAIN WalletOf(o).pending \ {o} : v.pending[x] = WalletOf(o).pending[x]
  PROVE  /\ \A p \in Order \ {o} : LockedFor(p)' = LockedFor(p)
         /\ LockedFor(o)' = IF HasOp(v, o) THEN -v.pending[o] ELSE 0
<1>0. \A p : LockedFor(p) = IF HasOp(wallet[UserOf[p]][Owns(p)], p)
                            THEN -wallet[UserOf[p]][Owns(p)].pending[p] ELSE 0
  BY DEF LockedFor
<1>1. \A p : LockedFor(p)' = IF HasOp(wallet'[UserOf[p]][Owns(p)], p)
                             THEN -wallet'[UserOf[p]][Owns(p)].pending[p] ELSE 0
  BY DEF LockedFor, Owns
<1>2. wallet'[UserOf[o]][Owns(o)] = v
  BY DEF Alters
<1>3. LockedFor(o)' = IF HasOp(v, o) THEN -v.pending[o] ELSE 0
  BY <1>1, <1>2
<1>4. ASSUME NEW p \in Order \ {o} PROVE LockedFor(p)' = LockedFor(p)
  <2>1. UserOf[p] \in Person /\ Owns(p) \in Currency
    BY OwnsIs DEF Types
  <2>2. CASE UserOf[p] = UserOf[o] /\ Owns(p) = Owns(o)
    <3> DEFINE w == WalletOf(o)
    <3>1. wallet'[UserOf[p]][Owns(p)] = v /\ wallet[UserOf[p]][Owns(p)] = w
      BY <1>2, <2>2 DEF WalletOf
    <3>2. /\ p \in DOMAIN v.pending <=> p \in DOMAIN w.pending
          /\ p \in DOMAIN w.pending => v.pending[p] = w.pending[p]
      BY <1>4
    <3> HIDE DEF w
    <3> QED
      BY <1>0, <1>1, <3>1, <3>2 DEF HasOp
  <2>3. CASE ~(UserOf[p] = UserOf[o] /\ Owns(p) = Owns(o))
    <3>1. wallet'[UserOf[p]][Owns(p)] = wallet[UserOf[p]][Owns(p)]
      BY <2>1, <2>3 DEF Alters
    <3> QED
      BY <1>0, <1>1, <3>1
  <2> QED
    BY <2>2, <2>3
<1> QED
  BY <1>3, <1>4

LEMMA LockBacked == ASSUME Types, Types', BackedInv, NEW o \in Order, Lock(o) PROVE BackedInv'
<1> DEFINE n == asked[o].owning
           v == Add(WalletOf(o), o, -n)
<1>0. adding \in [Order -> AddPc] /\ doc \in [Order -> Doc] /\ AddedOK(o) /\ LockOK(o)
  BY DEF Types, RecordTypes, BackedInv
<1>1. /\ adding[o] = "preparing"
      /\ UNCHANGED <<asked, removing, order, market, pending, exec, boot, paid>>
  BY DEF Lock, memory
<1>2. Places' = Places
  BY <1>1, PlacesKept
<1>3. o \notin Places /\ LockedFor(o) = 0 /\ doc[o].status = "preparing"
      /\ order[o].owning = n /\ doc[o].owning = n
  BY <1>0, <1>1 DEF AddedOK
<1>4. CASE CanAdd(WalletOf(o), -n)
  <2>1. /\ wallet' = [wallet EXCEPT ![UserOf[o]][Owns(o)] = v]
        /\ adding' = [adding EXCEPT ![o] = "locked"] /\ doc' = doc
    BY <1>4 DEF Lock, WalletOf
  <2>2. n \in Nat \ {0} /\ WalletOf(o) \in Wallets
    BY LockedIs, AmountsAre
  <2>3. /\ v \in Wallets
        /\ DOMAIN v.pending = DOMAIN WalletOf(o).pending \cup {o}
        /\ v.pending[o] = -n
        /\ \A x \in DOMAIN WalletOf(o).pending \ {o} : v.pending[x] = WalletOf(o).pending[x]
    <3> DEFINE w == WalletOf(o)
    <3>1. w \in Wallets
      BY <2>2
    <3> HIDE DEF w, n
    <3> QED
      BY <2>2, <3>1, LockGives
  <2>4. UserOf[o] \in Person /\ Owns(o) \in Currency /\ wallet \in [Person -> [Currency -> Wallets]]
    BY OwnsIs DEF Types, PaidTypes
  <2> HIDE DEF v
  <2>5. Alters(wallet, wallet', UserOf[o], Owns(o), v)
    BY <2>1, <2>3, <2>4, AltersIs
  <2>6. /\ \A p \in Order \ {o} : LockedFor(p)' = LockedFor(p)
        /\ LockedFor(o)' = IF HasOp(v, o) THEN -v.pending[o] ELSE 0
    BY <1>1, <2>3, <2>5, LockedOthers
  <2>7. LockedFor(o)' = n
    BY <2>2, <2>3, <2>6 DEF HasOp
  <2>8. adding'[o] = "locked" /\ \A p \in Order \ {o} : adding'[p] = adding[p]
    BY <1>0, <2>1
  <2>9. AddedOK(o)' /\ LockOK(o)'
    BY <1>1, <1>2, <1>3, <2>1, <2>7, <2>8 DEF AddedOK, LockOK, Open
  <2> QED
    BY <1>1, <2>1, <2>6, <2>8, <2>9, FoundKept, OneBacked
<1>5. CASE ~CanAdd(WalletOf(o), -n)
  <2>1. /\ wallet' = wallet /\ adding' = [adding EXCEPT ![o] = "done"]
        /\ doc' = [doc EXCEPT ![o].status = "none"]
    BY <1>5 DEF Lock, WalletOf
  <2>2. \A p : LockedFor(p)' = LockedFor(p)
    BY <1>1, <2>1, LockedSame
  <2>3. /\ adding'[o] = "done" /\ \A p \in Order \ {o} : adding'[p] = adding[p] /\ doc'[p] = doc[p]
        /\ doc'[o].status = "none" /\ doc'[o].owning = doc[o].owning
    BY <1>0, <2>1 DEF Doc
  <2>4. AddedOK(o)' /\ LockOK(o)'
    BY <1>1, <1>2, <1>3, <2>2, <2>3 DEF AddedOK, LockOK, Open
  <2> QED
    BY <1>1, <2>2, <2>3, <2>4, FoundKept, OneBacked
<1> QED
  BY <1>4, <1>5

LEMMA RemoveCommitBacked == ASSUME Types, Types', BackedInv, NEW o \in Order, RemoveCommit(o) PROVE BackedInv'
<1> DEFINE v == Cancel(WalletOf(o), o)
<1>0. /\ adding \in [Order -> AddPc] /\ doc \in [Order -> Doc] /\ AddedOK(o) /\ LockOK(o) /\ FoundOK(o)
      /\ removing \in [Order -> [pc : RemovePc, found : Doc]]
  BY DEF Types, RecordTypes, BackedInv
<1>1. /\ removing[o].pc = "taken" /\ doc[o] = removing[o].found /\ HasOp(WalletOf(o), o)
      /\ doc' = [doc EXCEPT ![o].status = "none"]
      /\ removing' = [removing EXCEPT ![o].pc = "off"]
      /\ UNCHANGED <<asked, adding, order, market, pending, exec, boot, paid>>
  BY DEF RemoveCommit, memory, WalletOf
<1>2. doc[o].status = "ready" /\ adding[o] \in {"ready", "done"}
  BY <1>0, <1>1 DEF FoundOK, AddedOK, AddPc
<1>3. Places' = Places
  BY <1>1, PlacesKept
<1>4. Alters(wallet, wallet', UserOf[o], Owns(o), v)
  BY RemoveFunds
<1>5. /\ DOMAIN v.pending = DOMAIN WalletOf(o).pending \ {o}
      /\ \A x \in DOMAIN WalletOf(o).pending \ {o} : v.pending[x] = WalletOf(o).pending[x]
  <2> DEFINE w == WalletOf(o)
             c == Cancel(w, o)
  <2>1. w \in Wallets /\ HasOp(w, o)
    BY <1>1, LockedIs
  <2>2. /\ DOMAIN c.pending = DOMAIN w.pending \ {o}
        /\ \A x \in DOMAIN w.pending \ {o} : c.pending[x] = w.pending[x]
    <3> HIDE DEF w
    <3> QED
      BY <2>1, CancelGives
  <2> QED
    BY <2>2
<1> HIDE DEF v
<1>6. /\ \A p \in Order \ {o} : LockedFor(p)' = LockedFor(p)
      /\ LockedFor(o)' = IF HasOp(v, o) THEN -v.pending[o] ELSE 0
  <2>1. DOMAIN v.pending \ {o} = DOMAIN WalletOf(o).pending \ {o}
    BY <1>5
  <2> QED
    BY <1>1, <1>4, <1>5, <2>1, LockedOthers
<1>7. LockedFor(o)' = 0
  BY <1>5, <1>6 DEF HasOp
<1>8. /\ \A p \in Order \ {o} : doc'[p] = doc[p]
      /\ doc'[o].status = "none" /\ doc'[o].owning = doc[o].owning
  BY <1>0, <1>1 DEF Doc
<1>9. AddedOK(o)' /\ LockOK(o)'
  BY <1>0, <1>1, <1>2, <1>3, <1>7, <1>8 DEF AddedOK, LockOK, Open
<1>10. \A p \in Order : FoundOK(p)'
  <2>1. \A p \in Order : FoundOK(p)
    BY DEF BackedInv
  <2> QED
    BY <1>0, <1>1, <2>1 DEF FoundOK
<1> QED
  BY <1>1, <1>6, <1>8, <1>9, <1>10, OneBacked

-----------------------------------------------------------------------------
(* A match promises a part of an order, which leaves the order. *)

\* Pieces of the taker and of the first maker become a match, which takes from the
\* orders at least what it promises.
MatchesSome(a, b) ==
  /\ UNCHANGED <<database, adding, removing, pending, boot>>
  /\ {a.id, b.id} \subseteq {Maker, Taker}
  /\ exec'.pc = "loop" /\ exec'.taker = exec.taker /\ exec'.unsaved = exec.unsaved
  /\ exec'.matchs = Append(exec.matchs, <<a, b>>)
  /\ ToSet(exec.leftovers) \subseteq ToSet(exec'.leftovers)
  /\ ToSet(exec'.leftovers) \subseteq ToSet(exec.leftovers) \cup {Maker}
  /\ exec'.remaining = 0 => Whole(Taker) \in {a, b}
  /\ Whole(Maker) \in {a, b} \/ Maker \in ToSet(exec'.leftovers)
  /\ \A o \in Order :
       /\ order'[o].owning + MatchOwning(<<a, b>>, o) =< order[o].owning
       /\ order'[o].owning # order[o].owning => o \in exec.taker \cup ToSet(exec'.leftovers)

LEMMA MatchesBacked ==
  ASSUME Types, Types', BackedInv, Matching, TakeMaker, NEW a \in Piece, NEW b \in Piece, MatchesSome(a, b)
  PROVE  BackedInv'
<1> USE DEF MatchesSome
<1>0. /\ exec \in Exec /\ exec.matchs \in Seq(Piece \X Piece) /\ exec.pc = "loop"
      /\ exec.taker = {Taker} /\ Taker \in Order /\ Maker \in Order
  BY MatchingIs DEF Types, ExecTypes, Exec, Matching
<1>1. asked' = asked /\ wallet' = wallet /\ doc' = doc /\ paid' = paid
  BY DEF database
<1>2. /\ Maker \in In(market) /\ In(market)' \subseteq In(market)
  BY TakeMakerGives
<1>3. /\ IdsIn(exec'.matchs) = IdsIn(exec.matchs) \cup {a.id, b.id}
      /\ MatchesIn(exec'.matchs) = MatchesIn(exec.matchs) \cup {<<a, b>>}
  <2> DEFINE s == exec.matchs
             t == exec'.matchs
  <2>1. s \in Seq(Piece \X Piece) /\ t = Append(s, <<a, b>>)
    BY <1>0
  <2> HIDE DEF s, t, MatchesSome
  <2>2. AddsMatch(s, t, a, b)
    BY <2>1, IdsAppend
  <2> QED
    BY <2>2 DEF s, t, AddsMatch
<1>4. Places' \subseteq Places
  BY <1>0, <1>2, <1>3 DEF Places
<1>5. LoopOK'
  <2>1. exec'.unsaved = {}
    BY <1>0 DEF BackedInv, LoopOK
  <2>2. exec'.remaining = 0 => Taker \in WholesMatched'
    <3> SUFFICES ASSUME exec'.remaining = 0 PROVE Taker \in WholesMatched'
      OBVIOUS
    <3>1. Whole(Taker) \in {a, b}
      OBVIOUS
    <3>2. PICK i \in DOMAIN exec'.matchs : exec'.matchs[i] = <<a, b>>
      <4> HIDE DEF MatchesSome
      <4> QED
        BY <1>3 DEF MatchesIn
    <3>3. Whole(Taker) \in Matched'
      BY <3>1, <3>2 DEF Matched
    <3> QED
      BY <3>3 DEF WholesMatched, Whole
  <2>3. Taker' = Taker
    BY DEF Taker
  <2> QED
    BY <2>1, <2>2, <2>3 DEF LoopOK
<1>6. \A o \in Order : FoundOK(o)'
  BY FoundKept
<1>7. \A o \in Order : LockedFor(o)' = LockedFor(o)
  BY <1>1, LockedSame
<1>8. ASSUME NEW o \in Order
      PROVE  /\ AddedOK(o)' /\ CleanOK(o)' /\ LockOK(o)'
  <2>0. /\ AddedOK(o) /\ CleanOK(o) /\ LockOK(o)
        /\ doc[o].owning \in Nat /\ order[o].owning \in Nat /\ LockedFor(o) \in Nat /\ Promised(o) \in Nat
    BY AmountsAre DEF BackedInv
  <2>1. order'[o].owning \in Nat
    BY DEF Types, OrderTypes, Memory
  <2>2. MatchOwning(<<a, b>>, o) \in Nat
    BY MatchOwningNat
  <2>3. Promised(o)' = Promised(o) + MatchOwning(<<a, b>>, o)
    <3> DEFINE s == exec.matchs
               t == exec'.matchs
               e == <<a, b>>
    <3>1. s \in Seq(Piece \X Piece) /\ t = Append(s, e) /\ e \in Piece \X Piece
      BY <1>0
    <3>2. Promised(o) = PromisedIn(s, o) /\ Promised(o)' = PromisedIn(t, o)
      BY DEF Promised
    <3> HIDE DEF s, t, e, MatchesSome
    <3>3. PromisedIn(t, o) = PromisedIn(s, o) + MatchOwning(e, o)
      BY <3>1, PromisedAppend
    <3> QED
      BY <3>2, <3>3 DEF e
  <2>4. order'[o].owning + MatchOwning(<<a, b>>, o) =< order[o].owning
    OBVIOUS
  <2>5. order'[o].owning # order[o].owning => o \in Places /\ Dirty(o)'
    BY <1>0, <1>2 DEF Places, Dirty
  <2>6. Dirty(o) => Dirty(o)'
    BY <1>0 DEF Dirty
  <2>7. AddedOK(o)'
    <3>1. CASE order'[o].owning = order[o].owning
      BY <1>1, <1>4, <1>7, <2>0, <3>1, AddedKept DEF Still
    <3>2. CASE order'[o].owning # order[o].owning
      <4>1. adding[o] = "done"
        BY <2>0, <2>5, <3>2 DEF AddedOK
      <4> QED
        BY <1>1, <1>4, <2>0, <4>1, AddedKept
    <3> QED
      BY <3>1, <3>2
  <2>8. CleanOK(o)'
    BY <1>1, <2>0, <2>5, <2>6 DEF CleanOK
  <2>9. LockOK(o)'
    <3> HIDE DEF MatchesSome
    <3> DEFINE n == MatchOwning(<<a, b>>, o)
    <3> HIDE DEF n
    <3>1. n \in Nat /\ Promised(o)' = Promised(o) + n /\ order'[o].owning + n =< order[o].owning
      BY <2>2, <2>3, <2>4 DEF n
    <3>2. Open(o)' <=> Open(o)
      BY <1>1 DEF Open
    <3>3. LockedFor(o)' = LockedFor(o)
      BY <1>7
    <3>4. Open(o) => order'[o].owning + Promised(o)' =< LockedFor(o)
      BY <2>0, <2>1, <3>1 DEF LockOK
    <3> QED
      BY <1>1, <2>0, <3>2, <3>3, <3>4 DEF LockOK
  <2> QED
    BY <2>7, <2>8, <2>9
<1> QED
  BY <1>5, <1>6, <1>8 DEF BackedInv

\* A split that throws leaves the maker out of the book.
MatchThrows == Fail /\ UNCHANGED <<database, adding, removing, pending, boot, order>>

MatchStep ==
  /\ Matching /\ TakeMaker
  /\ MatchThrows \/ \E a, b \in Piece : MatchesSome(a, b)

LEMMA FailsBacked ==
  ASSUME Types, Types', BackedInv, Matching, TakeMaker, MatchThrows
  PROVE  BackedInv'
<1> USE DEF MatchThrows
<1>0. exec \in Exec
  BY DEF Types, ExecTypes
<1>1. asked' = asked /\ wallet' = wallet /\ doc' = doc /\ paid' = paid
  BY DEF database
<1>2. /\ exec'.pc = "failed" /\ exec'.matchs = exec.matchs /\ exec'.taker = exec.taker
      /\ exec'.leftovers = exec.leftovers /\ exec'.unsaved = exec.unsaved
  BY <1>0 DEF Fail, Exec
<1>3. In(market)' \subseteq In(market)
  BY TakeMakerGives
<1>4. LoopOK' /\ Places' \subseteq Places
  BY <1>2, <1>3 DEF LoopOK, Places
<1>5. \A o \in Order : Still(o)
  BY <1>1, LockedSame DEF Still
<1>6. \A p \in Order : Promised(p)' =< Promised(p) /\ (Dirty(p) => Dirty(p)')
  BY <1>2, AmountsAre DEF Promised, Dirty
<1> QED
  BY <1>1, <1>4, <1>5, <1>6, FoundKept, FrameBacked

LEMMA PromisedOf ==
  /\ \A o, p : PartOwning(Whole(o), p) = 0
  /\ \A o, p, q : PartOwning(PartOf(o, q), p) = IF o = p THEN Truncate(q.owning) ELSE 0
<1>1. \A o, p : PartOwning(Whole(o), p) = 0
  BY DEF PartOwning, Whole
<1>2. ASSUME NEW o, NEW p, NEW q
      PROVE  PartOwning(PartOf(o, q), p) = IF o = p THEN Truncate(q.owning) ELSE 0
  <2>1. (CHOOSE r \in {q} : TRUE) = q
    OBVIOUS
  <2>2. PartOf(o, q).id = o /\ PartOf(o, q).part = {q} /\ {q} # {}
    BY DEF PartOf
  <2> QED
    BY <2>1, <2>2 DEF PartOwning
<1> QED
  BY <1>1, <1>2

LEMMA SplitTakerMatches == ASSUME Types, SplitTaker PROVE MatchStep
<1> DEFINE m == order[Maker]
           t == order[Taker]
           rest == Rest(t, m.requesting, m.owning)
           part == Part(t, m.requesting, m.owning)
           a == Whole(Maker)
           b == PartOf(Taker, part)
<1>0. OrderTypes /\ ExecTypes /\ exec \in Exec
  BY DEF Types, ExecTypes
<1>1. /\ Taker \in Order /\ Maker \in Order /\ Matching /\ TakeMaker /\ exec.taker = {Taker}
      /\ m \in Memory /\ t \in Memory /\ IsWhole(t.owning) /\ t.side = asked[Taker].side
      /\ exec.remaining \in Nat /\ exec.pc = "loop"
  BY <1>0, MatchingIs DEF SplitTaker, OrderTypes, Matching
<1>2. UNCHANGED <<database, adding, removing, pending, boot>>
  BY DEF SplitTaker
<1>3. m.requesting \in Nat /\ m.owning \in Nat /\ exec.remaining > m.requesting
  BY <1>1 DEF Memory, SplitTaker
<1>4. CASE CanSplit(t, m.requesting, m.owning, Price(m))
  <2>1. /\ order' = [order EXCEPT ![Taker] = rest]
        /\ exec' = [exec EXCEPT !.matchs = Append(exec.matchs, <<a, b>>),
                                !.remaining = exec.remaining - m.requesting]
    BY <1>4 DEF SplitTaker
  <2>2. /\ part \in Memory /\ part.side = t.side
        /\ rest.owning = t.owning - RoundUnit(m.requesting)
        /\ Truncate(m.requesting) =< RoundUnit(m.requesting) /\ RoundUnit(m.requesting) \in Nat
        /\ part.owning = m.requesting
    <3> HIDE DEF t
    <3> QED
      BY <1>1, <1>3, <1>4, SplitIs
  <2>3. t.owning \in Nat /\ Truncate(m.requesting) \in Nat
    BY <1>1, <1>3, TruncateIs DEF Memory, IsWhole
  <2>4. a \in Piece /\ b \in Piece
    <3> HIDE DEF part
    <3> QED
      BY <1>1, <2>2, PiecesAre
  <2>5. /\ a.id = Maker /\ b.id = Taker
    BY DEF Whole, PartOf
  <2>6. \A o \in Order : MatchOwning(<<a, b>>, o) = IF o = Taker THEN Truncate(m.requesting) ELSE 0
    <3> HIDE DEF part, m
    <3> TAKE o \in Order
    <3>1. PartOwning(a, o) = 0 /\ PartOwning(b, o) = IF o = Taker THEN Truncate(m.requesting) ELSE 0
      BY <2>2, PromisedOf
    <3> HIDE DEF a, b
    <3> QED
      BY <2>3, <3>1 DEF MatchOwning
  <2>12. Whole(Maker) \in {a, b}
    OBVIOUS
  <2>7. order \in [Order -> Memory] /\ \A o \in Order : order[o].owning \in Nat
    BY <1>0 DEF OrderTypes, Memory
  <2> HIDE DEF a, b, rest, part
  <2>8. \A o \in Order :
          /\ order'[o].owning + MatchOwning(<<a, b>>, o) =< order[o].owning
          /\ order'[o].owning # order[o].owning => o \in exec.taker
    <3> TAKE o \in Order
    <3>1. CASE o = Taker
      <4> DEFINE x == Truncate(m.requesting)
                 y == RoundUnit(m.requesting)
      <4>1. order'[o].owning = t.owning - y /\ MatchOwning(<<a, b>>, o) = x /\ order[o].owning = t.owning
        BY <2>1, <2>2, <2>6, <2>7, <3>1
      <4>2. x =< y /\ x \in Nat /\ y \in Nat
        BY <2>2, <2>3
      <4> HIDE DEF x, y
      <4> QED
        BY <1>1, <2>3, <3>1, <4>1, <4>2
    <3>2. CASE o # Taker
      BY <2>1, <2>6, <2>7, <3>2
    <3> QED
      BY <3>1, <3>2
  <2>9. /\ exec'.pc = "loop" /\ exec'.taker = exec.taker /\ exec'.unsaved = exec.unsaved
        /\ exec'.matchs = Append(exec.matchs, <<a, b>>) /\ exec'.leftovers = exec.leftovers
        /\ exec'.remaining = exec.remaining - m.requesting
    BY <1>0, <1>1, <2>1 DEF Exec
  <2>10. exec'.remaining # 0
    <3> HIDE DEF m
    <3> QED
      BY <1>1, <1>3, <2>9
  <2>11. MatchesSome(a, b)
    BY <1>2, <2>5, <2>8, <2>9, <2>10, <2>12 DEF MatchesSome
  <2> QED
    BY <1>1, <2>4, <2>11 DEF MatchStep
<1>5. CASE ~CanSplit(t, m.requesting, m.owning, Price(m))
  BY <1>1, <1>2, <1>5 DEF SplitTaker, MatchThrows, MatchStep
<1> QED
  BY <1>4, <1>5

LEMMA SplitMakerMatches == ASSUME Types, SplitMaker PROVE MatchStep
<1> DEFINE m == order[Maker]
           t == order[Taker]
           rest == Rest(m, t.requesting, t.owning)
           part == Part(m, t.requesting, t.owning)
           a == PartOf(Maker, part)
           b == Whole(Taker)
<1>0. OrderTypes /\ ExecTypes /\ exec \in Exec
  BY DEF Types, ExecTypes
<1>1. /\ Taker \in Order /\ Maker \in Order /\ Matching /\ TakeMaker /\ exec.taker = {Taker}
      /\ m \in Memory /\ t \in Memory /\ IsWhole(m.owning) /\ m.side = asked[Maker].side
      /\ exec.pc = "loop"
  BY <1>0, MatchingIs DEF SplitMaker, OrderTypes, Matching
<1>2. UNCHANGED <<database, adding, removing, pending, boot>>
  BY DEF SplitMaker
<1>3. t.requesting \in Nat /\ t.owning \in Nat
  BY <1>1 DEF Memory
<1>4. CASE CanSplit(m, t.requesting, t.owning, Price(m))
  <2>1. /\ order' = [order EXCEPT ![Maker] = rest]
        /\ exec' = [exec EXCEPT !.matchs = Append(exec.matchs, <<a, b>>),
                                !.leftovers = Append(exec.leftovers, Maker),
                                !.remaining = Max({0, exec.remaining - rest.requesting})]
    BY <1>4 DEF SplitMaker
  <2>2. /\ part \in Memory /\ part.side = m.side
        /\ rest.owning = m.owning - RoundUnit(t.requesting)
        /\ Truncate(t.requesting) =< RoundUnit(t.requesting) /\ RoundUnit(t.requesting) \in Nat
        /\ part.owning = t.requesting
    <3> HIDE DEF m
    <3> QED
      BY <1>1, <1>3, <1>4, SplitIs
  <2>3. m.owning \in Nat /\ Truncate(t.requesting) \in Nat
    BY <1>1, <1>3, TruncateIs DEF Memory, IsWhole
  <2>4. a \in Piece /\ b \in Piece
    <3> HIDE DEF part
    <3> QED
      BY <1>1, <2>2, PiecesAre
  <2>5. /\ a.id = Maker /\ b.id = Taker
    BY DEF Whole, PartOf
  <2>6. \A o \in Order : MatchOwning(<<a, b>>, o) = IF o = Maker THEN Truncate(t.requesting) ELSE 0
    <3> HIDE DEF part, t
    <3> TAKE o \in Order
    <3>1. PartOwning(b, o) = 0 /\ PartOwning(a, o) = IF o = Maker THEN Truncate(t.requesting) ELSE 0
      BY <2>2, PromisedOf
    <3> HIDE DEF a, b
    <3> QED
      BY <2>3, <3>1 DEF MatchOwning
  <2>7. order \in [Order -> Memory] /\ \A o \in Order : order[o].owning \in Nat
    BY <1>0 DEF OrderTypes, Memory
  <2>12. Whole(Taker) \in {a, b}
    OBVIOUS
  <2> HIDE DEF a, b, rest, part
  <2>8. \A o \in Order :
          /\ order'[o].owning + MatchOwning(<<a, b>>, o) =< order[o].owning
          /\ order'[o].owning # order[o].owning => o = Maker
    <3> TAKE o \in Order
    <3>1. CASE o = Maker
      <4> DEFINE x == Truncate(t.requesting)
                 y == RoundUnit(t.requesting)
      <4>1. order'[o].owning = m.owning - y /\ MatchOwning(<<a, b>>, o) = x /\ order[o].owning = m.owning
        BY <2>1, <2>2, <2>6, <2>7, <3>1
      <4>2. x =< y /\ x \in Nat /\ y \in Nat
        BY <2>2, <2>3
      <4> HIDE DEF x, y
      <4> QED
        BY <1>1, <2>3, <3>1, <4>1, <4>2
    <3>2. CASE o # Maker
      BY <2>1, <2>6, <2>7, <3>2
    <3> QED
      BY <3>1, <3>2
  <2>9. /\ exec'.pc = "loop" /\ exec'.taker = exec.taker /\ exec'.unsaved = exec.unsaved
        /\ exec'.matchs = Append(exec.matchs, <<a, b>>) /\ exec'.leftovers = Append(exec.leftovers, Maker)
    BY <1>0, <1>1, <2>1 DEF Exec
  <2>10. ToSet(exec'.leftovers) = ToSet(exec.leftovers) \cup {Maker}
    BY <1>0, <1>1, <2>9, AppendToSet DEF Exec
  <2>11. MatchesSome(a, b)
    BY <1>2, <2>5, <2>8, <2>9, <2>10, <2>12 DEF MatchesSome
  <2> QED
    BY <1>1, <2>4, <2>11 DEF MatchStep
<1>5. CASE ~CanSplit(m, t.requesting, t.owning, Price(m))
  BY <1>1, <1>2, <1>5 DEF SplitMaker, MatchThrows, MatchStep
<1> QED
  BY <1>4, <1>5

LEMMA MatchBothMatches == ASSUME Types, MatchBoth PROVE MatchStep
<1> DEFINE m == order[Maker]
           a == Whole(Maker)
           b == Whole(Taker)
<1>0. OrderTypes /\ ExecTypes /\ exec \in Exec
  BY DEF Types, ExecTypes
<1>1. Taker \in Order /\ Maker \in Order /\ Matching /\ TakeMaker /\ exec.pc = "loop"
  BY <1>0, MatchingIs DEF MatchBoth, Matching
<1>2. UNCHANGED <<database, adding, removing, pending, boot>>
  BY DEF MatchBoth
<1>3. /\ order' = [order EXCEPT ![Taker].requesting = m.owning]
      /\ exec' = [exec EXCEPT !.matchs = Append(exec.matchs, <<a, b>>),
                              !.remaining = Max({0, exec.remaining - m.requesting})]
  BY DEF MatchBoth
<1>4. a \in Piece /\ b \in Piece
  BY <1>1, PiecesAre
<1>5. a.id = Maker /\ b.id = Taker /\ Whole(Taker) \in {a, b} /\ Whole(Maker) \in {a, b}
  BY DEF Whole
<1>6. \A o \in Order : MatchOwning(<<a, b>>, o) = 0
  <2> TAKE o \in Order
  <2>1. PartOwning(a, o) = 0 /\ PartOwning(b, o) = 0
    BY PromisedOf
  <2> HIDE DEF a, b
  <2> QED
    BY <2>1 DEF MatchOwning
<1>7. \A o \in Order : order'[o].owning = order[o].owning /\ order[o].owning \in Nat
  BY <1>0, <1>1, <1>3 DEF OrderTypes, Memory
<1> HIDE DEF a, b, m
<1>8. /\ exec'.pc = "loop" /\ exec'.taker = exec.taker /\ exec'.unsaved = exec.unsaved
      /\ exec'.matchs = Append(exec.matchs, <<a, b>>) /\ exec'.leftovers = exec.leftovers
  BY <1>0, <1>1, <1>3 DEF Exec
<1>9. MatchesSome(a, b)
  BY <1>2, <1>5, <1>6, <1>7, <1>8 DEF MatchesSome
<1> QED
  BY <1>1, <1>4, <1>9 DEF MatchStep

LEMMA MatchStepIs == ASSUME Types, SplitTaker \/ SplitMaker \/ MatchBoth PROVE MatchStep
BY SplitTakerMatches, SplitMakerMatches, MatchBothMatches

LEMMA MatchStepBacked ==
  ASSUME Types, Types', BackedInv, SplitTaker \/ SplitMaker \/ MatchBoth
  PROVE  BackedInv'
BY MatchStepIs, MatchesBacked, FailsBacked DEF MatchStep

LEMMA SaveOrderBacked == ASSUME Types, Types', BackedInv, NEW o \in Order, SaveOrder(o) PROVE BackedInv'
<1>0. /\ OrderTypes /\ ExecTypes /\ exec \in Exec /\ doc \in [Order -> Doc] /\ LoopOK
      /\ AddedOK(o) /\ LockOK(o)
  BY DEF Types, ExecTypes, RecordTypes, BackedInv
<1>1. /\ asked' = asked /\ wallet' = wallet /\ paid' = paid /\ adding' = adding /\ removing' = removing
      /\ market' = market /\ pending' = pending /\ boot' = boot
      /\ o \in exec.unsaved /\ order' = [order EXCEPT ![o] = Truncated(order[o])]
  BY DEF SaveOrder
<1>2. /\ \A p \in Order : p # o => order'[p] = order[p]
      /\ order'[o].owning = order[o].owning /\ order'[o].owning = Truncate(order[o].owning)
  <2> DEFINE m == order[o]
  <2>1. m \in Memory /\ IsWhole(m.owning)
    BY <1>0 DEF OrderTypes
  <2> HIDE DEF m
  <2>2. Truncated(m).owning = m.owning /\ Truncate(m.owning) = m.owning
    BY <2>1 DEF Truncated, Memory, IsWhole
  <2>3. order'[o] = Truncated(m)
    BY <1>0, <1>1 DEF OrderTypes, m
  <2> QED
    BY <1>0, <1>1, <2>2, <2>3 DEF OrderTypes, m
<1>3. \A p \in Order : order'[p].owning = order[p].owning
  BY <1>2
<1>4. /\ exec'.matchs = exec.matchs /\ exec'.taker = exec.taker /\ exec'.leftovers = exec.leftovers
      /\ exec'.unsaved = exec.unsaved \ {o} /\ exec'.pc \in {exec.pc, "failed"}
  BY <1>0 DEF SaveOrder, Exec
<1>5. exec.pc \notin {"idle", "loop"} /\ LoopOK'
  BY <1>0, <1>1, <1>4 DEF LoopOK
<1>6. Places' \subseteq Places /\ o \in Places
  BY <1>1, <1>4 DEF Places, In
<1>7. /\ \A p \in Order : LockedFor(p)' = LockedFor(p) /\ Promised(p)' = Promised(p) /\ FoundOK(p)'
  BY <1>1, <1>4, LockedSame, FoundKept DEF Promised
<1>8. \A p \in Order : p # o => doc'[p] = doc[p]
  BY <1>0 DEF SaveOrder
<1>9. ASSUME NEW p \in Order, p # o PROVE AddedOK(p)' /\ CleanOK(p)' /\ LockOK(p)'
  <2>1. AddedOK(p) /\ CleanOK(p) /\ LockOK(p) /\ Still(p)
    BY <1>3, <1>7, <1>8, <1>9 DEF BackedInv, Still
  <2>2. Dirty(p) => Dirty(p)'
    BY <1>4, <1>5, <1>9 DEF Dirty
  <2>3. CleanOK(p)'
    BY <2>1, <2>2 DEF CleanOK, Still
  <2>4. AddedOK(p)'
    BY <1>1, <1>6, <2>1, AddedKept
  <2>5. Promised(p)' =< Promised(p) /\ paid'[p] >= paid[p]
    BY <1>1, <1>7, AmountsAre
  <2> QED
    BY <1>1, <2>1, <2>3, <2>4, <2>5, LockKept
<1>10. CASE doc' = doc /\ exec'.pc = "failed"
  <2>1. CleanOK(o) /\ Still(o)
    BY <1>3, <1>7, <1>10 DEF BackedInv, Still
  <2>2. CleanOK(o)'
    BY <1>10, <2>1 DEF CleanOK, Dirty
  <2>3. AddedOK(o)'
    BY <1>0, <1>1, <1>6, <2>1, AddedKept
  <2>4. Promised(o)' =< Promised(o) /\ paid'[o] >= paid[o]
    BY <1>1, <1>7, AmountsAre
  <2>5. LockOK(o)'
    BY <1>0, <1>1, <2>1, <2>4, LockKept
  <2> QED
    BY <1>5, <1>7, <1>9, <2>2, <2>3, <2>5 DEF BackedInv
<1>11. CASE /\ Valid(o) /\ doc[o].status # "none"
            /\ doc' = [doc EXCEPT ![o] = Stored(SavedStatus(o), order'[o])]
  <2>1. doc'[o].status \in {"ready", "matched"} /\ doc'[o].owning = order'[o].owning
    BY <1>0, <1>11 DEF Stored, SavedStatus
  <2>2. adding[o] = "done" /\ Open(o)
    BY <1>0, <1>6, <1>11, AmountsAre DEF AddedOK, Open, Status
  <2>3. doc'[o].owning > 0 /\ CleanOK(o)'
    BY <1>2, <1>11, <2>1 DEF Valid, CleanOK
  <2>4. AddedOK(o)'
    BY <1>0, <1>1, <1>6, <2>1, <2>2, AddedKept
  <2>5. LockOK(o)'
    <3>1. LockedFor(o) >= order[o].owning + Promised(o) /\ LockedFor(o) >= order[o].owning
      BY <1>0, <2>2, AmountsAre DEF LockOK
    <3> QED
      BY <1>3, <1>7, <2>1, <3>1 DEF LockOK
  <2> QED
    BY <1>5, <1>7, <1>9, <2>3, <2>4, <2>5 DEF BackedInv
<1> QED
  BY <1>0, <1>10, <1>11 DEF SaveOrder, Exec

LEMMA NoPlaces ==
  ASSUME market = NoMarket, pending = <<>>, exec = NoExec
  PROVE  Places = ToSet(boot) /\ LoopOK /\ \A o \in Order : Promised(o) = 0 /\ ~Dirty(o)
<1>1. In(market) = {}
  BY DEF In, NoMarket
<1>2. /\ exec.pc = "idle" /\ exec.taker = {} /\ exec.leftovers = <<>> /\ exec.unsaved = {}
      /\ exec.matchs = <<>>
  BY DEF NoExec
<1>3. ToSet(exec.leftovers) = {} /\ ToSet(pending) = {} /\ IdsIn(exec.matchs) = {}
  BY <1>2, EmptyToSet DEF IdsIn
<1>4. exec.matchs \in Seq(Piece \X Piece)
  BY <1>2
<1>5. \A o \in Order : Promised(o) = 0
  BY <1>3, <1>4, PromisedNone DEF Promised
<1> QED
  BY <1>1, <1>2, <1>3, <1>5 DEF Places, LoopOK, Dirty

LEMMA InitBacked == Init => BackedInv
<1> SUFFICES ASSUME Init PROVE BackedInv
  OBVIOUS
<1>1. Types
  BY InitTypes
<1>2. Places = {} /\ LoopOK /\ \A o \in Order : Promised(o) = 0 /\ ~Dirty(o)
  BY NoPlaces, EmptyToSet DEF Init
<1>3. ASSUME NEW o \in Order PROVE AddedOK(o) /\ FoundOK(o) /\ CleanOK(o) /\ LockOK(o)
  <2>1. asked[o].owning \in Nat \ {0}
    BY <1>1, AmountsAre
  <2>2. /\ doc[o].status = "none" /\ doc[o].owning = asked[o].owning
        /\ order[o].owning = asked[o].owning /\ adding[o] = "off" /\ removing[o].pc = "off"
    BY DEF Init, Stored
  <2>3. LockedFor(o) = 0
    <3>1. wallet[UserOf[o]][Owns(o)] = NewWallet(Funds)
      BY <1>1, OwnsIs DEF Init, Types
    <3>2. ~HasOp(NewWallet(Funds), o)
      BY DEF NewWallet, HasOp
    <3> QED
      BY <3>1, <3>2 DEF LockedFor
  <2> QED
    BY <1>2, <2>1, <2>2, <2>3 DEF AddedOK, FoundOK, CleanOK, LockOK, Open
<1> QED
  BY <1>2, <1>3 DEF BackedInv

LEMMA RestartBacked == ASSUME Types, Types', BackedInv, Restart PROVE BackedInv'
<1>1. /\ asked' = asked /\ wallet' = wallet /\ paid' = paid /\ doc' = doc
      /\ adding' = [o \in Order |-> IF adding[o] = "off" THEN "off" ELSE "done"]
      /\ removing' = [o \in Order |-> [pc |-> "off", found |-> doc[o]]]
      /\ order' = [o \in Order |-> InMemory(doc[o])]
      /\ market' = NoMarket /\ pending' = <<>> /\ exec' = NoExec /\ boot' = Bootstrapped
  BY DEF Restart, database
<1>2. ToSet(Bootstrapped) = {o \in ToSet(born) : doc[o].status = "ready"}
  BY BootstrappedGives DEF Types
<1>3. Places' = ToSet(Bootstrapped) /\ LoopOK' /\ \A o \in Order : Promised(o)' = 0 /\ ~Dirty(o)'
  <2>1. In(market') = {}
    BY <1>1 DEF In, NoMarket
  <2>2. /\ exec'.pc = "idle" /\ exec'.taker = {} /\ exec'.leftovers = <<>> /\ exec'.unsaved = {}
        /\ exec'.matchs = <<>>
    BY <1>1 DEF NoExec
  <2>3. ToSet(exec'.leftovers) = {} /\ ToSet(pending') = {} /\ IdsIn(exec'.matchs) = {}
    BY <1>1, <2>2, EmptyToSet DEF IdsIn
  <2>4. exec'.matchs \in Seq(Piece \X Piece)
    BY <2>2
  <2>5. \A o \in Order : Promised(o)' = 0
    BY <2>3, <2>4, PromisedNone DEF Promised
  <2> QED
    BY <1>1, <2>1, <2>2, <2>3, <2>5 DEF Places, LoopOK, Dirty, In
<1>4. ASSUME NEW o \in Order PROVE AddedOK(o)' /\ FoundOK(o)' /\ CleanOK(o)' /\ LockOK(o)'
  <2>1. AddedOK(o) /\ CleanOK(o) /\ LockOK(o)
    BY DEF BackedInv
  <2>2. /\ order'[o].owning = doc[o].owning /\ removing'[o].pc = "off"
        /\ adding'[o] = IF adding[o] = "off" THEN "off" ELSE "done"
        /\ LockedFor(o)' = LockedFor(o) /\ doc[o].owning \in Nat
    BY <1>1, LockedSame, AmountsAre DEF InMemory
  <2>3. AddedOK(o)'
    BY <1>1, <1>2, <1>3, <2>1, <2>2 DEF AddedOK
  <2>4. FoundOK(o)' /\ CleanOK(o)'
    BY <1>1, <2>1, <2>2 DEF FoundOK, CleanOK
  <2>5. LockOK(o)'
    <3>1. Open(o)' <=> Open(o)
      BY <1>1 DEF Open
    <3> QED
      BY <1>1, <1>3, <2>1, <2>2, <3>1 DEF LockOK
  <2> QED
    BY <2>3, <2>4, <2>5
<1> QED
  BY <1>3, <1>4 DEF BackedInv

-----------------------------------------------------------------------------
(* A trade takes from the operation of each of the two what it gives. *)

LockedIn(w, o) ==
  IF HasOp(w[UserOf[o]][Owns(o)], o) THEN -w[UserOf[o]][Owns(o)].pending[o] ELSE 0

LEMMA SettleLocked ==
  ASSUME RecordTypes, NEW w \in [Person -> [Currency -> Wallets]], NEW x, NEW m, m.id \in Order,
         NEW n \in Nat \ {0}, NEW r, Settles(w, x, m, n, r),
         CanComplete(w[UserOf[m.id]][Owns(m.id)], m.id, n),
         NEW o \in Order
  PROVE  LockedIn(x, o) = IF o = m.id THEN LockedIn(w, o) - n ELSE LockedIn(w, o)
<1> DEFINE u == UserOf[m.id]
           c == Owns(m.id)
           s == w[u][c]
           v == x[u][c]
           a == w[UserOf[o]][Owns(o)]
           b == x[UserOf[o]][Owns(o)]
<1>1. u \in Person /\ c \in Currency /\ UserOf[o] \in Person /\ Owns(o) \in Currency
  BY OwnsIs
<1>2. s \in Wallets /\ a \in Wallets
  BY <1>1
<1>3. Completes(s, v, m.id, n)
  <2> DEFINE i == m.id
  <2>1. v = Complete(s, i, n) /\ CanComplete(s, i, n)
    BY DEF Settles
  <2> HIDE DEF s, v, i
  <2>2. Completes(s, Complete(s, i, n), i, n)
    BY <1>2, <2>1, CompleteGives
  <2> QED
    BY <2>1, <2>2 DEF i
<1>4. HasOp(s, m.id)
  BY DEF CanComplete
<1>5. CASE UserOf[o] = u /\ Owns(o) = c
  <2>1. a = s /\ b = v
    BY <1>5
  <2>2. LockedIn(w, o) = (IF HasOp(s, o) THEN -s.pending[o] ELSE 0)
        /\ LockedIn(x, o) = (IF HasOp(v, o) THEN -v.pending[o] ELSE 0)
    BY <2>1 DEF LockedIn
  <2>3. s.pending[m.id] \in Int
    BY <1>2, <1>4, WalletHas DEF HasOp
  <2> HIDE DEF s, v, a, b, u, c
  <2>4. CASE o = m.id
    <3>1. CASE -s.pending[o] = n
      <4>1. ~HasOp(v, o)
        BY <1>3, <2>4, <3>1 DEF Completes, HasOp
      <4> QED
        BY <1>4, <2>2, <2>3, <2>4, <3>1, <4>1
    <3>2. CASE -s.pending[o] # n
      <4>1. HasOp(v, o) /\ v.pending[o] = s.pending[o] + n
        BY <1>3, <1>4, <2>4, <3>2 DEF Completes, HasOp
      <4> QED
        BY <1>4, <2>2, <2>3, <2>4, <4>1
    <3> QED
      BY <3>1, <3>2
  <2>5. CASE o # m.id
    <3>1. /\ o \in DOMAIN v.pending <=> o \in DOMAIN s.pending
          /\ o \in DOMAIN s.pending => v.pending[o] = s.pending[o]
      BY <1>3, <2>5 DEF Completes
    <3> QED
      BY <2>2, <2>5, <3>1 DEF HasOp
  <2> QED
    BY <2>4, <2>5
<1>6. CASE ~(UserOf[o] = u /\ Owns(o) = c)
  <2>1. b.pending = a.pending
    BY <1>1, <1>6 DEF Settles
  <2>2. o # m.id
    BY <1>6
  <2>3. LockedIn(w, o) = (IF HasOp(a, o) THEN -a.pending[o] ELSE 0)
        /\ LockedIn(x, o) = (IF HasOp(b, o) THEN -b.pending[o] ELSE 0)
    BY DEF LockedIn
  <2> HIDE DEF a, b
  <2> QED
    BY <2>1, <2>2, <2>3 DEF HasOp
<1> QED
  BY <1>5, <1>6

LEMMA TradeLocked ==
  ASSUME Types, Trade, NEW w, Trades(exec.matchs[1][1], exec.matchs[1][2], w), NEW o \in Order
  PROVE  LockedFor(o)' = LockedFor(o)
                         - (IF o = exec.matchs[1][1].id THEN Traded(exec.matchs[1][1]).owning ELSE 0)
                         - (IF o = exec.matchs[1][2].id THEN Traded(exec.matchs[1][2]).owning ELSE 0)
<1> DEFINE maker == exec.matchs[1][1]
           taker == exec.matchs[1][2]
           n == Traded(maker).owning
           k == Traded(taker).owning
<1>1. RecordTypes /\ wallet \in [Person -> [Currency -> Wallets]] /\ asked' = asked
  BY DEF Types, PaidTypes, Trade
<1>2. LockedFor(o) = LockedIn(wallet, o) /\ LockedFor(o)' = LockedIn(wallet', o)
  BY <1>1 DEF LockedFor, LockedIn, Owns
<1>3. Trades(maker, taker, w)
  OBVIOUS
<1> HIDE DEF maker, taker
<1>4. /\ maker.id \in Order /\ taker.id \in Order /\ maker.id # taker.id
      /\ n \in Nat \ {0} /\ k \in Nat \ {0}
      /\ w \in [Person -> [Currency -> Wallets]]
  BY <1>3 DEF Trades, Settles, Piece
<1>5. LockedIn(w, o) = IF o = maker.id THEN LockedIn(wallet, o) - n ELSE LockedIn(wallet, o)
  <2> DEFINE r == Traded(maker).requesting
             x == wallet
  <2>1. /\ Settles(x, w, maker, n, r) /\ CanComplete(x[UserOf[maker.id]][Owns(maker.id)], maker.id, n)
        /\ x \in [Person -> [Currency -> Wallets]]
    BY <1>1, <1>3 DEF Trades
  <2> HIDE DEF r, n, x
  <2> QED
    BY <1>1, <1>4, <2>1, SettleLocked DEF x
<1>6. LockedIn(wallet', o) = IF o = taker.id THEN LockedIn(w, o) - k ELSE LockedIn(w, o)
  <2> DEFINE r == Traded(taker).requesting
             x == wallet'
  <2>1. Settles(w, x, taker, k, r) /\ CanComplete(w[UserOf[taker.id]][Owns(taker.id)], taker.id, k)
    BY <1>3 DEF Trades
  <2> HIDE DEF r, k, x
  <2> QED
    BY <1>1, <1>4, <2>1, SettleLocked DEF x
<1>7. LockedFor(o) \in Nat
  BY LockedIs
<1> HIDE DEF n, k
<1>8. LockedFor(o)' = LockedFor(o) - (IF o = maker.id THEN n ELSE 0) - (IF o = taker.id THEN k ELSE 0)
  BY <1>2, <1>4, <1>5, <1>6, <1>7
<1> QED
  BY <1>8 DEF n, k, maker, taker

\* What the pieces of a trade amount to was promised, or is all of the order.
LEMMA PieceOwning ==
  ASSUME NEW m \in Piece, m.part # {}
  PROVE  PartOwning(m, m.id) = Traded(m).owning
<1>1. PICK p \in Memory : m.part = {p}
  BY DEF Piece
<1>2. (CHOOSE q \in m.part : TRUE) = p
  BY <1>1
<1>3. Truncated(p).owning = Truncate(p.owning)
  BY DEF Truncated, Memory
<1> QED
  BY <1>1, <1>2, <1>3 DEF PartOwning, Traded, Amounts

LEMMA OthersOwning == ASSUME NEW m, NEW o, o # m.id PROVE PartOwning(m, o) = 0
BY DEF PartOwning

\* One side of a trade: its order is done, or what was promised of it is given.
SideTraded(m, o) ==
  /\ o = m.id /\ o \in Places
  /\ paid'[o] > 0
  /\ LockedFor(o)' = LockedFor(o) - Traded(m).owning
  /\ Promised(o) = PartOwning(m, o) + Promised(o)'
  /\ doc'[o].owning = doc[o].owning
  /\ IF m.part = {} THEN doc'[o].status = "none" ELSE doc'[o] = doc[o]

LEMMA SideBacked ==
  ASSUME Types, Types', BackedInv, NEW m \in Piece, NEW o \in Order, SideTraded(m, o),
         UNCHANGED <<asked, adding, order>>, Places' \subseteq Places, ~Dirty(o)
  PROVE  AddedOK(o)' /\ CleanOK(o)' /\ LockOK(o)'
<1>1. /\ AddedOK(o) /\ CleanOK(o) /\ LockOK(o) /\ doc[o].owning = order[o].owning
      /\ doc[o].owning > 0 /\ doc[o].owning \in Nat
  BY AmountsAre DEF BackedInv, CleanOK
<1>2. adding[o] = "done"
  BY <1>1 DEF AddedOK, SideTraded
<1>3. AddedOK(o)'
  BY <1>1, <1>2, AddedKept DEF SideTraded
<1>4. CleanOK(o)'
  BY <1>1 DEF CleanOK, SideTraded
<1>5. LockOK(o)'
  <2>1. CASE m.part = {}
    BY <2>1 DEF SideTraded, LockOK, Open
  <2>2. CASE m.part # {}
    <3> DEFINE n == Traded(m).owning
    <3>1. /\ LockedFor(o)' = LockedFor(o) - n /\ Promised(o) = n + Promised(o)' /\ doc'[o] = doc[o]
          /\ LockedFor(o) \in Nat /\ paid'[o] > 0
      BY <2>2, PieceOwning, AmountsAre DEF SideTraded
    <3>2. Promised(o)' \in Nat /\ n \in Nat
      <4>1. exec'.matchs \in Seq(Piece \X Piece)
        BY ExecAfter
      <4>2. n \in Nat
        BY PieceIs DEF Types, IsWhole
      <4> QED
        BY <4>1, <4>2, PromisedNat DEF Promised
    <3> HIDE DEF n
    <3>3. Open(o)' <=> Open(o)
      BY <3>1 DEF Open
    <3>4. Open(o) => LockedFor(o) >= order[o].owning + Promised(o)
      BY <1>1 DEF LockOK
    <3>5. Open(o) => LockedFor(o)' >= order[o].owning + Promised(o)'
      BY <1>1, <3>1, <3>2, <3>4
    <3>6. Open(o) => LockedFor(o)' >= doc[o].owning
      BY <1>1, <3>1, <3>2, <3>5
    <3> QED
      BY <3>1, <3>3, <3>5, <3>6 DEF LockOK
  <2> QED
    BY <2>1, <2>2
<1> QED
  BY <1>3, <1>4, <1>5

LEMMA TradeBacked == ASSUME Types, Types', BackedInv, Trade PROVE BackedInv'
<1> DEFINE maker == exec.matchs[1][1]
           taker == exec.matchs[1][2]
           n == Traded(maker).owning
           k == Traded(taker).owning
<1>0. /\ ExecTypes /\ exec \in Exec /\ exec.matchs \in Seq(Piece \X Piece) /\ exec.matchs # <<>>
      /\ exec.pc = "trading" /\ exec.unsaved = {} /\ doc \in [Order -> Doc] /\ paid \in [Order -> Nat]
  BY DEF Types, ExecTypes, Exec, RecordTypes, PaidTypes, Trade, Trading
<1>1. /\ exec' = [exec EXCEPT !.matchs = Tail(exec.matchs)]
      /\ UNCHANGED <<asked, adding, removing, order, market, pending, boot>>
      /\ doc' = [o \in Order |-> IF o \in {m.id : m \in {e \in {maker, taker} : e.part = {}}}
                                 THEN [doc[o] EXCEPT !.status = "none"] ELSE doc[o]]
      /\ paid' = [paid EXCEPT ![maker.id] = @ + n, ![taker.id] = @ + k]
  BY DEF Trade
<1>2. PICK w : Trades(maker, taker, w)
  BY TradeFunds
<1>3. \A o \in Order : LockedFor(o)' = LockedFor(o) - (IF o = maker.id THEN n ELSE 0)
                                                    - (IF o = taker.id THEN k ELSE 0)
  BY <1>2, TradeLocked
<1>4. /\ exec'.pc = "trading" /\ exec'.taker = exec.taker /\ exec'.leftovers = exec.leftovers
      /\ exec'.unsaved = {} /\ exec'.matchs = Tail(exec.matchs)
  BY <1>0, <1>1 DEF Exec
<1>5. IdsIn(Tail(exec.matchs)) \subseteq IdsIn(exec.matchs)
      /\ maker.id \in IdsIn(exec.matchs) /\ taker.id \in IdsIn(exec.matchs)
  BY <1>0, IdsTail
<1>6. Places' \subseteq Places /\ maker.id \in Places /\ taker.id \in Places
  BY <1>0, <1>1, <1>4, <1>5 DEF Places, In
<1>7. LoopOK' /\ (\A o : ~Dirty(o)) /\ \A o \in Order : FoundOK(o)'
  BY <1>0, <1>1, <1>4, FoundKept DEF LoopOK, Dirty
<1>8. \A o \in Order : Promised(o) = PartOwning(maker, o) + PartOwning(taker, o) + Promised(o)'
  <2> TAKE o \in Order
  <2>1. PromisedIn(exec.matchs, o) = MatchOwning(exec.matchs[1], o) + PromisedIn(Tail(exec.matchs), o)
    BY <1>0, PromisedTail
  <2> QED
    BY <1>4, <2>1 DEF Promised, MatchOwning
<1> HIDE DEF maker, taker
<1>9. /\ maker \in Piece /\ taker \in Piece /\ maker.id \in Order /\ taker.id \in Order
      /\ maker.id # taker.id /\ n \in Nat \ {0} /\ k \in Nat \ {0}
  BY <1>2 DEF Trades, Piece
<1>10. \A o \in Order : LockedFor(o) \in Nat /\ Promised(o)' \in Nat
       /\ PartOwning(maker, o) \in Nat /\ PartOwning(taker, o) \in Nat
  <2>1. exec'.matchs \in Seq(Piece \X Piece)
    BY <1>1, ExecAfter
  <2> QED
    BY <1>9, <2>1, AmountsAre, PromisedNat, PartOwningNat DEF Promised
<1> HIDE DEF n, k
<1>11. \A o \in Order : paid[o] \in Nat
               /\ paid'[o] = paid[o] + (IF o = maker.id THEN n ELSE 0) + (IF o = taker.id THEN k ELSE 0)
  BY <1>0, <1>1, <1>9
<1>12. /\ \A o \in Order : doc'[o].owning = doc[o].owning
       /\ \A o \in Order : o \notin {maker.id, taker.id} => doc'[o] = doc[o]
       /\ IF maker.part = {} THEN doc'[maker.id].status = "none" ELSE doc'[maker.id] = doc[maker.id]
       /\ IF taker.part = {} THEN doc'[taker.id].status = "none" ELSE doc'[taker.id] = doc[taker.id]
  BY <1>0, <1>1, <1>9 DEF Doc
<1>13. ASSUME NEW o \in Order PROVE AddedOK(o)' /\ CleanOK(o)' /\ LockOK(o)'
  <2>1. CASE o = maker.id
    <3>1. PartOwning(taker, o) = 0
      BY <1>9, <2>1, OthersOwning
    <3>2. SideTraded(maker, o)
      <4>1. Promised(o) = PartOwning(maker, o) + Promised(o)' /\ LockedFor(o)' = LockedFor(o) - n
            /\ paid'[o] > 0
        BY <1>3, <1>8, <1>9, <1>10, <1>11, <2>1, <3>1
      <4> QED
        BY <1>6, <1>12, <2>1, <4>1 DEF SideTraded, n
    <3> QED
      BY <1>1, <1>6, <1>7, <1>9, <3>2, SideBacked
  <2>2. CASE o = taker.id
    <3>1. PartOwning(maker, o) = 0
      BY <1>9, <2>2, OthersOwning
    <3>2. SideTraded(taker, o)
      <4>1. Promised(o) = PartOwning(taker, o) + Promised(o)' /\ LockedFor(o)' = LockedFor(o) - k
            /\ paid'[o] > 0
        BY <1>3, <1>8, <1>9, <1>10, <1>11, <2>2, <3>1
      <4> QED
        BY <1>6, <1>12, <2>2, <4>1 DEF SideTraded, k
    <3> QED
      BY <1>1, <1>6, <1>7, <1>9, <3>2, SideBacked
  <2>3. CASE o \notin {maker.id, taker.id}
    <3>1. PartOwning(maker, o) = 0 /\ PartOwning(taker, o) = 0
      BY <2>3, OthersOwning
    <3>2. Promised(o)' =< Promised(o) /\ LockedFor(o)' = LockedFor(o) /\ paid'[o] >= paid[o]
      BY <1>3, <1>8, <1>10, <1>11, <2>3, <3>1
    <3>3. AddedOK(o) /\ CleanOK(o) /\ LockOK(o) /\ Still(o)
      BY <1>1, <1>12, <2>3, <3>2 DEF BackedInv, Still
    <3>4. AddedOK(o)'
      BY <1>1, <1>6, <3>3, AddedKept
    <3>5. CleanOK(o)'
      BY <1>1, <1>7, <1>12, <3>3 DEF CleanOK
    <3>6. LockOK(o)'
      BY <1>1, <3>2, <3>3, LockKept
    <3> QED
      BY <3>4, <3>5, <3>6
  <2> QED
    BY <2>1, <2>2, <2>3
<1> QED
  BY <1>7, <1>13 DEF BackedInv

LEMMA StutterBacked == ASSUME BackedInv, UNCHANGED vars PROVE BackedInv'
<1>1. /\ UNCHANGED <<asked, wallet, doc, order, paid, adding, removing, exec>>
      /\ UNCHANGED <<market, pending, exec, boot>>
  BY DEF vars, database, memory
<1>2. /\ Places' = Places /\ (LoopOK' <=> LoopOK)
      /\ \A o : Promised(o)' = Promised(o) /\ (Dirty(o)' <=> Dirty(o)) /\ LockedFor(o)' = LockedFor(o)
  BY <1>1, PlacesKept, ExecKept, LockedSame
<1>3. \A o \in Order : (AddedOK(o)' <=> AddedOK(o)) /\ (FoundOK(o)' <=> FoundOK(o))
                       /\ (CleanOK(o)' <=> CleanOK(o)) /\ (LockOK(o)' <=> LockOK(o))
  BY <1>1, <1>2 DEF AddedOK, FoundOK, CleanOK, LockOK, Open
<1> QED
  BY <1>2, <1>3 DEF BackedInv

LEMMA NextBacked == Types /\ Types' /\ BackedInv /\ [Next]_vars => BackedInv'
<1> SUFFICES ASSUME Types, Types', BackedInv, [Next]_vars PROVE BackedInv'
  OBVIOUS
<1>1. CASE \E o \in Order : Prepare(o) \/ AddStep(o) \/ RemoveFind(o) \/ RemoveStep(o)
  <2>1. PICK o \in Order : Prepare(o) \/ AddStep(o) \/ RemoveFind(o) \/ RemoveStep(o)
    BY <1>1
  <2>2. CASE Prepare(o) \/ RemoveFind(o)
    BY <2>2, PrepareBacked, RemoveFindBacked
  <2>3. CASE AddStep(o)
    BY <2>3, LockBacked, SetReadyBacked, AddedBacked DEF AddStep
  <2>4. CASE RemoveStep(o)
    BY <2>4, RemoveFromBookBacked, RemoveCommitBacked, RemoveAbortsBacked DEF RemoveStep
  <2> QED
    BY <2>1, <2>2, <2>3, <2>4
<1>2. CASE Boot \/ NextPending \/ Restart
  BY <1>2, BootBacked, NextPendingBacked, RestartBacked
<1>3. CASE SplitTaker \/ SplitMaker \/ MatchBoth \/ EndLoop
  BY <1>3, MatchStepBacked, EndLoopBacked
<1>4. CASE \E o \in Order : SaveOrder(o)
  BY <1>4, SaveOrderBacked
<1>5. CASE Trade \/ TradeFails \/ EndExec
  BY <1>5, TradeBacked, TradeFailsBacked, EndExecBacked
<1>6. CASE UNCHANGED vars
  BY <1>6, StutterBacked
<1> QED
  BY <1>1, <1>2, <1>3, <1>4, <1>5, <1>6 DEF Next, ExecStep

\* Whatever the orders, the digits a split keeps and the faults, an order that is
\* ready has the funds it offers locked, and what is locked for an order without
\* document was split off an order that traded: no split, save, trade, removal or
\* crash takes from the operation of an order more than the order loses.
THEOREM MarketReadyIsBacked == Spec => []ReadyIsBacked
<1>1. Init => BackedInv
  BY InitBacked
<1>2. Types /\ Types' /\ BackedInv /\ [Next]_vars => BackedInv'
  BY NextBacked
<1>3. BackedInv => ReadyIsBacked
  BY DEF BackedInv, LockOK, Open, ReadyIsBacked
<1> QED
  BY <1>1, <1>2, <1>3, SpecTypes, PTL DEF Spec

-----------------------------------------------------------------------------
(* Where the market keeps an order that is ready. *)

Removed(o) == removing[o].pc \in {"taken", "lost"} \/ doc[o].status = "none"
Expected(o) == doc[o].status = "ready" /\ adding[o] = "done" /\ ~Removed(o)

\* What an execution will put in the book again, or save as matched.
Executed ==
  (IF exec.pc = "loop" THEN exec.taker \cup ToSet(exec.leftovers) \cup WholesMatched ELSE {})
  \cup (IF exec.pc = "trading" THEN exec.unsaved ELSE {})

Waiting == ToSet(pending) \cup ToSet(boot)
Covered == In(market) \cup Waiting \cup Executed

BornOK == \A o \in Order : adding[o] # "off" => o \in ToSet(born)
CoveredOK == exec.pc # "failed" => \A o \in Order : Expected(o) => o \in Covered
UnsavedOK == exec.pc = "trading" => \A o \in exec.unsaved : o \in WholesMatched \cup In(market) \/ Removed(o)

TradableInv == BornOK /\ CoveredOK /\ UnsavedOK

LEMMA WholesKept == ASSUME exec'.matchs = exec.matchs PROVE WholesMatched' = WholesMatched
BY DEF WholesMatched, Matched

LEMMA MemoryKept ==
  ASSUME UNCHANGED <<market, pending, exec, boot>>
  PROVE  In(market)' = In(market) /\ Covered' = Covered /\ WholesMatched' = WholesMatched
<1>1. WholesMatched' = WholesMatched
  BY WholesKept
<1> QED
  BY <1>1 DEF In, Covered, Waiting, Executed

\* A step of add or remove that leaves the memory of the market as it is.
LEMMA CallTradable ==
  ASSUME TradableInv, UNCHANGED <<market, pending, exec, boot>>, BornOK',
         \A o \in Order : Expected(o)' => Expected(o),
         \A o \in exec.unsaved : Removed(o) => Removed(o)'
  PROVE  TradableInv'
<1>1. In(market)' = In(market) /\ Covered' = Covered /\ WholesMatched' = WholesMatched
  BY MemoryKept
<1>2. CoveredOK'
  BY <1>1 DEF TradableInv, CoveredOK
<1>3. UnsavedOK'
  BY <1>1 DEF TradableInv, UnsavedOK
<1> QED
  BY <1>2, <1>3 DEF TradableInv

LEMMA BornKept == ASSUME BornOK, UNCHANGED <<adding, born>> PROVE BornOK'
BY DEF BornOK

LEMMA PrepareTradable ==
  ASSUME Types, BackedInv, TradableInv, NEW o \in Order, Prepare(o)
  PROVE  TradableInv'
<1>0. doc \in [Order -> Doc] /\ adding \in [Order -> AddPc] /\ born \in Seq(Order)
  BY DEF Types, RecordTypes
<1>1. /\ adding[o] = "off" /\ adding' = [adding EXCEPT ![o] = "preparing"]
      /\ doc' = [doc EXCEPT ![o].status = "preparing"] /\ born' = Append(born, o)
      /\ UNCHANGED <<removing, market, pending, exec, boot>>
  BY DEF Prepare, memory
<1>2. /\ doc'[o].status = "preparing" /\ adding'[o] = "preparing"
      /\ \A p \in Order : p # o => doc'[p] = doc[p] /\ adding'[p] = adding[p]
  BY <1>0, <1>1 DEF Doc
<1>3. BornOK'
  <2>1. ToSet(born') = ToSet(born) \cup {o}
    BY <1>0, <1>1, AppendToSet
  <2> QED
    BY <1>2, <2>1 DEF TradableInv, BornOK
<1>4. o \notin exec.unsaved
  BY <1>1 DEF BackedInv, AddedOK, Places
<1>5. \A p \in Order : p # o => (Removed(p)' <=> Removed(p)) /\ (Expected(p)' <=> Expected(p))
  BY <1>1, <1>2 DEF Removed, Expected
<1>6. ~Expected(o)'
  BY <1>2 DEF Expected
<1>7. exec.unsaved \subseteq Order
  BY DEF Types, ExecTypes, Exec
<1> QED
  BY <1>1, <1>3, <1>4, <1>5, <1>6, <1>7, CallTradable

LEMMA AddCallTradable ==
  ASSUME Types, BackedInv, TradableInv, NEW o \in Order, Lock(o) \/ SetReady(o)
  PROVE  TradableInv'
<1>0. doc \in [Order -> Doc] /\ adding \in [Order -> AddPc] /\ exec.unsaved \subseteq Order
  BY DEF Types, RecordTypes, ExecTypes, Exec
<1>1. /\ adding[o] \in {"preparing", "locked"} /\ born' = born
      /\ UNCHANGED <<removing, market, pending, exec, boot>>
  BY DEF Lock, SetReady, memory
<1>2. /\ adding'[o] \in {"locked", "done", "ready"}
      /\ adding'[o] = "done" => doc'[o].status = "none"
      /\ \A p \in Order : p # o => doc'[p] = doc[p] /\ adding'[p] = adding[p]
  BY <1>0 DEF Doc, Lock, SetReady
<1>3. BornOK'
  BY <1>1, <1>2 DEF TradableInv, BornOK
<1>4. o \notin exec.unsaved
  BY <1>1 DEF BackedInv, AddedOK, Places
<1>5. \A p \in Order : p # o => (Removed(p)' <=> Removed(p)) /\ (Expected(p)' <=> Expected(p))
  BY <1>1, <1>2 DEF Removed, Expected
<1>6. ~Expected(o)'
  BY <1>2 DEF Expected
<1> QED
  BY <1>0, <1>1, <1>3, <1>4, <1>5, <1>6, CallTradable

LEMMA RemoveCallTradable ==
  ASSUME Types, TradableInv, NEW o \in Order, RemoveFind(o) \/ RemoveCommit(o) \/ RemoveAborts(o)
  PROVE  TradableInv'
<1>0. /\ doc \in [Order -> Doc] /\ exec.unsaved \subseteq Order
      /\ removing \in [Order -> [pc : RemovePc, found : Doc]]
  BY DEF Types, RecordTypes, ExecTypes, Exec
<1>1. UNCHANGED <<adding, born, market, pending, exec, boot>>
  BY DEF RemoveFind, RemoveCommit, RemoveAborts, memory, database
<1>2. \A p \in Order : p # o => doc'[p] = doc[p] /\ removing'[p] = removing[p]
  BY <1>0 DEF RemoveFind, RemoveCommit, RemoveAborts, database
<1>3. \/ removing[o].pc = "off" /\ removing'[o].pc = "found" /\ doc'[o] = doc[o]
      \/ doc'[o].status = "none"
      \/ removing'[o].pc = "lost" /\ doc'[o] = doc[o]
  <2>1. CASE RemoveFind(o)
    BY <1>0, <2>1 DEF RemoveFind, database
  <2>2. CASE RemoveCommit(o)
    BY <1>0, <2>2 DEF RemoveCommit, Doc
  <2>3. CASE RemoveAborts(o)
    BY <1>0, <2>3 DEF RemoveAborts, database
  <2> QED
    BY <2>1, <2>2, <2>3
<1>4. \A p \in Order : p # o => (Removed(p)' <=> Removed(p)) /\ (Expected(p)' <=> Expected(p))
  BY <1>1, <1>2 DEF Removed, Expected
<1>5. (Removed(o) => Removed(o)') /\ (Expected(o)' => Expected(o))
  BY <1>1, <1>3 DEF Removed, Expected
<1>6. BornOK'
  BY <1>1, BornKept DEF TradableInv
<1> QED
  BY <1>0, <1>1, <1>4, <1>5, <1>6, CallTradable

LEMMA RemoveFromBookTradable ==
  ASSUME Types, TradableInv, NEW o \in Order, RemoveFromBook(o)
  PROVE  TradableInv'
<1>0. removing \in [Order -> [pc : RemovePc, found : Doc]] /\ exec.unsaved \subseteq Order
  BY DEF Types, RecordTypes, ExecTypes, Exec
<1>1. /\ UNCHANGED <<doc, adding, born, pending, exec, boot>> /\ removing[o].pc = "found"
  BY DEF RemoveFromBook, database
<1>2. /\ In(market) \subseteq In(market)' \cup {o}
      /\ market' = market \/ removing'[o].pc = "taken"
  BY RemoveFromBookGives
<1>3. \A p \in Order : p # o => removing'[p] = removing[p]
  BY <1>0 DEF RemoveFromBook
<1>4. \A p \in Order : p # o => (Removed(p)' <=> Removed(p)) /\ (Expected(p)' <=> Expected(p))
  BY <1>1, <1>3 DEF Removed, Expected
<1>5. BornOK' /\ WholesMatched' = WholesMatched
  BY <1>1, BornKept, WholesKept DEF TradableInv
<1>6. Waiting' = Waiting /\ Executed' = Executed
  BY <1>1, <1>5 DEF Waiting, Executed
<1>7. CASE market' = market
  <2>1. (Removed(o) => Removed(o)') /\ (Expected(o)' => Expected(o))
    BY <1>1 DEF Removed, Expected
  <2> QED
    BY <1>0, <1>1, <1>4, <1>5, <1>7, <2>1, CallTradable
<1>8. CASE removing'[o].pc = "taken"
  <2>1. Removed(o)' /\ ~Expected(o)'
    BY <1>8 DEF Removed, Expected
  <2>2. CoveredOK'
    BY <1>1, <1>2, <1>4, <1>6, <2>1 DEF TradableInv, CoveredOK, Covered
  <2>3. UnsavedOK'
    BY <1>0, <1>1, <1>2, <1>4, <1>5, <2>1 DEF TradableInv, UnsavedOK
  <2> QED
    BY <1>5, <2>2, <2>3 DEF TradableInv
<1> QED
  BY <1>2, <1>7, <1>8

LEMMA BeginCovers ==
  ASSUME Types, NEW o \in Order, Begin(o), exec.pc = "idle", asked' = asked
  PROVE  /\ In(market) \cup {o} \subseteq In(market)' \cup Executed'
         /\ exec'.pc \in {"idle", "loop"} /\ Executed = {}
<1>0. market \in MarketType
  BY DEF Types, BookTypes
<1>1. CASE Crosses(o)
  <2>1. market' = market /\ exec'.pc = "loop" /\ exec'.taker = {o}
    BY <1>1 DEF Begin, NoExec
  <2> QED
    BY <2>1 DEF Executed, In
<1>2. CASE ~Crosses(o)
  <2> DEFINE n == market'
             side == order[o].side
             price == Price(order[o])
  <2>1. n = PushMaker(market, o, side, price) /\ exec' = exec
    BY <1>2 DEF Begin
  <2>2. price \in Nat
    BY PriceIs DEF Types, OrderTypes
  <2> HIDE DEF n, side, price
  <2>3. In(n) = In(market) \cup {o}
    BY <1>0, <2>1, <2>2, PlaceGives, GetsIn
  <2>4. In(market)' = In(market) \cup {o}
    BY <2>3 DEF n, In
  <2> QED
    BY <2>1, <2>4 DEF Executed
<1> QED
  BY <1>1, <1>2 DEF Executed

LEMMA AddToMarketCovers ==
  ASSUME Types, NEW o \in Order, AddToMarket(o), asked' = asked
  PROVE  /\ In(market) \cup ToSet(pending) \cup Executed \cup {o}
              \subseteq In(market)' \cup ToSet(pending') \cup Executed'
         /\ \/ exec' = exec /\ In(market)' = In(market)
            \/ exec.pc = "idle" /\ exec'.pc \in {"idle", "loop"}
<1>1. CASE exec.pc = "idle"
  <2>1. Begin(o) /\ pending' = pending
    BY <1>1 DEF AddToMarket
  <2> QED
    BY <1>1, <2>1, BeginCovers
<1>2. CASE exec.pc # "idle"
  <2>1. pending' = Append(pending, o) /\ exec' = exec /\ market' = market
    BY <1>2 DEF AddToMarket
  <2>2. ToSet(pending') = ToSet(pending) \cup {o}
    BY <2>1, AppendToSet DEF Types, QueueTypes
  <2>3. In(market)' = In(market) /\ WholesMatched' = WholesMatched
    BY <2>1, WholesKept DEF In
  <2>4. Executed' = Executed
    BY <2>1, <2>3 DEF Executed
  <2> QED
    BY <2>1, <2>2, <2>3, <2>4
<1> QED
  BY <1>1, <1>2

\* A step that brings an order to the market: the ones it has stay there.
LEMMA ArrivalTradable ==
  ASSUME Types, TradableInv, BornOK', UNCHANGED <<doc, removing>>,
         Covered \subseteq Covered',
         \A o \in Order : Expected(o)' => Expected(o) \/ o \in Covered',
         \/ exec' = exec /\ In(market)' = In(market)
         \/ exec.pc = "idle" /\ exec'.pc \in {"idle", "loop"}
  PROVE  TradableInv'
<1>1. \A o : Removed(o)' <=> Removed(o)
  BY DEF Removed
<1>2. CoveredOK'
  BY DEF TradableInv, CoveredOK
<1>3. UnsavedOK'
  BY <1>1, WholesKept DEF TradableInv, UnsavedOK
<1> QED
  BY <1>2, <1>3 DEF TradableInv

LEMMA AddedTradable ==
  ASSUME Types, TradableInv, NEW o \in Order, Added(o)
  PROVE  TradableInv'
<1>1. /\ AddToMarket(o) /\ adding[o] = "ready" /\ adding' = [adding EXCEPT ![o] = "done"]
      /\ UNCHANGED <<asked, born, doc, removing, boot>> /\ adding \in [Order -> AddPc]
  BY DEF Added, database, Types, RecordTypes
<1>2. /\ In(market) \cup ToSet(pending) \cup Executed \cup {o}
           \subseteq In(market)' \cup ToSet(pending') \cup Executed'
      /\ \/ exec' = exec /\ In(market)' = In(market)
         \/ exec.pc = "idle" /\ exec'.pc \in {"idle", "loop"}
  BY <1>1, AddToMarketCovers
<1>3. Covered \subseteq Covered' /\ o \in Covered'
  BY <1>1, <1>2 DEF Covered, Waiting
<1>4. BornOK'
  BY <1>1 DEF TradableInv, BornOK
<1>5. \A p \in Order : p # o => (Expected(p)' <=> Expected(p))
  BY <1>1 DEF Expected, Removed
<1> QED
  BY <1>1, <1>2, <1>3, <1>4, <1>5, ArrivalTradable

LEMMA BootTradable == ASSUME Types, TradableInv, Boot PROVE TradableInv'
<1>1. /\ AddToMarket(Head(boot)) /\ boot' = Tail(boot) /\ boot # <<>>
      /\ UNCHANGED <<asked, born, adding, doc, removing>>
  BY DEF Boot, database
<1>2. Head(boot) \in Order /\ ToSet(boot) = {Head(boot)} \cup ToSet(boot')
  BY <1>1, TailToSet DEF Types, QueueTypes
<1>3. /\ In(market) \cup ToSet(pending) \cup Executed \cup {Head(boot)}
           \subseteq In(market)' \cup ToSet(pending') \cup Executed'
      /\ \/ exec' = exec /\ In(market)' = In(market)
         \/ exec.pc = "idle" /\ exec'.pc \in {"idle", "loop"}
  BY <1>1, <1>2, AddToMarketCovers
<1>4. Covered \subseteq Covered'
  BY <1>2, <1>3 DEF Covered, Waiting
<1>5. \A p \in Order : Expected(p)' <=> Expected(p)
  BY <1>1 DEF Expected, Removed
<1> QED
  BY <1>1, <1>3, <1>4, <1>5, BornKept, ArrivalTradable DEF TradableInv

LEMMA NextPendingTradable == ASSUME Types, TradableInv, NextPending PROVE TradableInv'
<1>1. /\ Begin(Head(pending)) /\ pending' = Tail(pending) /\ pending # <<>> /\ exec.pc = "idle"
      /\ UNCHANGED <<asked, born, adding, doc, removing, boot>>
  BY DEF NextPending, database
<1>2. Head(pending) \in Order /\ ToSet(pending) = {Head(pending)} \cup ToSet(pending')
  BY <1>1, TailToSet DEF Types, QueueTypes
<1>3. /\ In(market) \cup {Head(pending)} \subseteq In(market)' \cup Executed'
      /\ exec'.pc \in {"idle", "loop"} /\ Executed = {}
  BY <1>1, <1>2, BeginCovers
<1>4. Covered \subseteq Covered'
  BY <1>1, <1>2, <1>3 DEF Covered, Waiting
<1>5. \A p \in Order : Expected(p)' <=> Expected(p)
  BY <1>1 DEF Expected, Removed
<1> QED
  BY <1>1, <1>3, <1>4, <1>5, BornKept, ArrivalTradable DEF TradableInv

\* A match keeps its maker as matched or as a leftover.
LEMMA MatchesTradable ==
  ASSUME Types, TradableInv, Matching, TakeMaker, NEW a \in Piece, NEW b \in Piece, MatchesSome(a, b)
  PROVE  TradableInv'
<1>0. exec.matchs \in Seq(Piece \X Piece) /\ exec.pc = "loop"
  BY DEF Types, ExecTypes, Exec, Matching
<1>1. /\ UNCHANGED <<doc, adding, born, removing, pending, boot>>
      /\ exec'.pc = "loop" /\ exec'.taker = exec.taker
      /\ exec'.matchs = Append(exec.matchs, <<a, b>>)
      /\ ToSet(exec.leftovers) \subseteq ToSet(exec'.leftovers)
      /\ Whole(Maker) \in {a, b} \/ Maker \in ToSet(exec'.leftovers)
  BY DEF MatchesSome, database
<1>2. In(market) \subseteq In(market)' \cup {Maker}
  BY TakeMakerGives
<1>3. MatchesIn(exec'.matchs) = MatchesIn(exec.matchs) \cup {<<a, b>>}
  <2> DEFINE s == exec.matchs
             t == exec'.matchs
  <2>1. s \in Seq(Piece \X Piece) /\ t = Append(s, <<a, b>>)
    BY <1>0, <1>1
  <2> HIDE DEF s, t
  <2>2. AddsMatch(s, t, a, b)
    BY <2>1, IdsAppend
  <2> QED
    BY <2>2 DEF s, t, AddsMatch
<1>4. /\ Matched = UNION {{e[1], e[2]} : e \in MatchesIn(exec.matchs)}
      /\ Matched' = UNION {{e[1], e[2]} : e \in MatchesIn(exec'.matchs)}
  BY DEF Matched, MatchesIn
<1>5. Matched' = Matched \cup {a, b}
  <2> DEFINE S == MatchesIn(exec.matchs)
             T == MatchesIn(exec'.matchs)
             Two(e) == {e[1], e[2]}
  <2>1. /\ T = S \cup {<<a, b>>} /\ Two(<<a, b>>) = {a, b}
        /\ Matched = UNION {Two(e) : e \in S} /\ Matched' = UNION {Two(e) : e \in T}
    BY <1>3, <1>4
  <2> HIDE DEF S, T, Two
  <2> QED
    BY <2>1
<1>6. WholesMatched \subseteq WholesMatched' /\ (Whole(Maker) \in {a, b} => Maker \in WholesMatched')
  BY <1>5 DEF WholesMatched, Whole
<1>7. Executed \cup {Maker} \subseteq Executed'
  BY <1>0, <1>1, <1>6 DEF Executed
<1>8. Covered \subseteq Covered'
  BY <1>1, <1>2, <1>7 DEF Covered, Waiting
<1>9. \A p \in Order : Expected(p)' <=> Expected(p)
  BY <1>1 DEF Expected, Removed
<1>10. CoveredOK' /\ UnsavedOK'
  BY <1>0, <1>1, <1>8, <1>9 DEF TradableInv, CoveredOK, UnsavedOK
<1> QED
  BY <1>1, <1>10, BornKept DEF TradableInv

\* An execution that failed: nothing is said of the market until it starts again.
LEMMA FailedTradable ==
  ASSUME TradableInv, UNCHANGED <<adding, born>>, exec'.pc = "failed"
  PROVE  TradableInv'
<1>1. BornOK'
  BY BornKept DEF TradableInv
<1> QED
  BY <1>1 DEF TradableInv, CoveredOK, UnsavedOK

LEMMA MatchStepTradable ==
  ASSUME Types, TradableInv, SplitTaker \/ SplitMaker \/ MatchBoth
  PROVE  TradableInv'
<1>1. CASE MatchThrows
  <2>1. exec'.pc = "failed" /\ UNCHANGED <<adding, born>>
    BY <1>1 DEF MatchThrows, Fail, database, Types, ExecTypes, Exec
  <2> QED
    BY <2>1, FailedTradable
<1> QED
  BY <1>1, MatchStepIs, MatchesTradable DEF MatchStep

LEMMA EndLoopTradable == ASSUME Types, BackedInv, TradableInv, EndLoop PROVE TradableInv'
<1>0. OrderTypes /\ BookTypes /\ ExecTypes /\ exec.pc = "loop" /\ exec \in Exec /\ LoopOK
  BY DEF Types, EndLoop, ExecTypes, BackedInv
<1>1. UNCHANGED <<doc, adding, born, removing, pending, boot>>
  BY DEF EndLoop, database
<1>2. CASE exec'.pc = "failed"
  BY <1>1, <1>2, FailedTradable
<1>3. CASE exec'.pc # "failed"
  <2>1. /\ market' = Returned(Leftovers) /\ exec'.unsaved = WholesMatched \cup ToSet(Leftovers)
        /\ exec'.pc = "trading" /\ exec'.matchs = exec.matchs
    BY <1>0, <1>3 DEF EndLoop, Exec, Fail
  <2>2. /\ Leftovers \in Seq(Order)
        /\ ToSet(Leftovers) = ToSet(exec.leftovers) \cup (IF exec.remaining > 0 THEN {Taker} ELSE {})
    BY <1>0, LeftoversAre
  <2>3. In(market)' = In(market) \cup ToSet(Leftovers)
    <3>1. In(Returned(Leftovers)) = In(market) \cup ToSet(Leftovers)
      BY <1>0, <2>2, ReturnedGives
    <3> QED
      BY <2>1, <3>1 DEF In
  <2>4. exec.taker \subseteq WholesMatched \cup ToSet(Leftovers)
    <3>1. exec.taker = {Taker}
      BY <1>0 DEF ExecTypes, Taker
    <3>2. CASE exec.remaining > 0
      BY <2>2, <3>1, <3>2
    <3>3. CASE ~(exec.remaining > 0)
      BY <1>0, <3>1, <3>3 DEF LoopOK, Exec
    <3> QED
      BY <3>2, <3>3
  <2>5. Executed \subseteq Executed' /\ WholesMatched' = WholesMatched
    BY <1>0, <2>1, <2>2, <2>4, WholesKept DEF Executed
  <2>6. Covered \subseteq Covered'
    BY <1>1, <2>3, <2>5 DEF Covered, Waiting
  <2>7. \A p \in Order : Expected(p)' <=> Expected(p)
    BY <1>1 DEF Expected, Removed
  <2>8. CoveredOK'
    BY <1>0, <2>6, <2>7 DEF TradableInv, CoveredOK
  <2>9. UnsavedOK'
    BY <2>1, <2>3, <2>5 DEF UnsavedOK
  <2> QED
    BY <1>1, <2>8, <2>9, BornKept DEF TradableInv
<1> QED
  BY <1>2, <1>3

LEMMA SaveOrderTradable ==
  ASSUME Types, BackedInv, TradableInv, NEW o \in Order, SaveOrder(o)
  PROVE  TradableInv'
<1>0. exec \in Exec /\ doc \in [Order -> Doc] /\ LoopOK /\ exec.unsaved \subseteq Order
  BY DEF Types, ExecTypes, RecordTypes, BackedInv, Exec
<1>1. UNCHANGED <<adding, born, removing, market, pending, boot>> /\ o \in exec.unsaved
  BY DEF SaveOrder
<1>2. CASE exec'.pc = "failed"
  BY <1>1, <1>2, FailedTradable
<1>3. CASE exec'.pc # "failed"
  <2>1. /\ doc[o].status # "none" /\ exec'.unsaved = exec.unsaved \ {o}
        /\ exec'.pc = exec.pc /\ exec'.matchs = exec.matchs
        /\ doc' = [doc EXCEPT ![o] = Stored(SavedStatus(o), order'[o])]
    BY <1>0, <1>3 DEF SaveOrder, Exec
  <2>2. exec.pc = "trading"
    BY <1>0, <1>1, <1>3, <2>1 DEF LoopOK, Exec, ExecPc
  <2>3. /\ \A p \in Order : p # o => doc'[p] = doc[p]
        /\ doc'[o].status = SavedStatus(o)
    BY <1>0, <2>1 DEF Stored
  <2>4. \A p \in Order : p # o => (Removed(p)' <=> Removed(p)) /\ (Expected(p)' <=> Expected(p))
    BY <1>1, <2>3 DEF Expected, Removed
  <2>5. WholesMatched' = WholesMatched /\ In(market)' = In(market) /\ Waiting' = Waiting
    BY <1>1, <2>1, WholesKept DEF In, Waiting
  <2>6. Expected(o)' => o \in In(market)
    <3> SUFFICES ASSUME Expected(o)' PROVE o \in In(market)
      OBVIOUS
    <3>1. o \notin WholesMatched /\ ~Removed(o)
      BY <1>1, <2>1, <2>3 DEF Expected, Removed, SavedStatus
    <3> QED
      BY <1>1, <2>2, <3>1 DEF TradableInv, UnsavedOK
  <2>7. CoveredOK'
    BY <2>1, <2>2, <2>4, <2>5, <2>6 DEF TradableInv, CoveredOK, Covered, Executed
  <2>8. UnsavedOK'
    BY <1>0, <2>1, <2>2, <2>4, <2>5 DEF TradableInv, UnsavedOK
  <2> QED
    BY <1>1, <2>7, <2>8, BornKept DEF TradableInv
<1> QED
  BY <1>2, <1>3

LEMMA TradeTradable == ASSUME Types, TradableInv, Trade \/ EndExec PROVE TradableInv'
<1>0. /\ exec \in Exec /\ doc \in [Order -> Doc] /\ exec.pc = "trading" /\ exec.unsaved = {}
  BY DEF Types, ExecTypes, RecordTypes, Trade, Trading, EndExec
<1>1. /\ UNCHANGED <<adding, born, removing, market, pending, boot>>
      /\ exec'.unsaved = {} /\ exec'.pc \in {"trading", "idle"}
  <2>1. CASE Trade
    <3>1. exec' = [exec EXCEPT !.matchs = Tail(exec.matchs)]
      BY <2>1 DEF Trade
    <3>2. exec'.unsaved = {} /\ exec'.pc = "trading"
      BY <1>0, <3>1 DEF Exec
    <3> QED
      BY <2>1, <3>2 DEF Trade
  <2>2. CASE EndExec
    BY <2>2 DEF EndExec, NoExec, database
  <2> QED
    BY <2>1, <2>2
<1>2. \A p \in Order : doc'[p] = doc[p] \/ doc'[p].status = "none"
  <2>1. CASE Trade
    BY <1>0, <2>1 DEF Trade, Doc
  <2>2. CASE EndExec
    BY <2>2 DEF EndExec, database
  <2> QED
    BY <2>1, <2>2
<1>3. \A p \in Order : Expected(p)' => Expected(p)
  BY <1>1, <1>2 DEF Expected, Removed
<1>4. Covered' = Covered
  <2>1. Executed = {} /\ Executed' = {}
    BY <1>0, <1>1 DEF Executed
  <2>2. In(market)' = In(market) /\ Waiting' = Waiting
    BY <1>1 DEF In, Waiting
  <2> QED
    BY <2>1, <2>2 DEF Covered
<1>5. CoveredOK' /\ UnsavedOK'
  BY <1>0, <1>1, <1>3, <1>4 DEF TradableInv, CoveredOK, UnsavedOK
<1> QED
  BY <1>1, <1>5, BornKept DEF TradableInv

LEMMA TradeFailsTradable == ASSUME Types, TradableInv, TradeFails PROVE TradableInv'
<1>1. exec'.pc = "failed" /\ UNCHANGED <<adding, born>>
  BY DEF TradeFails, Fail, database, Types, ExecTypes, Exec
<1> QED
  BY <1>1, FailedTradable

LEMMA RestartTradable == ASSUME Types, BackedInv, TradableInv, Restart PROVE TradableInv'
<1>1. /\ adding' = [o \in Order |-> IF adding[o] = "off" THEN "off" ELSE "done"]
      /\ born' = born /\ doc' = doc /\ boot' = Bootstrapped /\ exec'.pc = "idle"
  BY DEF Restart, database, NoExec
<1>2. BornOK'
  BY <1>1 DEF TradableInv, BornOK
<1>3. ToSet(Bootstrapped) = {o \in ToSet(born) : doc[o].status = "ready"}
  BY BootstrappedGives DEF Types
<1>4. ASSUME NEW o \in Order, Expected(o)' PROVE o \in Covered'
  <2>1. doc[o].status = "ready" /\ adding[o] # "off"
    BY <1>1, <1>4 DEF Expected
  <2>2. o \in ToSet(boot')
    BY <1>1, <1>3, <2>1 DEF TradableInv, BornOK
  <2> QED
    BY <2>2 DEF Covered, Waiting
<1> QED
  BY <1>1, <1>2, <1>4 DEF TradableInv, CoveredOK, UnsavedOK

LEMMA StutterTradable == ASSUME TradableInv, UNCHANGED vars PROVE TradableInv'
<1>1. UNCHANGED <<doc, adding, removing, born>> /\ UNCHANGED <<market, pending, exec, boot>>
  BY DEF vars, database, memory
<1>2. \A o : (Removed(o)' <=> Removed(o)) /\ (Expected(o)' <=> Expected(o))
  BY <1>1 DEF Removed, Expected
<1> QED
  BY <1>1, <1>2, BornKept, CallTradable DEF TradableInv

LEMMA InitTradable == Init => TradableInv
<1> SUFFICES ASSUME Init PROVE TradableInv
  OBVIOUS
<1>1. /\ \A o \in Order : adding[o] = "off"
      /\ exec.pc = "idle"
  BY DEF Init, NoExec
<1> QED
  BY <1>1 DEF TradableInv, BornOK, CoveredOK, UnsavedOK, Expected

LEMMA NextTradable == Types /\ BackedInv /\ TradableInv /\ [Next]_vars => TradableInv'
<1> SUFFICES ASSUME Types, BackedInv, TradableInv, [Next]_vars PROVE TradableInv'
  OBVIOUS
<1>1. CASE \E o \in Order : Prepare(o) \/ AddStep(o) \/ RemoveFind(o) \/ RemoveStep(o)
  <2>1. PICK o \in Order : Prepare(o) \/ AddStep(o) \/ RemoveFind(o) \/ RemoveStep(o)
    BY <1>1
  <2>2. CASE Prepare(o) \/ RemoveFind(o)
    BY <2>2, PrepareTradable, RemoveCallTradable
  <2>3. CASE AddStep(o)
    BY <2>3, AddCallTradable, AddedTradable DEF AddStep
  <2>4. CASE RemoveStep(o)
    BY <2>4, RemoveFromBookTradable, RemoveCallTradable DEF RemoveStep
  <2> QED
    BY <2>1, <2>2, <2>3, <2>4
<1>2. CASE Boot \/ NextPending \/ Restart
  BY <1>2, BootTradable, NextPendingTradable, RestartTradable
<1>3. CASE SplitTaker \/ SplitMaker \/ MatchBoth \/ EndLoop
  BY <1>3, MatchStepTradable, EndLoopTradable
<1>4. CASE \E o \in Order : SaveOrder(o)
  BY <1>4, SaveOrderTradable
<1>5. CASE Trade \/ TradeFails \/ EndExec
  BY <1>5, TradeTradable, TradeFailsTradable
<1>6. CASE UNCHANGED vars
  BY <1>6, StutterTradable
<1> QED
  BY <1>1, <1>2, <1>3, <1>4, <1>5, <1>6 DEF Next, ExecStep

LEMMA CoveredIsTradable == Types /\ TradableInv => ReadyIsTradable
<1> SUFFICES ASSUME Types, TradableInv, exec.pc # "failed", NEW o \in Order, doc[o].status = "ready",
                    adding[o] = "done", removing[o].pc \in {"off", "found"}
             PROVE  o \in InBook \cup ToSet(pending) \cup ToSet(boot) \cup InExec
  BY DEF ReadyIsTradable
<1>1. In(market) = InBook
  BY DEF In, InBook
<1>2. o \in Covered
  BY DEF TradableInv, CoveredOK, Expected, Removed
<1>3. WholesMatched \subseteq {m.id : m \in Matched}
  BY DEF WholesMatched
<1>4. Executed \subseteq InExec
  BY <1>3 DEF Executed, InExec
<1> QED
  BY <1>1, <1>2, <1>4 DEF Covered, Waiting

\* Whatever the orders and the faults, the market does not lose an order: while no
\* execution failed, an order that is ready is in the book, waits, or is one the
\* execution will save or put back, unless a removal took it out.
THEOREM MarketReadyIsTradable == Spec => []ReadyIsTradable
<1>1. Init => Types /\ BackedInv /\ TradableInv
  BY InitTypes, InitBacked, InitTradable
<1>2. Types /\ BackedInv /\ TradableInv /\ [Next]_vars => Types' /\ BackedInv' /\ TradableInv'
  BY NextTypes, NextBacked, NextTradable
<1>3. Types /\ TradableInv => ReadyIsTradable
  BY CoveredIsTradable
<1> QED
  BY <1>1, <1>2, <1>3, PTL DEF Spec

-----------------------------------------------------------------------------
(* The book: sorted, each order at its price, and the prices of the market   *)
(* those of its best orders.                                                 *)

Distinct(s) == \A i, j \in 1 .. Len(s) : s[i] = s[j] => i = j

LEMMA DistinctIs ==
  ASSUME NEW S, NEW s \in Seq(S)
  PROVE  IsInjective(s) <=> Distinct(s)
<1>1. DOMAIN s = 1 .. Len(s)
  BY LenProperties
<1> QED
  BY <1>1 DEF IsInjective, Distinct

LEMMA AppendDistinct ==
  ASSUME NEW S, NEW s \in Seq(S), NEW e \in S, Distinct(s), e \notin ToSet(s)
  PROVE  Distinct(Append(s, e))
<1> DEFINE t == Append(s, e)
<1>1. /\ Len(t) = Len(s) + 1
      /\ \A i \in 1 .. Len(s) : t[i] = s[i]
      /\ t[Len(s) + 1] = e
  BY AppendProperties
<1>2. Len(s) \in Nat /\ \A i \in 1 .. Len(s) : s[i] # e
  BY LenProperties, ToSetIs
<1> HIDE DEF t
<1> SUFFICES ASSUME NEW i \in 1 .. Len(t), NEW j \in 1 .. Len(t), t[i] = t[j]
             PROVE  i = j
  BY DEF Distinct, t
<1>3. CASE i = Len(s) + 1 \/ j = Len(s) + 1
  BY <1>1, <1>2, <1>3
<1>4. CASE i # Len(s) + 1 /\ j # Len(s) + 1
  <2>1. i \in 1 .. Len(s) /\ j \in 1 .. Len(s)
    BY <1>1, <1>2, <1>4
  <2> QED
    BY <2>1, <1>1 DEF Distinct
<1> QED
  BY <1>3, <1>4

LEMMA ConsDistinct ==
  ASSUME NEW S, NEW s \in Seq(S), NEW e \in S, Distinct(s), e \notin ToSet(s)
  PROVE  Distinct(<<e>> \o s)
<1> DEFINE t == <<e>> \o s
<1>1. /\ Len(t) = Len(s) + 1
      /\ \A i \in 1 .. Len(s) + 1 : t[i] = IF i = 1 THEN e ELSE s[i - 1]
  BY ConsToSet
<1>2. Len(s) \in Nat /\ \A i \in 1 .. Len(s) : s[i] # e
  BY LenProperties, ToSetIs
<1> HIDE DEF t
<1> SUFFICES ASSUME NEW i \in 1 .. Len(t), NEW j \in 1 .. Len(t), t[i] = t[j]
             PROVE  i = j
  BY DEF Distinct, t
<1>3. i = 1 \/ i - 1 \in 1 .. Len(s)
  BY <1>1, <1>2
<1>4. j = 1 \/ j - 1 \in 1 .. Len(s)
  BY <1>1, <1>2
<1>5. CASE i = 1 \/ j = 1
  BY <1>1, <1>2, <1>3, <1>4, <1>5
<1>6. CASE i # 1 /\ j # 1
  <2>1. i - 1 \in 1 .. Len(s) /\ j - 1 \in 1 .. Len(s) /\ s[i - 1] = s[j - 1]
    BY <1>1, <1>3, <1>4, <1>6
  <2>2. i - 1 = j - 1
    BY <2>1 DEF Distinct
  <2> QED
    BY <2>2
<1> QED
  BY <1>5, <1>6

LEMMA TailDistinct ==
  ASSUME NEW S, NEW s \in Seq(S), s # <<>>, Distinct(s)
  PROVE  Distinct(Tail(s)) /\ Head(s) \notin ToSet(Tail(s))
<1> DEFINE t == Tail(s)
<1>1. /\ t \in Seq(S) /\ Len(t) = Len(s) - 1 /\ \A i \in 1 .. Len(t) : t[i] = s[i + 1]
      /\ Head(s) = s[1]
  BY HeadTailProperties, EmptySeq
<1>2. Len(s) \in Nat \ {0} /\ Len(t) \in Nat
  BY <1>1, EmptySeq, LenProperties
<1> HIDE DEF t
<1>3. \A i \in 1 .. Len(t) : i + 1 \in 1 .. Len(s) /\ i + 1 # 1
  BY <1>1, <1>2
<1>4. ToSet(t) = {t[i] : i \in 1 .. Len(t)}
  BY <1>1, ToSetIs
<1>5. ASSUME NEW i \in 1 .. Len(t) PROVE t[i] # Head(s)
  <2>1. 1 \in 1 .. Len(s)
    BY <1>2
  <2> QED
    BY <1>1, <1>3, <2>1 DEF Distinct
<1>6. ASSUME NEW i \in 1 .. Len(t), NEW j \in 1 .. Len(t), t[i] = t[j] PROVE i = j
  <2>1. i + 1 = j + 1
    BY <1>1, <1>3, <1>6 DEF Distinct
  <2> QED
    BY <2>1
<1> QED
  BY <1>4, <1>5, <1>6 DEF t, Distinct

LEMMA RemoveAtDistinct ==
  ASSUME NEW S, NEW s \in Seq(S), NEW k \in 1 .. Len(s), Distinct(s)
  PROVE  Distinct(RemoveAt(s, k)) /\ s[k] \notin ToSet(RemoveAt(s, k))
<1> DEFINE r == RemoveAt(s, k)
           P(i) == IF i < k THEN i ELSE i + 1
<1>1. /\ r \in Seq(S) /\ Len(r) = Len(s) - 1
      /\ \A i \in 1 .. Len(s) - 1 : r[i] = IF i < k THEN s[i] ELSE s[i + 1]
  BY RemoveAtGives
<1> HIDE DEF r
<1>2. Len(s) \in Nat
  BY LenProperties
<1>3. \A i \in 1 .. Len(r) : r[i] = s[P(i)] /\ P(i) \in 1 .. Len(s) /\ P(i) # k
  BY <1>1, <1>2
<1>4. ToSet(r) = {r[i] : i \in 1 .. Len(r)}
  BY <1>1, ToSetIs
<1>5. \A i \in 1 .. Len(r) : r[i] # s[k]
  BY <1>3 DEF Distinct
<1>6. ASSUME NEW i \in 1 .. Len(r), NEW j \in 1 .. Len(r), r[i] = r[j] PROVE i = j
  <2>1. P(i) = P(j)
    BY <1>3, <1>6 DEF Distinct
  <2> QED
    BY <2>1
<1> QED
  BY <1>4, <1>5, <1>6 DEF r, Distinct

Ranked(m) == \A i, j \in 1 .. Len(m.book) : i < j => m.book[i].price < m.book[j].price

\* A node is on one side of the market, with orders of that side at its price.
NodeOK(e, buy, sell, ord) ==
  /\ 0 < e.price /\ e.price < Infinity
  /\ e.price =< buy \/ e.price >= sell
  /\ Distinct(e.orders)
  /\ \A o \in ToSet(e.orders) :
       Price(ord[o]) = e.price /\ (ord[o].side = "buy" <=> e.price =< buy)

Sound(m, ord) ==
  /\ Ranked(m)
  /\ \A i \in 1 .. Len(m.book) : NodeOK(m.book[i], m.buy, m.sell, ord)
  /\ m.buy < m.sell /\ m.sell =< Infinity
  /\ m.buy # 0 => m.buy \in Prices(m)
  /\ m.sell # Infinity => m.sell \in Prices(m)

LEMMA SoundPrices ==
  ASSUME NEW m \in MarketType
  PROVE  Prices(m) = {m.book[i].price : i \in 1 .. Len(m.book)}
BY BookIs DEF Prices

\* An order in the book is at its price, on its side.
LEMMA SoundOrder ==
  ASSUME NEW m \in MarketType, NEW ord, Sound(m, ord), NEW o \in In(m)
  PROVE  /\ Price(ord[o]) \in Nat \ {0} /\ Price(ord[o]) < Infinity
         /\ Price(ord[o]) \in Prices(m)
         /\ ord[o].side = "buy" => Price(ord[o]) =< m.buy
         /\ ord[o].side # "buy" => Price(ord[o]) >= m.sell
<1>1. PICK i \in 1 .. Len(m.book) : o \in ToSet(m.book[i].orders)
  BY InIs
<1>2. NodeOK(m.book[i], m.buy, m.sell, ord)
  BY DEF Sound
<1>3. m.book[i].price \in Nat /\ m.book[i].price \in Prices(m) /\ m.buy \in Nat /\ m.sell \in Nat
  BY BookIs DEF MarketType
<1> QED
  BY <1>1, <1>2, <1>3 DEF NodeOK

LEMMA SoundKept ==
  ASSUME NEW m \in MarketType, NEW ord, NEW new, Sound(m, ord),
         \A o \in In(m) : Price(new[o]) = Price(ord[o]) /\ new[o].side = ord[o].side
  PROVE  Sound(m, new)
<1>1. ASSUME NEW i \in 1 .. Len(m.book) PROVE NodeOK(m.book[i], m.buy, m.sell, new)
  <2>1. \A o \in ToSet(m.book[i].orders) : o \in In(m)
    BY InIs
  <2>2. NodeOK(m.book[i], m.buy, m.sell, ord)
    BY DEF Sound
  <2> QED
    BY <2>1, <2>2 DEF NodeOK
<1> QED
  BY <1>1 DEF Sound

LEMMA NoMarketSound ==
  ASSUME NEW ord
  PROVE  Sound(NoMarket, ord) /\ In(NoMarket) = {}
<1>1. Len(<<>>) = 0 /\ 1 .. 0 = {} /\ DOMAIN <<>> = {}
  OBVIOUS
<1> QED
  BY <1>1, InfinityAssumption DEF Sound, Ranked, NoMarket, In

\* An order that is put in the book, at a price that meets no order of the other side.
LEMMA GetsSound ==
  ASSUME NEW m \in MarketType, NEW n, NEW o \in Order, NEW ord, NEW side, NEW price \in Nat \ {0},
         Gets(m, n, o, side, price), Sound(m, ord), o \notin In(m),
         price < Infinity, Price(ord[o]) = price, ord[o].side = side,
         IF side = "buy" THEN price < m.sell ELSE price > m.buy
  PROVE  Sound(n, ord)
<1>0. n \in MarketType
  BY DEF Gets
<1>1. /\ m.buy \in Nat /\ m.sell \in Nat /\ n.buy \in Nat /\ n.sell \in Nat
      /\ Infinity \in Nat
  BY <1>0, InfinityAssumption DEF MarketType
<1>2. m.buy < m.sell /\ m.sell =< Infinity
  BY DEF Sound
<1>3. /\ n.buy < n.sell /\ n.sell =< Infinity
      /\ side = "buy" <=> price =< n.buy
      /\ side # "buy" => price >= n.sell
      /\ n.buy = m.buy \/ n.buy = price
      /\ n.sell = m.sell \/ n.sell = price
  BY <1>1, <1>2 DEF Gets
<1>4. \A x \in Nat : x =< m.buy \/ x >= m.sell =>
        (x =< n.buy <=> x =< m.buy) /\ (x =< n.buy \/ x >= n.sell)
  BY <1>1, <1>2 DEF Gets
<1>5. ASSUME NEW i \in 1 .. Len(m.book) PROVE NodeOK(m.book[i], n.buy, n.sell, ord)
  <2>1. NodeOK(m.book[i], m.buy, m.sell, ord) /\ m.book[i].price \in Nat
    BY BookIs DEF Sound
  <2> QED
    BY <1>4, <2>1 DEF NodeOK
<1>6. Len(m.book) \in Nat /\ Len(n.book) \in Nat
  BY <1>0, BookIs
<1>7. \A i \in 1 .. Len(m.book) : o \notin ToSet(m.book[i].orders) /\ m.book[i].price \in Nat
  BY InIs, BookIs
<1>8. Ranked(m)
  BY DEF Sound
<1>9. PICK k \in Nat : Opens(m, n, o, price, k) \/ Joins(m, n, o, price, k)
  BY DEF Gets
<1>10. CASE Opens(m, n, o, price, k)
  <2>1. \A i \in 1 .. Len(n.book) :
          \/ i < k /\ i \in 1 .. Len(m.book) /\ n.book[i] = m.book[i]
          \/ i = k
          \/ i > k /\ i - 1 \in 1 .. Len(m.book) /\ i - 1 >= k /\ n.book[i] = m.book[i - 1]
    BY <1>6, <1>10 DEF Opens
  <2>2. \A i \in 1 .. Len(m.book) : \E j \in 1 .. Len(n.book) : n.book[j] = m.book[i]
    <3> SUFFICES ASSUME NEW i \in 1 .. Len(m.book)
                 PROVE  \E j \in 1 .. Len(n.book) : n.book[j] = m.book[i]
      OBVIOUS
    <3>1. CASE i < k
      BY <1>6, <1>10, <3>1 DEF Opens
    <3>2. CASE ~(i < k)
      <4>1. i + 1 \in 1 .. Len(n.book) /\ n.book[i + 1] = m.book[i]
        BY <1>6, <1>10, <3>2 DEF Opens
      <4> QED
        BY <4>1
    <3> QED
      BY <3>1, <3>2
  <2>3. n.book[k] = [price |-> price, orders |-> <<o>>] /\ k \in 1 .. Len(n.book)
    BY <1>6, <1>10 DEF Opens
  <2>4. NodeOK(n.book[k], n.buy, n.sell, ord)
    <3>1. ToSet(<<o>>) = {o} /\ Distinct(<<o>>)
      BY DEF ToSet, Distinct
    <3> QED
      BY <1>1, <1>3, <2>3, <3>1 DEF NodeOK
  <2>5. \A i \in 1 .. Len(n.book) : NodeOK(n.book[i], n.buy, n.sell, ord)
    BY <1>5, <2>1, <2>4
  <2>6. Ranked(n)
    <3>1. \A i \in 1 .. Len(m.book) : i >= k => price < m.book[i].price
      <4> SUFFICES ASSUME NEW i \in 1 .. Len(m.book), i >= k PROVE price < m.book[i].price
        OBVIOUS
      <4>1. k \in 1 .. Len(m.book) /\ price < m.book[k].price
        BY <1>6, <1>10 DEF Opens
      <4>2. i = k \/ m.book[k].price < m.book[i].price
        BY <1>8, <4>1 DEF Ranked
      <4> QED
        BY <1>7, <4>1, <4>2
    <3>2. \A i \in 1 .. Len(m.book) : i < k => m.book[i].price < price
      BY <1>10 DEF Opens
    <3> SUFFICES ASSUME NEW i \in 1 .. Len(n.book), NEW j \in 1 .. Len(n.book), i < j
                 PROVE  n.book[i].price < n.book[j].price
      BY DEF Ranked
    <3>3. CASE i = k
      <4>1. j > k /\ j - 1 \in 1 .. Len(m.book) /\ j - 1 >= k /\ n.book[j] = m.book[j - 1]
        BY <2>1, <3>3, <1>6
      <4> QED
        BY <2>3, <3>1, <3>3, <4>1
    <3>4. CASE j = k
      <4>1. i < k /\ i \in 1 .. Len(m.book) /\ n.book[i] = m.book[i]
        BY <2>1, <3>4, <1>6
      <4> QED
        BY <2>3, <3>2, <3>4, <4>1
    <3>5. CASE i # k /\ j # k
      <4> DEFINE p == IF i < k THEN i ELSE i - 1
                 q == IF j < k THEN j ELSE j - 1
      <4>1. /\ p \in 1 .. Len(m.book) /\ n.book[i] = m.book[p]
            /\ q \in 1 .. Len(m.book) /\ n.book[j] = m.book[q] /\ p < q
        BY <2>1, <3>5, <1>6
      <4> QED
        BY <1>8, <4>1 DEF Ranked
    <3> QED
      BY <3>3, <3>4, <3>5
  <2>7. \A p \in Prices(m) \cup {price} : p \in Prices(n)
    <3>1. \A i \in 1 .. Len(n.book) : n.book[i].price \in Prices(n)
      BY <1>0, BookIs
    <3>2. price \in Prices(n)
      BY <2>3, <3>1
    <3>3. \A p \in Prices(m) : \E i \in 1 .. Len(m.book) : m.book[i].price = p
      BY BookIs
    <3> QED
      BY <2>2, <3>1, <3>2, <3>3
  <2> QED
    BY <1>3, <2>5, <2>6, <2>7 DEF Sound
<1>11. CASE Joins(m, n, o, price, k)
  <2>1. \A i \in 1 .. Len(m.book) : n.book[i].price = m.book[i].price
    BY <1>11 DEF Joins
  <2>2. Len(n.book) = Len(m.book) /\ k \in 1 .. Len(m.book) /\ n.book[k].price = price
    BY <1>11 DEF Joins
  <2>3. NodeOK(n.book[k], n.buy, n.sell, ord)
    <3> DEFINE os == m.book[k].orders
    <3>1. os \in Seq(Order) /\ o \notin ToSet(os)
      BY <2>2, <1>7, BookIs
    <3>2. NodeOK(m.book[k], n.buy, n.sell, ord) /\ m.book[k].price = price
      BY <1>5, <1>11 DEF Joins
    <3>3. Distinct(os)
      BY <3>2 DEF NodeOK
    <3>4. Distinct(n.book[k].orders) /\ ToSet(n.book[k].orders) = ToSet(os) \cup {o}
      <4>1. n.book[k].orders = Append(os, o) \/ n.book[k].orders = <<o>> \o os
        BY <1>11 DEF Joins
      <4> HIDE DEF os
      <4>2. Distinct(Append(os, o)) /\ ToSet(Append(os, o)) = ToSet(os) \cup {o}
        BY <3>1, <3>3, AppendDistinct, AppendToSet
      <4>3. Distinct(<<o>> \o os) /\ ToSet(<<o>> \o os) = {o} \cup ToSet(os)
        BY <3>1, <3>3, ConsDistinct, ConsToSet
      <4>4. {o} \cup ToSet(os) = ToSet(os) \cup {o}
        OBVIOUS
      <4> QED
        BY <4>1, <4>2, <4>3, <4>4
    <3> QED
      BY <1>3, <2>2, <3>2, <3>4 DEF NodeOK
  <2>4. \A i \in 1 .. Len(n.book) : NodeOK(n.book[i], n.buy, n.sell, ord)
    BY <1>5, <1>11, <2>2, <2>3 DEF Joins
  <2>5. Ranked(n)
    BY <1>8, <2>1, <2>2 DEF Ranked
  <2>6. Prices(n) = Prices(m) /\ price \in Prices(n)
    <3>1. \A i \in 1 .. Len(m.book) : m.book[i].price \in Prices(n)
      BY <1>0, <2>1, <2>2, BookIs
    <3>2. \A i \in 1 .. Len(n.book) : n.book[i].price \in Prices(m)
      BY <2>1, <2>2, BookIs
    <3>3. \A p \in Prices(m) : p \in Prices(n)
      BY <3>1, BookIs
    <3>4. \A p \in Prices(n) : p \in Prices(m)
      BY <1>0, <3>2, BookIs
    <3> QED
      BY <2>2, <3>1, <3>2, <3>3, <3>4
  <2> QED
    BY <1>3, <2>4, <2>5, <2>6 DEF Sound
<1> QED
  BY <1>9, <1>10, <1>11

\* Of the nodes that stay, each is on the side it was when the prices of the market move.
SameSides(x, m, n) ==
  (x =< n.buy <=> x =< m.buy) /\ (x =< n.buy \/ x >= n.sell)

LEMMA ClosesSides ==
  ASSUME NEW m \in MarketType, NEW n \in MarketType, NEW ord, Sound(m, ord),
         NEW k, NEW i, Closes(m, n, k, i)
  PROVE  /\ \A j \in 1 .. Len(m.book) : j # k => SameSides(m.book[j].price, m, n)
         /\ n.buy < n.sell /\ n.sell =< Infinity
         /\ n.buy # 0 => \E j \in 1 .. Len(m.book) : j # k /\ m.book[j].price = n.buy
         /\ n.sell # Infinity => \E j \in 1 .. Len(m.book) : j # k /\ m.book[j].price = n.sell
<1> DEFINE P(j) == m.book[j].price
           N == Len(m.book)
<1>0. /\ m.buy \in Nat /\ m.sell \in Nat /\ n.buy \in Nat /\ n.sell \in Nat
      /\ Infinity \in Nat \ {0} /\ N \in Nat
  BY InfinityAssumption, BookIs DEF MarketType
<1>1. \A j \in 1 .. N : P(j) \in Nat /\ 0 < P(j) /\ P(j) < Infinity /\ (P(j) =< m.buy \/ P(j) >= m.sell)
  BY BookIs DEF Sound, NodeOK
<1>2. \A j, h \in 1 .. N : j < h => P(j) < P(h)
  BY DEF Sound, Ranked
<1>3. m.buy < m.sell /\ m.sell =< Infinity
  BY DEF Sound
<1>4. m.buy # 0 => \E j \in 1 .. N : P(j) = m.buy
  BY BookIs DEF Sound
<1>5. m.sell # Infinity => \E j \in 1 .. N : P(j) = m.sell
  BY BookIs DEF Sound
<1>6. /\ k \in 1 .. N
      /\ n.buy = IF P(k) = m.buy THEN IF k > 1 THEN P(k - 1) ELSE 0 ELSE m.buy
      /\ n.sell = IF P(k) # m.buy /\ P(k) = m.sell THEN IF k < N THEN P(k + 1) ELSE Infinity
                  ELSE m.sell
  BY DEF Closes
<1> HIDE DEF P, N
<1>7. \A j \in 1 .. N : j < k => k - 1 \in 1 .. N /\ P(j) =< P(k - 1) /\ P(k - 1) < P(k) /\ k > 1
  <2> SUFFICES ASSUME NEW j \in 1 .. N, j < k
               PROVE  k - 1 \in 1 .. N /\ P(j) =< P(k - 1) /\ P(k - 1) < P(k) /\ k > 1
    OBVIOUS
  <2>1. k - 1 \in 1 .. N /\ k - 1 < k /\ k > 1 /\ (j = k - 1 \/ j < k - 1)
    BY <1>0, <1>6
  <2>2. P(k - 1) < P(k)
    BY <1>2, <1>6, <2>1
  <2>3. P(j) =< P(k - 1)
    BY <1>1, <1>2, <2>1
  <2> QED
    BY <2>1, <2>2, <2>3
<1>8. \A j \in 1 .. N : j > k => k + 1 \in 1 .. N /\ P(j) >= P(k + 1) /\ P(k + 1) > P(k) /\ k < N
  <2> SUFFICES ASSUME NEW j \in 1 .. N, j > k
               PROVE  k + 1 \in 1 .. N /\ P(j) >= P(k + 1) /\ P(k + 1) > P(k) /\ k < N
    OBVIOUS
  <2>1. k + 1 \in 1 .. N /\ k < k + 1 /\ k < N /\ (j = k + 1 \/ k + 1 < j)
    BY <1>0, <1>6
  <2>2. P(k + 1) > P(k)
    BY <1>1, <1>2, <1>6, <2>1
  <2>3. P(j) >= P(k + 1)
    BY <1>1, <1>2, <2>1
  <2> QED
    BY <2>1, <2>2, <2>3
<1>9. k > 1 => k - 1 \in 1 .. N /\ P(k - 1) < P(k) /\ k - 1 # k
  BY <1>0, <1>2, <1>6
<1>10. k < N => k + 1 \in 1 .. N /\ P(k + 1) > P(k) /\ k + 1 # k
  BY <1>0, <1>1, <1>2, <1>6
<1>11. CASE P(k) = m.buy
  <2>1. n.sell = m.sell /\ n.buy < m.buy /\ n.buy < n.sell
    BY <1>0, <1>1, <1>3, <1>6, <1>9, <1>11
  <2>2. ASSUME NEW j \in 1 .. N, j # k PROVE SameSides(P(j), m, n)
    <3>1. CASE j < k
      <4>1. P(j) =< P(k - 1) /\ n.buy = P(k - 1) /\ P(j) =< m.buy
        BY <1>1, <1>2, <1>6, <1>7, <1>11, <3>1
      <4> QED
        BY <4>1 DEF SameSides
    <3>2. CASE j > k
      <4>1. P(j) > m.buy
        BY <1>1, <1>2, <1>6, <1>11, <3>2
      <4> QED
        BY <1>0, <1>1, <2>1, <4>1 DEF SameSides
    <3> QED
      BY <1>0, <1>6, <2>2, <3>1, <3>2
  <2>3. n.buy # 0 => \E j \in 1 .. N : j # k /\ P(j) = n.buy
    BY <1>6, <1>9, <1>11
  <2>4. n.sell # Infinity => \E j \in 1 .. N : j # k /\ P(j) = n.sell
    BY <1>0, <1>3, <1>5, <1>11, <2>1
  <2> QED
    BY <1>3, <2>1, <2>2, <2>3, <2>4 DEF P, N
<1>12. CASE P(k) # m.buy /\ P(k) = m.sell
  <2>1. n.buy = m.buy /\ n.sell > m.sell /\ n.buy < n.sell /\ n.sell =< Infinity
    BY <1>0, <1>1, <1>3, <1>6, <1>10, <1>12
  <2>2. ASSUME NEW j \in 1 .. N, j # k PROVE SameSides(P(j), m, n)
    <3>1. CASE j < k
      <4>1. P(j) < m.sell
        BY <1>2, <1>6, <1>12, <3>1
      <4> QED
        BY <1>0, <1>1, <2>1, <4>1 DEF SameSides
    <3>2. CASE j > k
      <4>1. P(j) >= P(k + 1) /\ n.sell = P(k + 1)
        BY <1>6, <1>8, <1>12, <3>2
      <4> QED
        BY <2>1, <4>1 DEF SameSides
    <3> QED
      BY <1>0, <1>6, <2>2, <3>1, <3>2
  <2>3. n.buy # 0 => \E j \in 1 .. N : j # k /\ P(j) = n.buy
    BY <1>4, <1>12, <2>1
  <2>4. n.sell # Infinity => \E j \in 1 .. N : j # k /\ P(j) = n.sell
    BY <1>6, <1>10, <1>12
  <2> QED
    BY <2>1, <2>2, <2>3, <2>4 DEF P, N
<1>13. CASE P(k) # m.buy /\ P(k) # m.sell
  <2>1. n.buy = m.buy /\ n.sell = m.sell
    BY <1>6, <1>13
  <2>2. \A j \in 1 .. N : SameSides(P(j), m, n)
    BY <1>1, <2>1 DEF SameSides
  <2>3. n.buy # 0 => \E j \in 1 .. N : j # k /\ P(j) = n.buy
    BY <1>4, <1>13, <2>1
  <2>4. n.sell # Infinity => \E j \in 1 .. N : j # k /\ P(j) = n.sell
    BY <1>5, <1>13, <2>1
  <2> QED
    BY <1>3, <2>1, <2>2, <2>3, <2>4 DEF P, N
<1> QED
  BY <1>11, <1>12, <1>13

\* An order that leaves the book is in it no more.
LEMMA LosesSound ==
  ASSUME NEW m \in MarketType, NEW n, NEW ord, NEW price \in Prices(m),
         NEW i \in 1 .. Len(OrdersAt(m, price)), Loses(m, n, price, i), Sound(m, ord)
  PROVE  Sound(n, ord) /\ OrdersAt(m, price)[i] \notin In(n)
<1> DEFINE o == OrdersAt(m, price)[i]
<1>0. n \in MarketType /\ Len(m.book) \in Nat /\ Len(n.book) \in Nat
  BY BookIs DEF Loses
<1>1. PICK k \in 1 .. Len(m.book) : /\ m.book[k].price = price /\ OrdersAt(m, price) = m.book[k].orders
                                    /\ Shrinks(m, n, k, i) \/ Closes(m, n, k, i)
  BY DEF Loses
<1>2. \A j \in 1 .. Len(m.book) : NodeOK(m.book[j], m.buy, m.sell, ord)
  BY DEF Sound
<1>3. Ranked(m)
  BY DEF Sound
<1>4. \A j \in 1 .. Len(m.book) : m.book[j].price \in Nat /\ m.book[j].orders \in Seq(Order)
  BY BookIs
<1>5. o \in ToSet(m.book[k].orders)
  BY <1>1, <1>4, ToSetIs
<1>6. \A j \in 1 .. Len(m.book) : j # k => o \notin ToSet(m.book[j].orders)
  <2> SUFFICES ASSUME NEW j \in 1 .. Len(m.book), j # k, o \in ToSet(m.book[j].orders)
               PROVE  FALSE
    OBVIOUS
  <2>1. m.book[j].price = m.book[k].price
    BY <1>2, <1>5 DEF NodeOK
  <2>2. j < k \/ k < j
    BY <1>0
  <2> QED
    BY <1>3, <1>4, <2>1, <2>2 DEF Ranked
<1> HIDE DEF o
<1>7. CASE Shrinks(m, n, k, i)
  <2> DEFINE os == m.book[k].orders
  <2>1. /\ os \in Seq(Order) /\ i \in 1 .. Len(os) /\ Distinct(os) /\ o = os[i]
    BY <1>1, <1>2, <1>4 DEF NodeOK, o
  <2>2. /\ Len(n.book) = Len(m.book) /\ n.book[k].price = m.book[k].price
        /\ n.book[k].orders = RemoveAt(os, i)
        /\ \A j \in 1 .. Len(m.book) : j # k => n.book[j] = m.book[j]
        /\ n.buy = m.buy /\ n.sell = m.sell
    BY <1>7 DEF Shrinks
  <2> HIDE DEF os
  <2>3. Distinct(RemoveAt(os, i)) /\ o \notin ToSet(RemoveAt(os, i)) /\ ToSet(RemoveAt(os, i)) \subseteq ToSet(os)
    BY <2>1, RemoveAtDistinct, RemoveAtToSet
  <2>4. NodeOK(n.book[k], n.buy, n.sell, ord)
    BY <1>2, <2>2, <2>3 DEF NodeOK, os
  <2>5. \A j \in 1 .. Len(n.book) : NodeOK(n.book[j], n.buy, n.sell, ord)
    BY <1>2, <2>2, <2>4
  <2>6. \A j \in 1 .. Len(m.book) : n.book[j].price = m.book[j].price
    BY <2>2
  <2>7. Ranked(n)
    BY <1>3, <2>2, <2>6 DEF Ranked
  <2>8. \A p \in Prices(m) : p \in Prices(n)
    <3>1. \A j \in 1 .. Len(n.book) : n.book[j].price \in Prices(n)
      BY <1>0, BookIs
    <3>2. \A p \in Prices(m) : \E j \in 1 .. Len(m.book) : m.book[j].price = p
      BY BookIs
    <3> QED
      BY <2>2, <2>6, <3>1, <3>2
  <2>9. o \notin In(n)
    <3>1. \A j \in 1 .. Len(n.book) : o \notin ToSet(n.book[j].orders)
      BY <1>6, <2>2, <2>3
    <3> QED
      BY <1>0, <3>1, InIs
  <2> QED
    BY <2>2, <2>5, <2>7, <2>8, <2>9 DEF Sound, o
<1>8. CASE Closes(m, n, k, i)
  <2> DEFINE Q(j) == IF j < k THEN j ELSE j + 1
  <2>1. Len(n.book) = Len(m.book) - 1
        /\ \A j \in 1 .. Len(n.book) : n.book[j] = m.book[Q(j)] /\ Q(j) \in 1 .. Len(m.book) /\ Q(j) # k
    BY <1>0, <1>8 DEF Closes
  <2>2. /\ \A j \in 1 .. Len(m.book) : j # k => SameSides(m.book[j].price, m, n)
        /\ n.buy < n.sell /\ n.sell =< Infinity
        /\ n.buy # 0 => \E j \in 1 .. Len(m.book) : j # k /\ m.book[j].price = n.buy
        /\ n.sell # Infinity => \E j \in 1 .. Len(m.book) : j # k /\ m.book[j].price = n.sell
    BY <1>0, <1>8, ClosesSides
  <2>3. \A j \in 1 .. Len(m.book) : j # k => NodeOK(m.book[j], n.buy, n.sell, ord)
    BY <1>2, <2>2 DEF NodeOK, SameSides
  <2>4. \A j \in 1 .. Len(n.book) : NodeOK(n.book[j], n.buy, n.sell, ord)
    BY <2>1, <2>3
  <2>5. Ranked(n)
    <3> SUFFICES ASSUME NEW j \in 1 .. Len(n.book), NEW h \in 1 .. Len(n.book), j < h
                 PROVE  n.book[j].price < n.book[h].price
      BY DEF Ranked
    <3>1. Q(j) < Q(h)
      BY <1>0
    <3> QED
      BY <1>3, <2>1, <3>1 DEF Ranked
  <2>6. \A j \in 1 .. Len(m.book) : j # k => m.book[j].price \in Prices(n)
    <3> SUFFICES ASSUME NEW j \in 1 .. Len(m.book), j # k PROVE m.book[j].price \in Prices(n)
      OBVIOUS
    <3> DEFINE h == IF j < k THEN j ELSE j - 1
    <3>1. h \in 1 .. Len(n.book) /\ Q(h) = j
      BY <1>0, <2>1
    <3>2. n.book[h] = m.book[j]
      BY <2>1, <3>1
    <3>3. n.book[h].price \in Prices(n)
      BY <1>0, <3>1, BookIs
    <3> QED
      BY <3>2, <3>3
  <2>7. o \notin In(n)
    <3>1. \A j \in 1 .. Len(n.book) : o \notin ToSet(n.book[j].orders)
      BY <1>6, <2>1
    <3> QED
      BY <1>0, <3>1, InIs
  <2>8. (n.buy # 0 => n.buy \in Prices(n)) /\ (n.sell # Infinity => n.sell \in Prices(n))
    BY <2>2, <2>6
  <2> QED
    BY <2>2, <2>4, <2>5, <2>7, <2>8 DEF Sound, o
<1> QED
  BY <1>1, <1>7, <1>8

LEMMA BestIs ==
  ASSUME OrderTypes, BookTypes, Sound(market, order)
  PROVE  market.buy = BestBuy /\ market.sell = BestSell
<1> DEFINE B == {0} \cup {Price(order[o]) : o \in {p \in InBook : order[p].side = "buy"}}
           S == {Infinity} \cup {Price(order[o]) : o \in {p \in InBook : order[p].side = "sell"}}
<1>0. market \in MarketType /\ InBook = In(market) /\ In(market) \subseteq Order
  BY InIs DEF BookTypes, InBook, In
<1> HIDE DEF B, S
<1>1. market.buy \in Nat /\ market.sell \in Nat /\ Infinity \in Nat
  BY <1>0, InfinityAssumption DEF MarketType
<1>2. market.buy < market.sell /\ market.sell =< Infinity
  BY DEF Sound
<1>3. \A o \in In(market) : order[o].side \in {"buy", "sell"}
  BY <1>0 DEF OrderTypes, Memory, Side
<1>4. \A o \in In(market) : /\ Price(order[o]) \in Nat
                            /\ order[o].side = "buy" => Price(order[o]) =< market.buy
                            /\ order[o].side # "buy" => Price(order[o]) >= market.sell
  BY <1>0, SoundOrder
<1>5. ASSUME NEW p \in Prices(market)
      PROVE  \E o \in In(market) : Price(order[o]) = p /\ (order[o].side = "buy" <=> p =< market.buy)
  <2>1. PICK i \in 1 .. Len(market.book) : market.book[i].price = p
    BY <1>0, BookIs
  <2>2. market.book[i].orders # <<>> /\ market.book[i].orders \in Seq(Order)
    BY <1>0, BookIs DEF BookTypes, Full
  <2>3. Head(market.book[i].orders) \in ToSet(market.book[i].orders)
    BY <2>2, TailToSet
  <2>4. NodeOK(market.book[i], market.buy, market.sell, order)
    BY DEF Sound
  <2> QED
    BY <1>0, <2>1, <2>3, <2>4, InIs DEF NodeOK
<1>6. market.buy \in B
  <2>1. CASE market.buy # 0
    <3>1. market.buy \in Prices(market)
      BY <2>1 DEF Sound
    <3>2. PICK o \in In(market) : Price(order[o]) = market.buy /\ order[o].side = "buy"
      BY <1>1, <1>5, <3>1
    <3> QED
      BY <1>0, <3>2 DEF B
  <2> QED
    BY <2>1 DEF B
<1>7. market.sell \in S
  <2>1. CASE market.sell # Infinity
    <3>1. market.sell \in Prices(market)
      BY <2>1 DEF Sound
    <3>2. PICK o \in In(market) : Price(order[o]) = market.sell /\ order[o].side # "buy"
      BY <1>1, <1>2, <1>5, <3>1
    <3> QED
      BY <1>0, <1>3, <3>2 DEF S
  <2> QED
    BY <2>1 DEF S
<1>8. \A x \in B : x \in Nat /\ x =< market.buy
  <2> SUFFICES ASSUME NEW x \in B PROVE x \in Nat /\ x =< market.buy
    OBVIOUS
  <2>1. CASE x = 0
    BY <1>1, <2>1
  <2>2. ASSUME NEW o \in In(market), order[o].side = "buy", x = Price(order[o])
        PROVE  x \in Nat /\ x =< market.buy
    <3>1. Price(order[o]) \in Nat /\ Price(order[o]) =< market.buy
      BY <1>0, <2>2, SoundOrder
    <3> QED
      BY <2>2, <3>1
  <2> QED
    BY <1>0, <2>1, <2>2 DEF B
<1>9. \A x \in S : x \in Nat /\ market.sell =< x
  <2> SUFFICES ASSUME NEW x \in S PROVE x \in Nat /\ market.sell =< x
    OBVIOUS
  <2>1. CASE x = Infinity
    BY <1>1, <1>2, <2>1
  <2>2. ASSUME NEW o \in In(market), order[o].side = "sell", x = Price(order[o])
        PROVE  x \in Nat /\ market.sell =< x
    <3>1. order[o].side # "buy"
      BY <2>2
    <3>2. Price(order[o]) \in Nat /\ Price(order[o]) >= market.sell
      BY <1>0, <3>1, SoundOrder
    <3> QED
      BY <1>1, <2>2, <3>2
  <2> QED
    BY <1>0, <2>1, <2>2 DEF S
<1>10. market.buy = Max(B)
  <2>1. \A x \in B : (\A y \in B : x >= y) <=> x = market.buy
    BY <1>1, <1>6, <1>8
  <2> QED
    BY <1>6, <2>1 DEF Max
<1>11. market.sell = Min(S)
  <2>1. \A x \in S : (\A y \in S : x =< y) <=> x = market.sell
    BY <1>1, <1>7, <1>9
  <2> QED
    BY <1>7, <2>1 DEF Min
<1> QED
  BY <1>10, <1>11 DEF B, S, BestBuy, BestSell

LEMMA SoundGives ==
  ASSUME OrderTypes, BookTypes, Sound(market, order)
  PROVE  BookIsSound
<1>0. market \in MarketType /\ DOMAIN market.book = 1 .. Len(market.book) /\ Full(market)
  BY BookIs DEF BookTypes
<1>1. ASSUME NEW i \in 1 .. Len(market.book)
      PROVE  /\ market.book[i].orders # <<>> /\ IsInjective(market.book[i].orders)
             /\ \A o \in ToSet(market.book[i].orders) : Price(order[o]) = market.book[i].price
  <2>1. NodeOK(market.book[i], market.buy, market.sell, order)
    BY DEF Sound
  <2>2. market.book[i].orders \in Seq(Order)
    BY <1>0, BookIs
  <2> QED
    BY <1>0, <2>1, <2>2, DistinctIs DEF NodeOK, Full
<1>2. \A i, j \in 1 .. Len(market.book) : i < j => market.book[i].price < market.book[j].price
  BY DEF Sound, Ranked
<1>3. market.buy = BestBuy /\ market.sell = BestSell /\ market.buy < market.sell
  BY BestIs DEF Sound
<1> QED
  BY <1>0, <1>1, <1>2, <1>3 DEF BookIsSound

-----------------------------------------------------------------------------
(* What keeps the book sound while orders come, wait, are matched, saved and *)
(* removed.                                                                  *)

Ask(o) == Price(asked[o])

\* The price is the one the user asked, and nothing has yet to be cut.
Fresh(m, o) == Price(m) = Ask(o) /\ IsWhole(m.requesting)

\* The orders an execution has to do with.
Busy == exec.taker \cup ToSet(exec.leftovers) \cup exec.unsaved \cup IdsIn(exec.matchs)

\* It meets no order of the other side.
Beyond(o) ==
  IF order[o].side = "buy" THEN Price(order[o]) < market.sell ELSE Price(order[o]) > market.buy

TakerIsWhole == \E j \in DOMAIN exec.matchs : exec.matchs[j][2] = Whole(Taker)
Doubled ==
  \E i, j \in DOMAIN exec.matchs :
    i # j /\ exec.matchs[i][2] = exec.matchs[j][2] /\ exec.matchs[i][2].part = {}

\* An order waits once, and not while it is in the book or executed.
OnceOK ==
  /\ Distinct(born) /\ Distinct(boot) /\ Distinct(pending)
  /\ \A o \in ToSet(born) : adding[o] # "off"
  /\ Waiting \cap (In(market) \cup Busy) = {}
  /\ ToSet(pending) \cap ToSet(boot) = {}

\* What is executed is out of the book until the loop ends.
LoopOnce ==
  exec.pc = "loop" =>
    /\ In(market) \cap Busy = {}
    /\ Distinct(exec.leftovers) /\ Taker \notin ToSet(exec.leftovers)

DocsOK ==
  \A o \in Order : adding[o] # "done" \/ doc[o].status = "ready" => Fresh(InMemory(doc[o]), o)
WaitOK ==
  \A o \in Order : adding[o] # "done" \/ o \in Waiting => Fresh(order[o], o)
SaveOK == \A o \in exec.unsaved \ WholesMatched : Price(order[o]) = Ask(o)

AsksOK ==
  \A o \in In(market) : Price(order[o]) = Ask(o) /\ (o \notin exec.unsaved => IsWhole(order[o].requesting))
BookOK == exec.pc # "failed" => Sound(market, order) /\ AsksOK

\* A maker is split only for the last of the taker, which is then matched as a
\* whole; the rest of the maker has its place in the book.
TakeOK ==
  exec.pc = "loop" =>
    /\ exec.leftovers # <<>> => TakerIsWhole
    /\ \A o \in ToSet(exec.leftovers) :
         order[o].side # order[Taker].side /\ Beyond(o) /\ Price(order[o]) = Ask(o)
    /\ ~TakerIsWhole => order[Taker].owning = exec.remaining
    /\ exec.remaining > 0 => Price(order[Taker]) = Ask(Taker)

\* No match is past a limit, but in an execution whose saves will throw.
LimitOK(m) == Within(asked[m.id], Amounts(m))
MatchOK ==
  /\ exec.pc = "loop" => Doubled \/ \A m \in Matched : LimitOK(m)
  /\ exec.pc = "trading" => \A m \in Matched : LimitOK(m)

SoundInv ==
  /\ OnceOK /\ LoopOnce
  /\ DocsOK /\ WaitOK /\ SaveOK
  /\ BookOK /\ TakeOK /\ MatchOK

-----------------------------------------------------------------------------
(* The steps that leave the memory of the market alone. *)

LEMMA MatchedKept ==
  ASSUME exec'.matchs = exec.matchs
  PROVE  Matched' = Matched /\ WholesMatched' = WholesMatched /\ (Doubled' <=> Doubled)
<1>1. Matched' = Matched /\ (Doubled' <=> Doubled)
  BY DEF Matched, Doubled
<1> QED
  BY <1>1, WholesKept

LEMMA LimitKept ==
  ASSUME NEW m, asked' = asked, order'[m.id] = order[m.id]
  PROVE  LimitOK(m)' <=> LimitOK(m)
BY DEF LimitOK, Amounts

LEMMA ExecSame ==
  ASSUME exec' = exec
  PROVE  /\ Busy' = Busy /\ Taker' = Taker /\ (TakerIsWhole' <=> TakerIsWhole)
         /\ Matched' = Matched /\ WholesMatched' = WholesMatched /\ (Doubled' <=> Doubled)
BY MatchedKept DEF Busy, Taker, TakerIsWhole

\* The conditions on the orders in memory, when only the calls of users go on.
LEMMA MemorySame ==
  ASSUME SoundInv, asked' = asked, order' = order, market' = market, exec' = exec,
         pending' = pending, boot' = boot
  PROVE  /\ In(market)' = In(market) /\ Waiting' = Waiting /\ Busy' = Busy
         /\ LoopOnce' /\ SaveOK' /\ BookOK' /\ TakeOK' /\ MatchOK'
<1>1. /\ Busy' = Busy /\ Taker' = Taker /\ (TakerIsWhole' <=> TakerIsWhole)
      /\ Matched' = Matched /\ WholesMatched' = WholesMatched /\ (Doubled' <=> Doubled)
  BY ExecSame
<1>2. In(market)' = In(market) /\ Waiting' = Waiting
  BY DEF In, Waiting
<1>3. LoopOnce' /\ SaveOK'
  BY <1>1, <1>2 DEF SoundInv, LoopOnce, SaveOK, Ask
<1>4. BookOK'
  BY <1>2 DEF SoundInv, BookOK, AsksOK, Ask
<1>5. TakeOK'
  BY <1>1 DEF SoundInv, TakeOK, Beyond, Ask
<1>6. MatchOK'
  BY <1>1 DEF SoundInv, MatchOK, LimitOK, Amounts
<1> QED
  BY <1>1, <1>2, <1>3, <1>4, <1>5, <1>6

LEMMA CallSound ==
  ASSUME SoundInv, asked' = asked, order' = order, market' = market, exec' = exec,
         pending' = pending, boot' = boot,
         Distinct(born'), \A o \in ToSet(born') : adding'[o] # "off",
         \A o \in Order : /\ InMemory(doc[o])' = InMemory(doc[o])
                          /\ adding'[o] # "done" => adding[o] # "done"
                          /\ doc'[o].status = "ready" => doc[o].status = "ready" \/ adding[o] # "done"
  PROVE  SoundInv'
<1>1. /\ In(market)' = In(market) /\ Waiting' = Waiting /\ Busy' = Busy
      /\ LoopOnce' /\ SaveOK' /\ BookOK' /\ TakeOK' /\ MatchOK'
  BY MemorySame
<1>2. OnceOK'
  BY <1>1 DEF SoundInv, OnceOK
<1>3. DocsOK'
  <2> SUFFICES ASSUME NEW o \in Order, adding'[o] # "done" \/ doc'[o].status = "ready"
               PROVE  Fresh(InMemory(doc[o]), o)'
    BY DEF DocsOK
  <2>1. Fresh(InMemory(doc[o]), o)
    BY DEF SoundInv, DocsOK
  <2> QED
    BY <2>1 DEF Fresh, Ask
<1>4. WaitOK'
  BY <1>1 DEF SoundInv, WaitOK, Fresh, Ask
<1> QED
  BY <1>1, <1>2, <1>3, <1>4 DEF SoundInv

LEMMA CallsSound ==
  ASSUME Types, SoundInv, NEW o \in Order,
         Prepare(o) \/ Lock(o) \/ SetReady(o) \/ RemoveFind(o) \/ RemoveCommit(o) \/ RemoveAborts(o)
  PROVE  SoundInv'
<1>0. /\ doc \in [Order -> Doc] /\ adding \in [Order -> AddPc] /\ born \in Seq(Order)
  BY DEF Types, RecordTypes
<1>1. UNCHANGED <<asked, order, market, exec, pending, boot>>
  BY DEF Prepare, Lock, SetReady, RemoveFind, RemoveCommit, RemoveAborts, memory, database
<1>2. \A p \in Order : p # o => doc'[p] = doc[p] /\ adding'[p] = adding[p]
  BY <1>0 DEF Prepare, Lock, SetReady, RemoveFind, RemoveCommit, RemoveAborts, memory, database
<1>3. /\ InMemory(doc'[o]) = InMemory(doc[o])
      /\ adding'[o] # "done" => adding[o] # "done"
      /\ doc'[o].status = "ready" => doc[o].status = "ready" \/ adding[o] # "done"
      /\ adding'[o] = "off" => adding[o] = "off"
  BY <1>0 DEF Prepare, Lock, SetReady, RemoveFind, RemoveCommit, RemoveAborts, memory, database, Doc, InMemory
<1>4. ToSet(born) \subseteq Order
  BY <1>0, ToSetIs
<1>5. Distinct(born') /\ \A p \in ToSet(born') : adding'[p] # "off"
  <2>1. Distinct(born) /\ \A p \in ToSet(born) : adding[p] # "off"
    BY DEF SoundInv, OnceOK
  <2>2. CASE Prepare(o)
    <3>1. born' = Append(born, o) /\ adding[o] = "off" /\ adding'[o] = "preparing"
      BY <1>0, <2>2 DEF Prepare
    <3>2. Distinct(born') /\ ToSet(born') = ToSet(born) \cup {o}
      BY <1>0, <2>1, <3>1, AppendDistinct, AppendToSet
    <3> QED
      BY <1>2, <1>4, <2>1, <3>1, <3>2
  <2>3. CASE ~Prepare(o)
    <3>1. born' = born
      BY <2>3 DEF Lock, SetReady, RemoveFind, RemoveCommit, RemoveAborts, database
    <3> QED
      BY <1>2, <1>3, <1>4, <2>1, <3>1
  <2> QED
    BY <2>2, <2>3
<1>6. \A p \in Order : InMemory(doc[p])' = InMemory(doc[p])
  BY <1>2, <1>3 DEF InMemory
<1>7. \A p \in Order : /\ adding'[p] # "done" => adding[p] # "done"
                       /\ doc'[p].status = "ready" => doc[p].status = "ready" \/ adding[p] # "done"
  BY <1>2, <1>3
<1> QED
  BY <1>1, <1>5, <1>6, <1>7, CallSound

-----------------------------------------------------------------------------
(* Orders leave the book; executions fail and end. *)

LEMMA OnceKept ==
  ASSUME SoundInv, UNCHANGED <<born, adding, pending, boot>>,
         In(market)' \cup Busy' \subseteq In(market) \cup Busy
  PROVE  OnceOK' /\ Waiting' = Waiting
<1>1. Waiting' = Waiting
  BY DEF Waiting
<1> QED
  BY <1>1 DEF SoundInv, OnceOK

LEMMA DocsKept == ASSUME SoundInv, UNCHANGED <<asked, adding, doc>> PROVE DocsOK'
BY DEF SoundInv, DocsOK, Fresh, Ask

LEMMA WaitKept ==
  ASSUME SoundInv, UNCHANGED <<asked, adding>>, Waiting' = Waiting,
         \A o \in Order : adding[o] # "done" \/ o \in Waiting => order'[o] = order[o]
  PROVE  WaitOK'
BY DEF SoundInv, WaitOK, Fresh, Ask

LEMMA RemoveFromBookSound ==
  ASSUME Types, SoundInv, NEW o \in Order, RemoveFromBook(o)
  PROVE  SoundInv'
<1>0. /\ UNCHANGED <<asked, doc, born, adding, order, pending, exec, boot>>
      /\ exec.pc # "loop"
  BY DEF RemoveFromBook, Yielded, database
<1>1. BookTypes' /\ In(market)' \subseteq In(market)
  BY RemoveFromBookGives
<1>2. /\ Busy' = Busy /\ Matched' = Matched /\ WholesMatched' = WholesMatched
  BY <1>0, ExecSame
<1>3. OnceOK' /\ Waiting' = Waiting
  BY <1>0, <1>1, <1>2, OnceKept
<1>4. DocsOK' /\ WaitOK'
  BY <1>0, <1>3, DocsKept, WaitKept
<1>5. SaveOK'
  BY <1>0, <1>2 DEF SoundInv, SaveOK, Ask
<1>6. BookOK'
  <2> SUFFICES ASSUME exec'.pc # "failed" PROVE Sound(market', order) /\ AsksOK'
    BY <1>0 DEF BookOK
  <2>1. Sound(market, order) /\ AsksOK /\ market \in MarketType
    BY <1>0 DEF SoundInv, BookOK, Types, BookTypes
  <2>2. AsksOK'
    BY <1>0, <1>1, <2>1 DEF AsksOK, Ask
  <2> DEFINE price == Price(InMemory(removing[o].found))
             os == OrdersAt(market, price)
             i == CHOOSE i \in DOMAIN OrdersAt(market, price) : OrdersAt(market, price)[i] = o
  <2>3. CASE price \in Prices(market) /\ Contains(os, o)
    <3>1. market' = GetOrderFromIndex(market, price, i)
      BY <2>3 DEF RemoveFromBook
    <3>2. os \in Seq(Order)
      BY <2>1, <2>3, NodeIs
    <3>3. i \in 1 .. Len(os) /\ os[i] = o
      <4>1. \E j \in 1 .. Len(os) : os[j] = o
        BY <2>3 DEF Contains
      <4>2. DOMAIN os = 1 .. Len(os)
        BY <3>2, LenProperties
      <4> QED
        BY <4>1, <4>2
    <3> DEFINE n == market'
    <3> HIDE DEF price, i
    <3>4. Loses(market, n, price, i)
      BY <2>1, <2>3, <3>1, <3>3, TakeGives
    <3> HIDE DEF n
    <3>5. Sound(n, order)
      BY <2>1, <2>3, <3>3, <3>4, LosesSound
    <3> QED
      BY <2>2, <3>5 DEF n
  <2>4. CASE ~(price \in Prices(market) /\ Contains(os, o))
    BY <2>1, <2>2, <2>4 DEF RemoveFromBook
  <2> QED
    BY <2>3, <2>4
<1>7. LoopOnce' /\ TakeOK'
  BY <1>0 DEF LoopOnce, TakeOK
<1>8. MatchOK'
  BY <1>0, <1>2 DEF SoundInv, MatchOK, LimitOK, Amounts
<1> QED
  BY <1>3, <1>4, <1>5, <1>6, <1>7, <1>8 DEF SoundInv

\* An execution that fails: nothing more is claimed of its book.
LEMMA FailedSound ==
  ASSUME SoundInv, exec'.pc = "failed", UNCHANGED <<asked, doc, born, adding, pending, boot>>,
         In(market)' \cup Busy' \subseteq In(market) \cup Busy,
         \A o \in Order : adding[o] # "done" \/ o \in Waiting => order'[o] = order[o],
         SaveOK'
  PROVE  SoundInv'
<1>1. OnceOK' /\ Waiting' = Waiting
  BY OnceKept
<1>2. DocsOK' /\ WaitOK'
  BY <1>1, DocsKept, WaitKept
<1>3. LoopOnce' /\ BookOK' /\ TakeOK' /\ MatchOK'
  BY DEF LoopOnce, BookOK, TakeOK, MatchOK
<1> QED
  BY <1>1, <1>2, <1>3 DEF SoundInv

LEMMA FailIs ==
  ASSUME ExecTypes, Fail
  PROVE  /\ exec'.pc = "failed" /\ Busy' = Busy /\ exec'.unsaved = exec.unsaved
         /\ WholesMatched' = WholesMatched
<1>1. /\ exec'.pc = "failed" /\ exec'.taker = exec.taker /\ exec'.leftovers = exec.leftovers
      /\ exec'.unsaved = exec.unsaved /\ exec'.matchs = exec.matchs
  BY DEF ExecTypes, Exec, Fail
<1> QED
  BY <1>1, WholesKept DEF Busy

LEMMA TradeFailsSound ==
  ASSUME Types, SoundInv, TradeFails
  PROVE  SoundInv'
<1>0. /\ UNCHANGED <<asked, doc, born, adding, order, market, pending, boot>> /\ Fail
  BY DEF TradeFails, database
<1>1. /\ exec'.pc = "failed" /\ Busy' = Busy /\ exec'.unsaved = exec.unsaved
      /\ WholesMatched' = WholesMatched
  BY <1>0, FailIs DEF Types
<1>2. In(market)' = In(market)
  BY <1>0 DEF In
<1>3. SaveOK'
  BY <1>0, <1>1 DEF SoundInv, SaveOK, Ask
<1> QED
  BY <1>0, <1>1, <1>2, <1>3, FailedSound

LEMMA IdleSound ==
  ASSUME SoundInv, exec' = NoExec
  PROVE  Busy' = {} /\ LoopOnce' /\ SaveOK' /\ TakeOK' /\ MatchOK'
<1>1. /\ exec'.pc = "idle" /\ exec'.taker = {} /\ exec'.unsaved = {}
      /\ exec'.leftovers = <<>> /\ exec'.matchs = <<>>
  BY DEF NoExec
<1>2. ToSet(<<>>) = {} /\ IdsIn(<<>>) = {}
  BY EmptyToSet DEF IdsIn
<1> QED
  BY <1>1, <1>2 DEF Busy, LoopOnce, SaveOK, TakeOK, MatchOK

LEMMA EndExecSound ==
  ASSUME Types, SoundInv, EndExec
  PROVE  SoundInv'
<1>0. /\ UNCHANGED <<asked, doc, born, adding, order, market, pending, boot>>
      /\ exec' = NoExec /\ exec.pc = "trading" /\ exec.unsaved = {}
  BY DEF EndExec, database
<1>1. Busy' = {} /\ LoopOnce' /\ SaveOK' /\ TakeOK' /\ MatchOK'
  BY <1>0, IdleSound
<1>2. In(market)' = In(market) /\ exec'.unsaved = {}
  BY <1>0 DEF In, NoExec
<1>3. OnceOK' /\ Waiting' = Waiting
  BY <1>0, <1>1, <1>2, OnceKept
<1>4. DocsOK' /\ WaitOK'
  BY <1>0, <1>3, DocsKept, WaitKept
<1>5. BookOK'
  BY <1>0, <1>2 DEF SoundInv, BookOK, AsksOK, Ask
<1> QED
  BY <1>1, <1>3, <1>4, <1>5 DEF SoundInv

LEMMA TradeSound ==
  ASSUME Types, SoundInv, Trade
  PROVE  SoundInv'
<1>0. /\ UNCHANGED <<asked, born, adding, order, market, pending, boot>>
      /\ exec.pc = "trading" /\ exec.unsaved = {} /\ exec.matchs # <<>>
      /\ exec \in Exec /\ exec' = [exec EXCEPT !.matchs = Tail(exec.matchs)]
      /\ doc \in [Order -> Doc]
  BY DEF Trade, Trading, Types, ExecTypes, RecordTypes
<1>1. /\ exec'.pc = "trading" /\ exec'.taker = exec.taker /\ exec'.unsaved = {}
      /\ exec'.leftovers = exec.leftovers /\ exec'.matchs = Tail(exec.matchs)
  BY <1>0 DEF Exec
<1>2. /\ MatchesIn(Tail(exec.matchs)) \subseteq MatchesIn(exec.matchs)
      /\ IdsIn(Tail(exec.matchs)) \subseteq IdsIn(exec.matchs)
  <2> DEFINE s == exec.matchs
  <2>1. s \in Seq(Piece \X Piece) /\ s # <<>>
    BY <1>0 DEF Exec
  <2> HIDE DEF s
  <2>2. IdsIn(Tail(s)) \subseteq IdsIn(s)
    BY <2>1, IdsTail
  <2>3. ToSet(s) = {Head(s)} \cup ToSet(Tail(s))
    BY <2>1, TailToSet
  <2>4. MatchesIn(Tail(s)) \subseteq MatchesIn(s)
    BY <2>3 DEF ToSet, MatchesIn
  <2> QED
    BY <2>2, <2>4 DEF s
<1>3. Matched' \subseteq Matched
  <2> DEFINE sides(e) == {e[1], e[2]}
  <2>1. Matched = UNION {sides(e) : e \in MatchesIn(exec.matchs)}
    BY DEF Matched, MatchesIn
  <2>2. Matched' = UNION {sides(e) : e \in MatchesIn(Tail(exec.matchs))}
    BY <1>1 DEF Matched, MatchesIn
  <2> HIDE DEF sides
  <2> QED
    BY <1>2, <2>1, <2>2
<1>4. In(market)' = In(market)
  BY <1>0 DEF In
<1>5. Busy' \subseteq Busy
  BY <1>0, <1>1, <1>2 DEF Busy
<1>6. OnceOK' /\ Waiting' = Waiting
  BY <1>0, <1>4, <1>5, OnceKept
<1>7. WaitOK'
  BY <1>0, <1>6, WaitKept
<1>8. \A p \in Order : /\ InMemory(doc'[p]) = InMemory(doc[p])
                       /\ doc'[p].status = "ready" => doc[p].status = "ready"
  <2> DEFINE S == {m.id : m \in {n \in {exec.matchs[1][1], exec.matchs[1][2]} : n.part = {}}}
  <2>1. doc' = [p \in Order |-> IF p \in S THEN [doc[p] EXCEPT !.status = "none"] ELSE doc[p]]
    BY DEF Trade
  <2> HIDE DEF S
  <2> QED
    BY <1>0, <2>1 DEF Doc, InMemory
<1>9. DocsOK'
  BY <1>0, <1>8 DEF SoundInv, DocsOK, Fresh, Ask
<1>10. LoopOnce' /\ TakeOK' /\ SaveOK'
  BY <1>1 DEF LoopOnce, TakeOK, SaveOK
<1>11. BookOK'
  BY <1>0, <1>1, <1>4 DEF SoundInv, BookOK, AsksOK, Ask
<1>12. MatchOK'
  BY <1>0, <1>1, <1>3 DEF SoundInv, MatchOK, LimitOK, Amounts
<1> QED
  BY <1>6, <1>7, <1>9, <1>10, <1>11, <1>12 DEF SoundInv

LEMMA StutterSound ==
  ASSUME SoundInv, UNCHANGED vars
  PROVE  SoundInv'
<1>1. UNCHANGED <<asked, order, market, exec, pending, boot, born, adding, doc>>
  BY DEF vars, memory, database
<1>2. \A o \in Order : /\ InMemory(doc[o])' = InMemory(doc[o])
                       /\ adding'[o] # "done" => adding[o] # "done"
                       /\ doc'[o].status = "ready" => doc[o].status = "ready" \/ adding[o] # "done"
  BY <1>1
<1>3. Distinct(born') /\ \A o \in ToSet(born') : adding'[o] # "off"
  BY <1>1 DEF SoundInv, OnceOK
<1> QED
  BY <1>1, <1>2, <1>3, CallSound

LEMMA PriceTypes ==
  ASSUME OrderTypes, NEW o \in Order
  PROVE  /\ order[o] \in Memory /\ Price(order[o]) \in Nat /\ order[o].side \in Side
         /\ order[o].owning \in Nat /\ order[o].requesting \in Nat
BY PriceIs DEF OrderTypes, Memory

LEMMA TruncatedIs ==
  ASSUME NEW m \in Memory
  PROVE  /\ Truncated(m) \in Memory /\ Truncated(m).side = m.side
         /\ Truncated(m).owning = Truncate(m.owning)
         /\ Truncated(m).requesting = Truncate(m.requesting)
         /\ IsWhole(Truncated(m).requesting)
<1>1. m.owning \in Nat /\ m.requesting \in Nat /\ m.side \in Side
  BY DEF Memory
<1>2. IsWhole(Truncate(m.owning)) /\ IsWhole(Truncate(m.requesting))
  BY <1>1, TruncateIs
<1> DEFINE r == Truncated(m)
<1>3. r.owning = Truncate(m.owning) /\ r.requesting = Truncate(m.requesting) /\ r.side = m.side
  BY DEF Truncated, Memory
<1>4. Truncate(m.owning) \in Nat /\ Truncate(m.requesting) \in Nat
  BY <1>2 DEF IsWhole
<1>5. r \in Memory
  BY <1>4 DEF Truncated, Memory
<1> QED
  BY <1>2, <1>3, <1>5

\* What is saved keeps its price, and needs no cut any more; or the execution fails.
LEMMA SaveOrderSound ==
  ASSUME Types, BackedInv, SoundInv, SavesKeepPrices, NEW o \in Order, SaveOrder(o)
  PROVE  SoundInv'
<1>0. /\ UNCHANGED <<asked, born, adding, market, pending, boot>>
      /\ o \in exec.unsaved /\ exec \in Exec /\ doc \in [Order -> Doc] /\ order \in [Order -> Memory]
      /\ order' = [order EXCEPT ![o] = Truncated(order[o])]
      /\ exec.pc # "loop" /\ exec.pc # "idle"
  BY DEF SaveOrder, Types, ExecTypes, RecordTypes, OrderTypes, BackedInv, LoopOK
<1> DEFINE kept == Valid(o) /\ doc[o].status # "none"
<1>1. /\ exec'.taker = exec.taker /\ exec'.matchs = exec.matchs /\ exec'.leftovers = exec.leftovers
      /\ exec'.unsaved = exec.unsaved \ {o}
      /\ exec'.pc = IF kept THEN exec.pc ELSE "failed"
  BY <1>0 DEF SaveOrder, Exec
<1>2. /\ kept => doc' = [doc EXCEPT ![o] = Stored(SavedStatus(o), order'[o])]
      /\ ~kept => doc' = doc
  BY DEF SaveOrder
<1> DEFINE m == order[o]
<1>3. m \in Memory /\ order'[o] = Truncated(m) /\ \A p \in Order : p # o => order'[p] = order[p]
  BY <1>0
<1>4. /\ Truncated(m) \in Memory /\ Truncated(m).side = m.side /\ IsWhole(Truncated(m).requesting)
  <2> HIDE DEF m
  <2> QED
    BY <1>3, TruncatedIs
<1>5. kept => Price(order'[o]) = Price(order[o])
  BY <1>0, <1>3 DEF SavesKeepPrices
<1>6. o \notin WholesMatched => Price(order[o]) = Ask(o)
  BY <1>0 DEF SoundInv, SaveOK
<1>7. o \notin Waiting /\ adding[o] = "done"
  <2>1. o \in Busy
    BY <1>0 DEF Busy
  <2>2. o \in Places /\ AddedOK(o)
    BY <1>0 DEF Places, BackedInv
  <2> QED
    BY <2>1, <2>2 DEF SoundInv, OnceOK, AddedOK
<1> HIDE DEF kept, m
<1>8. /\ Matched' = Matched /\ WholesMatched' = WholesMatched
  BY <1>1, MatchedKept
<1>9. In(market)' = In(market) /\ Busy' \subseteq Busy
  BY <1>0, <1>1 DEF In, Busy
<1>10. OnceOK' /\ Waiting' = Waiting
  BY <1>0, <1>9, OnceKept
<1>11. WaitOK'
  BY <1>0, <1>3, <1>7, <1>10, WaitKept
<1>12. DocsOK'
  <2> SUFFICES ASSUME NEW p \in Order, adding'[p] # "done" \/ doc'[p].status = "ready"
               PROVE  Fresh(InMemory(doc[p]), p)'
    BY DEF DocsOK
  <2>1. CASE kept /\ p = o
    <3>1. doc'[o] = Stored(SavedStatus(o), order'[o])
      BY <1>0, <1>2, <2>1
    <3>2. SavedStatus(o) = "ready"
      BY <1>0, <1>7, <2>1, <3>1 DEF Stored
    <3>3. o \notin WholesMatched
      BY <3>2 DEF SavedStatus
    <3>4. InMemory(doc'[o]) = order'[o]
      BY <1>3, <1>4, <3>1 DEF InMemory, Stored, Memory
    <3>5. Price(order'[o]) = Ask(o)
      BY <1>5, <1>6, <2>1, <3>3
    <3> QED
      BY <1>0, <1>3, <1>4, <2>1, <3>4, <3>5 DEF Fresh, Ask
  <2>2. CASE ~(kept /\ p = o)
    <3>1. doc'[p] = doc[p]
      BY <1>0, <1>2, <2>2
    <3>2. Fresh(InMemory(doc[p]), p)
      BY <1>0, <3>1 DEF SoundInv, DocsOK
    <3> QED
      BY <1>0, <3>1, <3>2 DEF Fresh, Ask
  <2> QED
    BY <2>1, <2>2
<1>13. SaveOK'
  BY <1>0, <1>1, <1>3, <1>8 DEF SoundInv, SaveOK, Ask
<1>14. LoopOnce' /\ TakeOK'
  BY <1>0, <1>1 DEF LoopOnce, TakeOK
<1>15. CASE kept /\ exec.pc # "failed"
  <2>1. Sound(market, order) /\ AsksOK /\ market \in MarketType /\ In(market) \subseteq Order
    BY <1>15, InIs DEF SoundInv, BookOK, Types, BookTypes
  <2>2. \A p \in Order : Price(order'[p]) = Price(order[p]) /\ order'[p].side = order[p].side
    BY <1>3, <1>4, <1>5, <1>15 DEF m
  <2> DEFINE new == order'
  <2>3. Sound(market, new)
    <3>1. \A p \in In(market) : Price(new[p]) = Price(order[p]) /\ new[p].side = order[p].side
      BY <2>1, <2>2
    <3> HIDE DEF new
    <3> QED
      BY <2>1, <3>1, SoundKept
  <2>4. AsksOK'
    <3> SUFFICES ASSUME NEW p \in In(market)
                 PROVE  Price(order'[p]) = Ask(p) /\ (p \notin exec'.unsaved => IsWhole(order'[p].requesting))
      BY <1>0, <1>9 DEF AsksOK, Ask
    <3>1. CASE p = o
      BY <1>3, <1>4, <2>1, <2>2, <3>1 DEF AsksOK
    <3>2. CASE p # o
      BY <1>1, <1>3, <2>1, <3>2 DEF AsksOK
    <3> QED
      BY <3>1, <3>2
  <2>5. BookOK'
    BY <1>0, <2>3, <2>4 DEF BookOK
  <2>6. MatchOK'
    <3> SUFFICES ASSUME exec.pc = "trading", NEW w \in Matched PROVE LimitOK(w)'
      BY <1>0, <1>1, <1>8, <1>15 DEF MatchOK
    <3>1. LimitOK(w)
      BY DEF SoundInv, MatchOK
    <3>2. CASE w.part # {} \/ w.id # o
      <4>1. Amounts(w)' = Amounts(w)
        BY <1>0, <3>2 DEF Amounts
      <4> QED
        BY <1>0, <3>1, <4>1 DEF LimitOK
    <3>3. CASE w.part = {} /\ w.id = o
      <4>1. Amounts(w)' = order'[o] /\ Amounts(w) = order[o]
        BY <3>3 DEF Amounts
      <4> QED
        BY <1>0, <2>2, <3>1, <3>3, <4>1 DEF LimitOK, Within
    <3> QED
      BY <3>2, <3>3
  <2> QED
    BY <1>10, <1>11, <1>12, <1>13, <1>14, <2>5, <2>6 DEF SoundInv
<1>16. CASE ~(kept /\ exec.pc # "failed")
  <2>1. exec'.pc = "failed"
    BY <1>1, <1>16
  <2>2. BookOK' /\ MatchOK'
    BY <2>1 DEF BookOK, MatchOK
  <2> QED
    BY <1>10, <1>11, <1>12, <1>13, <1>14, <2>2 DEF SoundInv
<1> QED
  BY <1>15, <1>16

-----------------------------------------------------------------------------
(* Orders come.                                                              *)

\* What every order asks has a price (order.ts does not look at it: an order to
\* sell for less than half a unit of price is at 0, where no node is a sell).
PricesArePositive == \A k \in Kinds : Price(k) > 0

LEMMA AskIs ==
  ASSUME PricesArePositive, RecordTypes, NEW o \in Order
  PROVE  Ask(o) \in Nat \ {0} /\ Ask(o) < Infinity
<1>1. asked[o] \in Kinds /\ asked[o] \in Memory /\ Price(asked[o]) < Infinity
  BY AskedIs DEF RecordTypes
<1>2. Price(asked[o]) \in Nat
  BY <1>1, PriceIs
<1> QED
  BY <1>1, <1>2 DEF Ask, PricesArePositive

\* A maker that meets no order of the other side.
LEMMA PushSound ==
  ASSUME PricesArePositive, Types, Sound(market, order), NEW o \in Order,
         Price(order[o]) = Ask(o), o \notin In(market), ~Crosses(o),
         market' = PushMaker(market, o, order[o].side, Price(order[o]))
  PROVE  Sound(market', order) /\ In(market)' = In(market) \cup {o}
<1> DEFINE n == market'
           side == order[o].side
           price == Price(order[o])
<1>0. market \in MarketType /\ market.buy \in Nat /\ market.sell \in Nat
  BY DEF Types, BookTypes, MarketType
<1>1. price \in Nat \ {0} /\ price < Infinity
  BY AskIs DEF Types
<1>2. n = PushMaker(market, o, side, price)
  OBVIOUS
<1>3. IF side = "buy" THEN price < market.sell ELSE price > market.buy
  BY <1>0, <1>1 DEF Crosses
<1>4. price = Price(order[o]) /\ side = order[o].side
  OBVIOUS
<1> HIDE DEF n, side, price
<1>5. Gets(market, n, o, side, price)
  BY <1>0, <1>1, <1>2, PlaceGives
<1>6. In(n) = In(market) \cup {o}
  BY <1>0, <1>1, <1>5, GetsIn
<1>7. Sound(n, order)
  BY <1>0, <1>1, <1>3, <1>4, <1>5, GetsSound
<1> QED
  BY <1>6, <1>7 DEF n, In

LEMMA BeginSound ==
  ASSUME PricesArePositive, Types, BackedInv, SoundInv, exec.pc = "idle",
         NEW o \in Order, Begin(o), Fresh(order[o], o), o \notin In(market),
         asked' = asked, order' = order
  PROVE  /\ In(market)' \subseteq In(market) \cup {o} /\ Busy' \subseteq Busy \cup {o}
         /\ LoopOnce' /\ SaveOK' /\ BookOK' /\ TakeOK' /\ MatchOK'
         /\ exec'.pc = "idle" => Busy' = Busy
<1>0. exec.unsaved = {} /\ Sound(market, order) /\ AsksOK
  BY DEF BackedInv, LoopOK, SoundInv, BookOK
<1>1. CASE Crosses(o)
  <2>1. market' = market
    BY <1>1 DEF Begin
  <2>2. exec' = [pc |-> "loop", taker |-> {o}, remaining |-> order[o].owning, matchs |-> <<>>,
                 leftovers |-> <<>>, unsaved |-> {}]
    BY <1>1 DEF Begin, NoExec
  <2>3. ToSet(<<>>) = {} /\ IdsIn(<<>>) = {} /\ DOMAIN <<>> = {} /\ Distinct(<<>>)
    BY EmptyToSet DEF IdsIn, Distinct
  <2>4. /\ exec'.pc = "loop" /\ exec'.taker = {o} /\ exec'.remaining = order[o].owning
        /\ exec'.matchs = <<>> /\ exec'.leftovers = <<>> /\ exec'.unsaved = {}
    BY <2>2
  <2>5. Busy' = {o} /\ Taker' = o /\ Matched' = {} /\ ~TakerIsWhole'
    BY <2>3, <2>4 DEF Busy, Taker, Matched, TakerIsWhole
  <2>6. In(market)' = In(market)
    BY <2>1 DEF In
  <2>7. LoopOnce' /\ SaveOK'
    BY <2>3, <2>4, <2>5, <2>6 DEF LoopOnce, SaveOK
  <2>8. BookOK'
    BY <1>0, <2>1, <2>4, <2>6 DEF BookOK, AsksOK, Ask
  <2>9. TakeOK'
    BY <2>3, <2>4, <2>5 DEF TakeOK, Fresh, Ask
  <2>10. MatchOK'
    BY <2>4, <2>5 DEF MatchOK
  <2> QED
    BY <2>4, <2>5, <2>6, <2>7, <2>8, <2>9, <2>10
<1>2. CASE ~Crosses(o)
  <2>1. market' = PushMaker(market, o, order[o].side, Price(order[o])) /\ exec' = exec
    BY <1>2 DEF Begin
  <2>2. Sound(market', order) /\ In(market)' = In(market) \cup {o}
    BY <1>0, <1>2, <2>1, PushSound DEF Fresh
  <2>3. Busy' = Busy
    BY <2>1, ExecSame
  <2>4. LoopOnce' /\ SaveOK' /\ TakeOK' /\ MatchOK'
    BY <1>0, <2>1 DEF LoopOnce, SaveOK, TakeOK, MatchOK
  <2>5. BookOK'
    BY <1>0, <2>1, <2>2 DEF BookOK, AsksOK, Fresh, Ask
  <2> QED
    BY <2>2, <2>3, <2>4, <2>5
<1> QED
  BY <1>1, <1>2

\* The conditions on the calls and the orders that wait, when one arrives.
LEMMA ArrivalKept ==
  ASSUME SoundInv, NEW o \in Order, UNCHANGED <<asked, doc, born, order>>, Fresh(order[o], o),
         Distinct(boot'), Distinct(pending'), ToSet(pending') \cap ToSet(boot') = {},
         Waiting' \subseteq Waiting \cup {o}, In(market)' \subseteq In(market) \cup {o},
         Busy' \subseteq Busy \cup {o}, o \notin Waiting' \/ o \notin In(market)' \cup Busy',
         o \notin In(market) \cup Busy \/ o \notin Waiting', Waiting' \ {o} \subseteq Waiting,
         \A p \in Order : /\ adding'[p] # "done" => adding[p] # "done"
                          /\ adding'[p] = "off" => adding[p] = "off",
         ToSet(born) \subseteq Order
  PROVE  OnceOK' /\ DocsOK' /\ WaitOK'
<1>1. Waiting \cap (In(market) \cup Busy) = {} /\ Distinct(born) /\ \A p \in ToSet(born) : adding[p] # "off"
  BY DEF SoundInv, OnceOK
<1>2. Waiting' \cap (In(market)' \cup Busy') = {}
  BY <1>1
<1>3. OnceOK'
  BY <1>1, <1>2 DEF OnceOK
<1>4. DocsOK'
  BY DEF SoundInv, DocsOK, Fresh, Ask
<1>5. WaitOK'
  BY DEF SoundInv, WaitOK, Fresh, Ask
<1> QED
  BY <1>3, <1>4, <1>5

LEMMA AddToMarketSound ==
  ASSUME PricesArePositive, Types, BackedInv, SoundInv, NEW o \in Order, AddToMarket(o),
         UNCHANGED <<asked, doc, born, order>>, Fresh(order[o], o),
         o \notin In(market) \cup Busy \cup ToSet(pending),
         Distinct(boot'), ToSet(boot') \subseteq ToSet(boot) \ {o},
         \A p \in Order : /\ adding'[p] # "done" => adding[p] # "done"
                          /\ adding'[p] = "off" => adding[p] = "off"
  PROVE  SoundInv'
<1>0. /\ pending \in Seq(Order) /\ ToSet(born) \subseteq Order
      /\ Distinct(pending) /\ ToSet(pending) \cap ToSet(boot) = {}
  BY ToSetIs DEF Types, QueueTypes, RecordTypes, SoundInv, OnceOK
<1>1. CASE exec.pc = "idle"
  <2>1. Begin(o) /\ pending' = pending
    BY <1>1 DEF AddToMarket
  <2>2. /\ In(market)' \subseteq In(market) \cup {o} /\ Busy' \subseteq Busy \cup {o}
        /\ LoopOnce' /\ SaveOK' /\ BookOK' /\ TakeOK' /\ MatchOK'
    BY <1>1, <2>1, BeginSound
  <2>3. Waiting' \subseteq Waiting /\ o \notin Waiting' /\ ToSet(pending') \cap ToSet(boot') = {}
    BY <1>0, <2>1 DEF Waiting
  <2>4. OnceOK' /\ DocsOK' /\ WaitOK'
    BY <1>0, <2>1, <2>2, <2>3, ArrivalKept
  <2> QED
    BY <2>2, <2>4 DEF SoundInv
<1>2. CASE exec.pc # "idle"
  <2>1. pending' = Append(pending, o) /\ exec' = exec /\ market' = market
    BY <1>2 DEF AddToMarket
  <2>2. Distinct(pending') /\ ToSet(pending') = ToSet(pending) \cup {o}
    BY <1>0, <2>1, AppendDistinct, AppendToSet
  <2>3. In(market)' = In(market) /\ Busy' = Busy /\ LoopOnce' /\ SaveOK' /\ BookOK' /\ TakeOK' /\ MatchOK'
    <3>1. In(market)' = In(market)
      BY <2>1 DEF In
    <3>2. /\ Busy' = Busy /\ Taker' = Taker /\ (TakerIsWhole' <=> TakerIsWhole)
          /\ Matched' = Matched /\ WholesMatched' = WholesMatched /\ (Doubled' <=> Doubled)
      BY <2>1, ExecSame
    <3>3. LoopOnce' /\ SaveOK'
      BY <2>1, <3>1, <3>2 DEF SoundInv, LoopOnce, SaveOK, Ask
    <3>4. BookOK'
      BY <2>1, <3>1 DEF SoundInv, BookOK, AsksOK, Ask
    <3>5. TakeOK'
      BY <2>1, <3>2 DEF SoundInv, TakeOK, Beyond, Ask
    <3>6. MatchOK'
      BY <2>1, <3>2 DEF SoundInv, MatchOK, LimitOK, Amounts
    <3> QED
      BY <3>1, <3>2, <3>3, <3>4, <3>5, <3>6
  <2>4. /\ Waiting' \subseteq Waiting \cup {o} /\ Waiting' \ {o} \subseteq Waiting
        /\ ToSet(pending') \cap ToSet(boot') = {}
    BY <1>0, <2>2 DEF Waiting
  <2>5. OnceOK' /\ DocsOK' /\ WaitOK'
    BY <1>0, <2>2, <2>3, <2>4, ArrivalKept
  <2> QED
    BY <2>3, <2>5 DEF SoundInv
<1> QED
  BY <1>1, <1>2

LEMMA AddedSound ==
  ASSUME PricesArePositive, Types, BackedInv, SoundInv, NEW o \in Order, Added(o)
  PROVE  SoundInv'
<1>1. /\ AddToMarket(o) /\ adding[o] = "ready" /\ adding' = [adding EXCEPT ![o] = "done"]
      /\ UNCHANGED <<asked, doc, born, order, boot>> /\ adding \in [Order -> AddPc]
  BY DEF Added, database, Types, RecordTypes
<1>2. o \notin Places
  BY <1>1 DEF BackedInv, AddedOK
<1>3. o \notin In(market) \cup Busy \cup ToSet(pending) /\ o \notin ToSet(boot)
  BY <1>2 DEF Places, Busy
<1>4. Fresh(order[o], o) /\ Distinct(boot)
  BY <1>1 DEF SoundInv, WaitOK, OnceOK
<1>5. \A p \in Order : /\ adding'[p] # "done" => adding[p] # "done"
                       /\ adding'[p] = "off" => adding[p] = "off"
  BY <1>1
<1> QED
  BY <1>1, <1>3, <1>4, <1>5, AddToMarketSound

LEMMA BootSound ==
  ASSUME PricesArePositive, Types, BackedInv, SoundInv, Boot
  PROVE  SoundInv'
<1> DEFINE o == Head(boot)
<1>1. /\ AddToMarket(o) /\ boot # <<>> /\ boot' = Tail(boot) /\ adding' = adding
      /\ UNCHANGED <<asked, doc, born, order>> /\ boot \in Seq(Order)
  BY DEF Boot, database, Types, QueueTypes
<1>2. o \in Order /\ ToSet(boot) = {o} \cup ToSet(boot')
  BY <1>1, TailToSet
<1>3. Distinct(boot') /\ o \notin ToSet(boot')
  BY <1>1, TailDistinct DEF SoundInv, OnceOK
<1>4. o \in Waiting
  BY <1>2 DEF Waiting
<1>5. o \notin In(market) \cup Busy \cup ToSet(pending)
  BY <1>2, <1>4 DEF SoundInv, OnceOK
<1>6. Fresh(order[o], o)
  BY <1>2, <1>4 DEF SoundInv, WaitOK
<1> HIDE DEF o
<1> QED
  BY <1>1, <1>2, <1>3, <1>5, <1>6, AddToMarketSound

LEMMA NextPendingSound ==
  ASSUME PricesArePositive, Types, BackedInv, SoundInv, NextPending
  PROVE  SoundInv'
<1> DEFINE o == Head(pending)
<1>1. /\ Begin(o) /\ pending # <<>> /\ pending' = Tail(pending) /\ exec.pc = "idle"
      /\ UNCHANGED <<asked, doc, born, order, adding, boot>> /\ pending \in Seq(Order)
  BY DEF NextPending, database, Types, QueueTypes
<1>2. o \in Order /\ ToSet(pending) = {o} \cup ToSet(pending')
  BY <1>1, TailToSet
<1>3. Distinct(pending') /\ o \notin ToSet(pending')
  BY <1>1, TailDistinct DEF SoundInv, OnceOK
<1>4. o \in Waiting
  BY <1>2 DEF Waiting
<1>5. /\ o \notin In(market) \cup Busy \cup ToSet(boot) /\ Distinct(boot)
      /\ ToSet(pending) \cap ToSet(boot) = {}
  BY <1>2, <1>4 DEF SoundInv, OnceOK
<1>6. Fresh(order[o], o)
  BY <1>2, <1>4 DEF SoundInv, WaitOK
<1> HIDE DEF o
<1>7. /\ In(market)' \subseteq In(market) \cup {o} /\ Busy' \subseteq Busy \cup {o}
      /\ LoopOnce' /\ SaveOK' /\ BookOK' /\ TakeOK' /\ MatchOK'
  BY <1>1, <1>2, <1>5, <1>6, BeginSound
<1>8. Waiting' \subseteq Waiting /\ o \notin Waiting' /\ ToSet(pending') \cap ToSet(boot') = {}
  BY <1>1, <1>2, <1>3, <1>5 DEF Waiting
<1>9. ToSet(born) \subseteq Order
  BY ToSetIs DEF Types, RecordTypes
<1>10. OnceOK' /\ DocsOK' /\ WaitOK'
  BY <1>1, <1>2, <1>3, <1>5, <1>6, <1>7, <1>8, <1>9, ArrivalKept
<1> QED
  BY <1>7, <1>10 DEF SoundInv

-----------------------------------------------------------------------------
(* The server starts.                                                        *)

LEMMA BootstrappedDistinct ==
  ASSUME RecordTypes, Distinct(born)
  PROVE  Distinct(Bootstrapped)
<1> DEFINE N == Len(born)
           More(s, o) == IF doc[o].status = "ready" THEN <<o>> \o s ELSE s
           g == CHOOSE g : IsNewest(g)
           First(n) == {born[i] : i \in 1 .. n}
           Good(n) == g[n] \in Seq(Order) /\ ToSet(g[n]) \subseteq First(n) /\ Distinct(g[n])
           Bad == {n \in 0 .. N : ~Good(n)}
<1>1. N \in Nat /\ \A n \in 1 .. N : born[n] \in Order
  BY LenProperties, ElementOfSeq DEF RecordTypes
<1>2. IsNewest(g)
  BY NewestExists
<1>3. g = [n \in 0 .. N |-> IF n = 0 THEN <<>> ELSE More(g[n - 1], born[n])]
  BY <1>2 DEF IsNewest
<1>4. g[N] = Bootstrapped
  BY BootstrappedIsChosen
<1> HIDE DEF g
<1>5. Good(0)
  <2>1. g[0] = <<>> /\ Distinct(<<>>)
    BY <1>1, <1>3 DEF Distinct
  <2> QED
    BY <2>1, EmptyToSet
<1>6. ASSUME NEW n \in 1 .. N, Good(n - 1) PROVE Good(n)
  <2>1. n \in 0 .. N /\ n # 0 /\ n - 1 \in 0 .. N
    BY <1>1
  <2>2. g[n] = More(g[n - 1], born[n])
    <3> HIDE DEF More
    <3> QED
      BY <2>1, <1>3
  <2>3. First(n) = First(n - 1) \cup {born[n]}
    BY <1>1
  <2>4. born[n] \notin First(n - 1)
    <3> SUFFICES ASSUME NEW i \in 1 .. n - 1, born[i] = born[n] PROVE FALSE
      OBVIOUS
    <3>1. i \in 1 .. N /\ i # n
      BY <1>1
    <3> QED
      BY <3>1 DEF Distinct
  <2> HIDE DEF First
  <2>5. CASE doc[born[n]].status = "ready"
    <3>1. g[n] = <<born[n]>> \o g[n - 1]
      BY <2>2, <2>5
    <3>2. g[n] \in Seq(Order) /\ ToSet(g[n]) = {born[n]} \cup ToSet(g[n - 1])
      BY <3>1, <1>1, <1>6, ConsToSet
    <3>3. Distinct(g[n])
      BY <3>1, <1>1, <1>6, <2>4, ConsDistinct
    <3> QED
      BY <3>2, <3>3, <1>6, <2>3
  <2>6. CASE doc[born[n]].status # "ready"
    BY <2>2, <2>3, <2>6, <1>6
  <2> QED
    BY <2>5, <2>6
<1> HIDE DEF Good
<1>7. ASSUME Bad # {} PROVE FALSE
  <2>1. PICK n \in Bad : \A k \in Bad : n =< k
    <3>1. Bad \in SUBSET Nat
      BY <1>1
    <3> HIDE DEF Bad
    <3> QED
      BY <1>7, <3>1, LeastNumber
  <2>2. n \in 0 .. N /\ ~Good(n) /\ n # 0
    BY <2>1, <1>5
  <2>3. n - 1 \in 0 .. N /\ ~(n =< n - 1) /\ n \in 1 .. N
    BY <2>2, <1>1
  <2>4. n - 1 \notin Bad
    <3> HIDE DEF Bad
    <3> QED
      BY <2>1, <2>3
  <2> QED
    BY <2>2, <2>3, <2>4, <1>6
<1>8. Good(N)
  BY <1>1, <1>7
<1> QED
  BY <1>4, <1>8 DEF Good

LEMMA EmptySound ==
  ASSUME market' = NoMarket, exec' = NoExec
  PROVE  In(market)' = {} /\ Busy' = {} /\ LoopOnce' /\ SaveOK' /\ BookOK' /\ TakeOK' /\ MatchOK'
<1>1. /\ exec'.pc = "idle" /\ exec'.taker = {} /\ exec'.unsaved = {}
      /\ exec'.leftovers = <<>> /\ exec'.matchs = <<>>
  BY DEF NoExec
<1>2. ToSet(<<>>) = {} /\ IdsIn(<<>>) = {}
  BY EmptyToSet DEF IdsIn
<1>3. \A ord : Sound(NoMarket, ord) /\ In(NoMarket) = {}
  BY NoMarketSound
<1>4. In(market') = {} /\ Sound(market', order')
  BY <1>3
<1>5. In(market)' = {}
  BY <1>4 DEF In
<1>6. BookOK'
  BY <1>4, <1>5 DEF BookOK, AsksOK
<1> QED
  BY <1>1, <1>2, <1>5, <1>6 DEF Busy, LoopOnce, SaveOK, TakeOK, MatchOK

LEMMA RestartSound ==
  ASSUME Types, SoundInv, Restart
  PROVE  SoundInv'
<1>1. /\ UNCHANGED <<asked, doc, born>> /\ market' = NoMarket /\ exec' = NoExec
      /\ pending' = <<>> /\ boot' = Bootstrapped
      /\ \A o \in Order : /\ order'[o] = InMemory(doc[o])
                          /\ adding'[o] = IF adding[o] = "off" THEN "off" ELSE "done"
  BY DEF Restart, database
<1>2. In(market)' = {} /\ Busy' = {} /\ LoopOnce' /\ SaveOK' /\ BookOK' /\ TakeOK' /\ MatchOK'
  BY <1>1, EmptySound
<1>3. /\ Distinct(born) /\ ToSet(born) \subseteq Order /\ RecordTypes
      /\ \A o \in ToSet(born) : adding[o] # "off"
  BY ToSetIs DEF SoundInv, OnceOK, Types, RecordTypes
<1>4. /\ Distinct(Bootstrapped) /\ \A o \in ToSet(Bootstrapped) : doc[o].status = "ready"
  BY <1>3, BootstrappedDistinct, BootstrappedGives
<1>5. Distinct(<<>>) /\ ToSet(<<>>) = {}
  BY EmptyToSet DEF Distinct
<1>6. Waiting' = ToSet(Bootstrapped)
  BY <1>1, <1>5 DEF Waiting
<1>7. OnceOK'
  BY <1>1, <1>2, <1>3, <1>4, <1>5, <1>6 DEF OnceOK
<1>8. DocsOK'
  BY <1>1 DEF SoundInv, DocsOK, Fresh, Ask
<1>9. WaitOK'
  <2> SUFFICES ASSUME NEW o \in Order, adding'[o] # "done" \/ o \in Waiting'
               PROVE  Fresh(order[o], o)'
    BY DEF WaitOK
  <2>1. adding[o] # "done" \/ doc[o].status = "ready"
    BY <1>1, <1>4, <1>6
  <2>2. Fresh(InMemory(doc[o]), o)
    BY <2>1 DEF SoundInv, DocsOK
  <2> QED
    BY <1>1, <2>2 DEF Fresh, Ask
<1> QED
  BY <1>2, <1>7, <1>8, <1>9 DEF SoundInv

LEMMA InitSound == Init => SoundInv
<1> SUFFICES ASSUME Init PROVE SoundInv
  OBVIOUS
<1>1. /\ exec = NoExec /\ market = NoMarket /\ pending = <<>> /\ boot = <<>> /\ born = <<>>
      /\ order = asked /\ doc = [o \in Order |-> Stored("none", asked[o])] /\ RecordTypes
  BY InitTypes DEF Init, Types
<1>2. /\ exec.pc = "idle" /\ exec.taker = {} /\ exec.unsaved = {}
      /\ exec.leftovers = <<>> /\ exec.matchs = <<>>
  BY <1>1 DEF NoExec
<1>3. ToSet(<<>>) = {} /\ IdsIn(<<>>) = {} /\ Distinct(<<>>)
  BY EmptyToSet DEF IdsIn, Distinct
<1>4. Sound(market, order) /\ In(market) = {}
  BY <1>1, NoMarketSound
<1>5. OnceOK /\ LoopOnce
  BY <1>1, <1>2, <1>3, <1>4 DEF OnceOK, LoopOnce, Waiting, Busy
<1>6. ASSUME NEW o \in Order PROVE Fresh(order[o], o) /\ Fresh(InMemory(doc[o]), o)
  <2>1. asked[o] \in Memory /\ IsWhole(asked[o].requesting)
    BY <1>1, AskedIs
  <2>2. InMemory(doc[o]) = asked[o]
    BY <1>1, <2>1 DEF InMemory, Stored, Memory
  <2> QED
    BY <1>1, <2>1, <2>2 DEF Fresh, Ask
<1>7. DocsOK /\ WaitOK
  BY <1>6 DEF DocsOK, WaitOK
<1>8. SaveOK /\ BookOK /\ TakeOK /\ MatchOK
  BY <1>2, <1>4 DEF SaveOK, BookOK, AsksOK, TakeOK, MatchOK
<1> QED
  BY <1>5, <1>7, <1>8 DEF SoundInv

-----------------------------------------------------------------------------
(* The taker is matched with the makers, the best first.                     *)

LEMMA MatchAdded ==
  ASSUME ExecTypes, NEW a \in Piece, NEW b \in Piece, exec'.taker = exec.taker,
         exec'.matchs = Append(exec.matchs, <<a, b>>)
  PROVE  /\ Matched' = Matched \cup {a, b}
         /\ IdsIn(exec'.matchs) = IdsIn(exec.matchs) \cup {a.id, b.id}
         /\ Taker' = Taker
         /\ Doubled => Doubled'
         /\ TakerIsWhole \/ b = Whole(Taker) => TakerIsWhole'
         /\ TakerIsWhole /\ b = Whole(Taker) => Doubled'
<1> DEFINE s == exec.matchs
           t == Append(s, <<a, b>>)
           n == Len(s)
           sides(e) == {e[1], e[2]}
<1>1. s \in Seq(Piece \X Piece)
  BY DEF ExecTypes, Exec
<1>2. /\ n \in Nat /\ DOMAIN s = 1 .. n /\ DOMAIN t = 1 .. n + 1
      /\ t[n + 1] = <<a, b>> /\ \A i \in 1 .. n : t[i] = s[i]
  <2> HIDE DEF s
  <2> QED
    BY <1>1, AppendProperties, LenProperties
<1>3. AddsMatch(s, t, a, b)
  <2> HIDE DEF s
  <2> QED
    BY <1>1, IdsAppend
<1>4. exec'.matchs = t /\ Taker' = Taker
  BY DEF Taker
<1> HIDE DEF t
<1>5. Matched = UNION {sides(e) : e \in MatchesIn(s)}
  BY DEF Matched, MatchesIn
<1>6. Matched' = UNION {sides(e) : e \in MatchesIn(t)}
  BY <1>4 DEF Matched, MatchesIn
<1>7. sides(<<a, b>>) = {a, b}
  OBVIOUS
<1>8. Matched' = Matched \cup {a, b}
  <2> HIDE DEF sides, s
  <2> QED
    BY <1>3, <1>5, <1>6, <1>7 DEF AddsMatch
<1>9. \A i \in 1 .. n : i \in DOMAIN t /\ i # n + 1
  BY <1>2
<1>10. n + 1 \in DOMAIN t /\ t[n + 1][2] = b
  BY <1>2
<1>11. Doubled => Doubled'
  <2> SUFFICES ASSUME NEW i \in 1 .. n, NEW j \in 1 .. n, i # j, s[i][2] = s[j][2], s[i][2].part = {}
               PROVE  Doubled'
    BY <1>2 DEF Doubled
  <2> QED
    BY <1>2, <1>4, <1>9 DEF Doubled
<1>12. TakerIsWhole \/ b = Whole(Taker) => TakerIsWhole'
  <2>1. TakerIsWhole => \E i \in 1 .. n : t[i][2] = Whole(Taker) /\ i \in DOMAIN t
    BY <1>2, <1>9 DEF TakerIsWhole
  <2> QED
    BY <1>4, <1>10, <2>1 DEF TakerIsWhole
<1>13. TakerIsWhole /\ b = Whole(Taker) => Doubled'
  <2> SUFFICES ASSUME NEW i \in 1 .. n, s[i][2] = Whole(Taker), b = Whole(Taker)
               PROVE  Doubled'
    BY <1>2 DEF TakerIsWhole
  <2>1. t[i][2] = t[n + 1][2] /\ t[i][2].part = {} /\ i \in DOMAIN t /\ n + 1 \in DOMAIN t /\ i # n + 1
    BY <1>2, <1>9, <1>10 DEF Whole
  <2> QED
    BY <1>4, <2>1 DEF Doubled
<1> HIDE DEF s
<1> QED
  BY <1>3, <1>4, <1>8, <1>11, <1>12, <1>13 DEF AddsMatch, s

\* The maker is the first at the best price of the other side, within the limit of
\* the taker, and the side of the taker keeps its best price when it leaves.
LEMMA MakerTaken ==
  ASSUME Types, BackedInv, SoundInv, Matching, TakeMaker
  PROVE  /\ Sound(market', order) /\ Maker \notin In(market)' /\ In(market)' \subseteq In(market)
         /\ Maker \in In(market) /\ Maker \in Order /\ Taker \in Order /\ exec.taker = {Taker}
         /\ Maker \notin Busy /\ Taker \in Busy /\ Taker \notin In(market) /\ exec.unsaved = {}
         /\ order[Maker].side # order[Taker].side
         /\ Price(order[Maker]) = Ask(Maker) /\ IsWhole(order[Maker].requesting)
         /\ Price(order[Taker]) = Ask(Taker)
         /\ IF order[Taker].side = "buy"
            THEN /\ Price(order[Maker]) =< Ask(Taker)
                 /\ market'.buy = market.buy /\ Price(order[Maker]) > market.buy
            ELSE /\ Price(order[Maker]) >= Ask(Taker)
                 /\ market'.sell = market.sell /\ Price(order[Maker]) < market.sell
<1>0. /\ market \in MarketType /\ OrderTypes /\ exec.pc = "loop" /\ exec.unsaved = {}
      /\ Sound(market, order) /\ AsksOK /\ TakeOK /\ LoopOnce
      /\ market.buy \in Nat /\ market.sell \in Nat
  BY DEF Types, BookTypes, MarketType, Matching, BackedInv, LoopOK, SoundInv, BookOK
<1> DEFINE n == market'
           price == TakerPrice
           os == OrdersAt(market, price)
<1>1. /\ exec.taker = {Taker} /\ Taker \in Order /\ exec.remaining \in Nat \ {0}
      /\ price \in Prices(market) /\ Maker \in Order /\ Maker = os[1] /\ 1 \in 1 .. Len(os)
      /\ Loses(market, n, price, 1)
  BY MatchingIs DEF TakeMaker
<1>2. Maker \in In(market) /\ In(market)' \subseteq In(market)
  BY TakeMakerGives
<1>3. Taker \in Busy /\ Taker \notin In(market) /\ Maker \notin Busy
  BY <1>0, <1>1, <1>2 DEF Busy, LoopOnce
<1>4. Price(order[Taker]) = Ask(Taker)
  BY <1>0, <1>1 DEF TakeOK
<1>5. Price(order[Maker]) = Ask(Maker) /\ IsWhole(order[Maker].requesting)
  BY <1>0, <1>2 DEF AsksOK
<1>6. IF order[Taker].side = "buy" THEN price = market.sell /\ price =< Price(order[Taker])
                                   ELSE price = market.buy /\ price >= Price(order[Taker])
  BY DEF Matching, MakersLeft, TakerPrice
<1> HIDE DEF price
<1>7. Sound(n, order) /\ Maker \notin In(n)
  <2> HIDE DEF n
  <2> QED
    BY <1>0, <1>1, LosesSound
<1>8. Maker \notin In(market)'
  BY <1>7 DEF In
<1>9. Price(order[Maker]) = price /\ (order[Maker].side = "buy" <=> price =< market.buy)
  <2>1. /\ NodeAt(market, price) \in 1 .. Len(market.book) /\ os = market.book[NodeAt(market, price)].orders
        /\ market.book[NodeAt(market, price)].price = price /\ os \in Seq(Order)
    BY <1>0, <1>1, NodeIs
  <2>2. NodeOK(market.book[NodeAt(market, price)], market.buy, market.sell, order)
    BY <1>0, <2>1 DEF Sound
  <2>3. Maker \in ToSet(os)
    BY <1>1, <2>1, ToSetIs
  <2> QED
    BY <2>1, <2>2, <2>3 DEF NodeOK
<1>10. market.buy < market.sell
  BY <1>0 DEF Sound
<1>11. /\ price = market.buy => n.sell = market.sell
       /\ price # market.buy => n.buy = market.buy
  <2>1. PICK k \in 1 .. Len(market.book) :
          /\ market.book[k].price = price
          /\ Shrinks(market, n, k, 1) \/ Closes(market, n, k, 1)
    BY <1>1 DEF Loses
  <2> HIDE DEF n
  <2> QED
    BY <2>1 DEF Shrinks, Closes
<1>12. order[Maker].side # order[Taker].side
  BY <1>0, <1>1, <1>6, <1>9, <1>10
<1>13. IF order[Taker].side = "buy"
       THEN /\ Price(order[Maker]) =< Ask(Taker)
            /\ n.buy = market.buy /\ Price(order[Maker]) > market.buy
       ELSE /\ Price(order[Maker]) >= Ask(Taker)
            /\ n.sell = market.sell /\ Price(order[Maker]) < market.sell
  BY <1>0, <1>4, <1>6, <1>9, <1>10, <1>11
<1> QED
  BY <1>0, <1>1, <1>2, <1>3, <1>4, <1>5, <1>7, <1>8, <1>12, <1>13

LEMMA RoundUnitWhole ==
  ASSUME NEW n, IsWhole(n)
  PROVE  RoundUnit(n) = n
<1>1. Unit \in Nat \ {0} /\ n \in Nat
  BY UnitAssumption DEF IsWhole
<1> DEFINE h == Unit \div 2
           x == n + h
<1>2. h \in Nat /\ h < Unit
  <2>1. Unit % 2 \in 0 .. 1 /\ h \in Int /\ Unit = 2 * h + (Unit % 2)
    BY <1>1, Divided
  <2> QED
    BY <1>1, <2>1
<1> HIDE DEF h
<1>3. x \in Nat
  BY <1>1, <1>2
<1>4. IsWhole(Truncate(x)) /\ Truncate(x) =< x /\ x - Truncate(x) < Unit
  BY <1>3, TruncateIs
<1>5. PICK p \in Nat : n = Unit * p
  BY <1>1, WholeIs
<1>6. PICK q \in Nat : Truncate(x) = Unit * q
  BY <1>4, WholeIs DEF IsWhole
<1>7. q =< p
  <2> SUFFICES ASSUME ~(q =< p) PROVE FALSE
    OBVIOUS
  <2>1. Unit * (q - p) >= Unit
    BY <1>1
  <2>2. Unit * q - Unit * p < Unit
    BY <1>1, <1>2, <1>4, <1>5, <1>6
  <2> QED
    BY <2>1, <2>2, <1>1
<1>8. p =< q
  <2> SUFFICES ASSUME ~(p =< q) PROVE FALSE
    OBVIOUS
  <2>1. Unit * (p - q) >= Unit
    BY <1>1
  <2>2. Unit * p - Unit * q < Unit
    BY <1>1, <1>2, <1>4, <1>5, <1>6
  <2> QED
    BY <2>1, <2>2, <1>1
<1>9. RoundUnit(n) = Truncate(x) /\ p = q
  BY <1>7, <1>8 DEF RoundUnit, h
<1> QED
  BY <1>5, <1>6, <1>9

\* A match is added: what is left is in its place, and no match is past a limit,
\* unless the taker is matched as a whole once more.
LEMMA MatchSound ==
  ASSUME Types, BackedInv, SoundInv, Matching, TakeMaker, NEW a \in Piece, NEW b \in Piece,
         UNCHANGED <<asked, doc, born, adding, pending, boot>>,
         exec'.pc = "loop", exec'.taker = exec.taker, exec'.unsaved = exec.unsaved,
         exec'.matchs = Append(exec.matchs, <<a, b>>), {a.id, b.id} \subseteq {Maker, Taker},
         \/ exec'.leftovers = exec.leftovers
         \/ exec'.leftovers = Append(exec.leftovers, Maker) /\ b = Whole(Taker),
         \A p \in Order : /\ order'[p].side = order[p].side
                          /\ (p \notin {Maker, Taker} => order'[p] = order[p]),
         Price(order'[Maker]) = Price(order[Maker]),
         exec'.remaining > 0 => Price(order'[Taker]) = Price(order[Taker]),
         Price(order'[Taker]) = Price(order[Taker]) \/ Within(asked[Taker], order'[Taker]) \/ Doubled',
         LimitOK(a)' \/ Doubled', LimitOK(b)' \/ Doubled',
         b = Whole(Taker) \/ (~TakerIsWhole => order'[Taker].owning = exec'.remaining)
  PROVE  SoundInv'
<1>1. /\ Sound(market', order) /\ Maker \notin In(market)' /\ In(market)' \subseteq In(market)
      /\ Maker \in In(market) /\ Maker \in Order /\ Taker \in Order /\ exec.taker = {Taker}
      /\ Maker \notin Busy /\ Taker \in Busy /\ Taker \notin In(market) /\ exec.unsaved = {}
      /\ order[Maker].side # order[Taker].side
      /\ Price(order[Maker]) = Ask(Maker)
      /\ Price(order[Taker]) = Ask(Taker)
      /\ IF order[Taker].side = "buy"
         THEN market'.buy = market.buy /\ Price(order[Maker]) > market.buy
         ELSE market'.sell = market.sell /\ Price(order[Maker]) < market.sell
  BY MakerTaken
<1>2. /\ AsksOK /\ TakeOK /\ LoopOnce /\ MatchOK /\ exec.pc = "loop" /\ market \in MarketType
      /\ In(market) \subseteq Order /\ ExecTypes /\ exec.leftovers \in Seq(Order)
  BY InIs DEF Matching, SoundInv, BookOK, Types, BookTypes, ExecTypes, Exec
<1>3. /\ Matched' = Matched \cup {a, b}
      /\ IdsIn(exec'.matchs) = IdsIn(exec.matchs) \cup {a.id, b.id}
      /\ Taker' = Taker
      /\ Doubled => Doubled'
      /\ TakerIsWhole \/ b = Whole(Taker) => TakerIsWhole'
  BY <1>2, MatchAdded
<1>4. /\ \/ exec'.leftovers = exec.leftovers
         \/ ToSet(exec'.leftovers) = ToSet(exec.leftovers) \cup {Maker}
      /\ ToSet(exec.leftovers) \subseteq Busy /\ ToSet(exec.leftovers) \subseteq Order
  <2>1. ToSet(Append(exec.leftovers, Maker)) = ToSet(exec.leftovers) \cup {Maker}
    BY <1>1, <1>2, AppendToSet
  <2> QED
    BY <2>1, <1>2, ToSetIs DEF Busy
<1>5. Busy' \subseteq Busy \cup {Maker}
  BY <1>1, <1>3, <1>4 DEF Busy
<1>6. OnceOK' /\ Waiting' = Waiting
  BY <1>1, <1>5, OnceKept
<1>7. \A o \in Order : adding[o] # "done" \/ o \in Waiting => order'[o] = order[o]
  <2> SUFFICES ASSUME NEW o \in {Maker, Taker} PROVE adding[o] = "done" /\ o \notin Waiting
    OBVIOUS
  <2>1. o \in Places /\ o \in Order /\ AddedOK(o)
    BY <1>1 DEF Places, BackedInv
  <2> QED
    BY <1>1, <2>1 DEF AddedOK, SoundInv, OnceOK
<1>8. DocsOK' /\ WaitOK'
  BY <1>6, <1>7, DocsKept, WaitKept
<1>9. SaveOK'
  BY <1>1 DEF SaveOK
<1>10. LoopOnce'
  <2>1. In(market)' \cap Busy' = {}
    BY <1>1, <1>2, <1>5 DEF LoopOnce
  <2>2. Distinct(exec.leftovers) /\ Taker \notin ToSet(exec.leftovers) /\ Maker # Taker
    BY <1>1, <1>2 DEF LoopOnce
  <2>3. Distinct(exec'.leftovers)
    <3>1. Maker \notin ToSet(exec.leftovers)
      BY <1>1, <1>4
    <3>2. Distinct(Append(exec.leftovers, Maker))
      BY <1>1, <1>2, <2>2, <3>1, AppendDistinct
    <3> QED
      BY <2>2, <3>2
  <2>4. Taker \notin ToSet(exec'.leftovers)
    BY <1>4, <2>2
  <2> QED
    BY <1>3, <2>1, <2>3, <2>4 DEF LoopOnce
<1>11. BookOK'
  <2>1. \A o \in In(market)' : o \in Order /\ order'[o] = order[o]
    BY <1>1, <1>2
  <2> DEFINE n == market'
             new == order'
  <2>2. Sound(n, new)
    <3>1. n \in MarketType /\ In(n) = In(market)'
      BY TakeMakerGives DEF BookTypes, In
    <3>2. \A o \in In(n) : Price(new[o]) = Price(order[o]) /\ new[o].side = order[o].side
      BY <2>1, <3>1
    <3>3. Sound(n, order)
      BY <1>1
    <3> HIDE DEF n, new
    <3> QED
      BY <3>1, <3>2, <3>3, SoundKept
  <2>3. AsksOK'
    BY <1>1, <1>2, <2>1 DEF AsksOK, Ask
  <2> QED
    BY <2>2, <2>3 DEF BookOK
<1>12. TakeOK'
  <2>1. exec'.leftovers # <<>> => TakerIsWhole'
    BY <1>2, <1>3, <1>4 DEF TakeOK
  <2>2. ASSUME NEW o \in ToSet(exec'.leftovers)
        PROVE  order'[o].side # order'[Taker].side /\ Beyond(o)' /\ Price(order'[o]) = Ask(o)
    <3>1. CASE o = Maker
      <4>1. order[o].side \in Side /\ order[Taker].side \in Side /\ o \in Order
        BY <1>1, <3>1, PriceTypes DEF Types
      <4>2. order'[o].side = order[o].side /\ order'[Taker].side = order[Taker].side
        BY <1>1, <4>1
      <4>3. Price(order'[o]) = Price(order[o]) /\ Price(order[o]) = Ask(o)
        BY <1>1, <3>1
      <4>4. /\ order[o].side # order[Taker].side
            /\ IF order[Taker].side = "buy"
               THEN market'.buy = market.buy /\ Price(order[o]) > market.buy
               ELSE market'.sell = market.sell /\ Price(order[o]) < market.sell
        BY <1>1, <3>1
      <4>5. Beyond(o)'
        BY <4>1, <4>2, <4>3, <4>4 DEF Beyond, Side
      <4> QED
        BY <4>2, <4>3, <4>4, <4>5
    <3>2. CASE o # Maker
      <4>1. o \in ToSet(exec.leftovers) /\ o \in Order /\ o # Taker
        BY <1>2, <1>4, <2>2, <3>2 DEF LoopOnce
      <4>2. order[o].side # order[Taker].side /\ Beyond(o) /\ Price(order[o]) = Ask(o)
        BY <1>2, <4>1 DEF TakeOK
      <4>3. order'[o] = order[o] /\ order'[Taker].side = order[Taker].side
        BY <1>1, <3>2, <4>1
      <4>4. order[o].side \in Side /\ order[Taker].side \in Side
        BY <1>1, <4>1, PriceTypes DEF Types
      <4> QED
        BY <1>1, <4>2, <4>3, <4>4 DEF Beyond, Side
    <3> QED
      BY <3>1, <3>2
  <2>3. ~TakerIsWhole' => order'[Taker].owning = exec'.remaining
    BY <1>3
  <2>4. exec'.remaining > 0 => Price(order'[Taker]) = Ask(Taker)
    BY <1>1
  <2> QED
    BY <1>3, <2>1, <2>2, <2>3, <2>4 DEF TakeOK, Ask
<1>13. MatchOK'
  <2> SUFFICES ASSUME ~Doubled', NEW w \in Matched \cup {a, b} PROVE LimitOK(w)'
    BY <1>3 DEF MatchOK
  <2>1. CASE w \in {a, b}
    BY <2>1
  <2>2. CASE w \in Matched
    <3>1. LimitOK(w)
      BY <1>2, <1>3, <2>2 DEF MatchOK
    <3>2. w.id \in Order /\ w.id # Maker
      <4>1. w.id \in IdsIn(exec.matchs)
        <5>1. DOMAIN exec.matchs = 1 .. Len(exec.matchs)
          BY <1>2, LenProperties DEF ExecTypes, Exec
        <5> QED
          BY <2>2, <5>1 DEF Matched, IdsIn
      <4>2. w.id \in Busy
        BY <4>1 DEF Busy
      <4>3. w \in Piece
        <5>1. exec.matchs \in Seq(Piece \X Piece) /\ DOMAIN exec.matchs = 1 .. Len(exec.matchs)
          BY <1>2, LenProperties DEF ExecTypes, Exec
        <5>2. \A i \in DOMAIN exec.matchs : exec.matchs[i] \in Piece \X Piece
          BY <5>1, ElementOfSeq
        <5> QED
          BY <2>2, <5>2 DEF Matched
      <4> QED
        BY <1>1, <4>2, <4>3 DEF Piece
    <3>3. CASE w.part # {}
      BY <3>1, <3>3 DEF LimitOK, Amounts
    <3>4. CASE w.part = {} /\ w.id # Taker
      <4>1. order'[w.id] = order[w.id]
        BY <3>2, <3>4
      <4> QED
        BY <3>1, <4>1, LimitKept
    <3>5. CASE w.part = {} /\ w.id = Taker
      <4>1. Amounts(w) = order[Taker] /\ Amounts(w)' = order'[Taker]
        BY <3>5 DEF Amounts
      <4>2. Within(asked[Taker], order[Taker])
        BY <3>1, <3>5, <4>1 DEF LimitOK
      <4>3. Within(asked[Taker], order'[Taker])
        BY <4>2 DEF Within
      <4> QED
        BY <3>5, <4>1, <4>3 DEF LimitOK
    <3> QED
      BY <3>3, <3>4, <3>5
  <2> QED
    BY <2>1, <2>2
<1> QED
  BY <1>6, <1>8, <1>9, <1>10, <1>11, <1>12, <1>13 DEF SoundInv

LEMMA MatchFailSound ==
  ASSUME Types, BackedInv, SoundInv, Matching, TakeMaker, Fail,
         UNCHANGED <<asked, doc, born, adding, order, pending, boot>>
  PROVE  SoundInv'
<1>1. exec.unsaved = {} /\ ExecTypes
  BY DEF Matching, BackedInv, LoopOK, Types
<1>2. exec'.pc = "failed" /\ Busy' = Busy /\ exec'.unsaved = exec.unsaved
  BY <1>1, FailIs
<1>3. In(market)' \subseteq In(market)
  BY TakeMakerGives
<1>4. SaveOK'
  BY <1>1, <1>2 DEF SaveOK
<1> QED
  BY <1>2, <1>3, <1>4, FailedSound

LEMMA SplitPrices ==
  ASSUME NEW m \in Memory, IsWhole(m.owning), NEW o \in Nat, NEW r \in Nat, NEW target,
         CanSplit(m, o, r, target)
  PROVE  /\ Price(Rest(m, o, r)) = Price(m)
         /\ Price(Part(m, o, r)) = Price(m) \/ Price(Part(m, o, r)) = target
         /\ Rest(m, o, r).side = m.side /\ Part(m, o, r).side = m.side
         /\ Part(m, o, r) \in Memory
         /\ Rest(m, o, r).owning = m.owning - RoundUnit(o)
<1>1. /\ Rest(m, o, r).side = m.side /\ Part(m, o, r).side = m.side
      /\ Part(m, o, r) \in Memory
      /\ Rest(m, o, r).owning = m.owning - RoundUnit(o)
  BY SplitIs
<1> QED
  BY <1>1 DEF CanSplit

LEMMA AmountsOf ==
  /\ \A o : Amounts(Whole(o)) = order[o] /\ Whole(o).id = o
  /\ \A o, p : Amounts(PartOf(o, p)) = p /\ PartOf(o, p).id = o
  /\ \A o : Amounts(Whole(o))' = order'[o]
  /\ \A o, p : Amounts(PartOf(o, p))' = p
<1>1. \A p : (CHOOSE q \in {p} : TRUE) = p
  OBVIOUS
<1>2. \A o : Whole(o).part = {} /\ Whole(o).id = o
  BY DEF Whole
<1>3. \A o, p : PartOf(o, p).part = {p} /\ PartOf(o, p).id = o /\ {p} # {}
  BY DEF PartOf
<1> QED
  BY <1>1, <1>2, <1>3 DEF Amounts

LEMMA SplitTakerSound ==
  ASSUME Types, BackedInv, SoundInv, SplitTaker
  PROVE  SoundInv'
<1> DEFINE m == order[Maker]
           t == order[Taker]
           rest == Rest(t, m.requesting, m.owning)
           part == Part(t, m.requesting, m.owning)
<1>0. /\ ExecTypes /\ exec \in Exec /\ OrderTypes /\ order \in [Order -> Memory]
      /\ Matching /\ TakeMaker /\ UNCHANGED <<asked, doc, born, adding, pending, boot>>
      /\ exec.pc = "loop" /\ exec.remaining \in Nat
  BY DEF SplitTaker, Types, ExecTypes, Exec, OrderTypes, Matching, database
<1>1. /\ Maker \in In(market) /\ Maker \in Order /\ Taker \in Order
      /\ Taker \notin In(market) /\ IsWhole(m.requesting)
      /\ Price(m) = Ask(Maker) /\ Price(t) = Ask(Taker) /\ m.side # t.side
      /\ IF t.side = "buy" THEN Price(m) =< Ask(Taker) ELSE Price(m) >= Ask(Taker)
  BY <1>0, MakerTaken
<1>2. /\ m \in Memory /\ m.requesting \in Nat /\ m.owning \in Nat /\ m.side = asked[Maker].side
      /\ t \in Memory /\ IsWhole(t.owning) /\ t.owning \in Nat /\ t.side = asked[Taker].side
      /\ Price(m) \in Nat /\ Price(t) \in Nat /\ exec.remaining > m.requesting
  BY <1>0, <1>1, PriceTypes DEF OrderTypes, SplitTaker
<1>3. CASE CanSplit(t, m.requesting, m.owning, Price(m))
  <2>1. /\ order' = [order EXCEPT ![Taker] = rest]
        /\ exec' = [exec EXCEPT !.matchs = Append(exec.matchs, <<Whole(Maker), PartOf(Taker, part)>>),
                                !.remaining = exec.remaining - m.requesting]
    BY <1>3 DEF SplitTaker
  <2>2. /\ Price(rest) = Price(t)
        /\ Price(part) = Price(t) \/ Price(part) = Price(m)
        /\ rest.side = t.side /\ part.side = t.side /\ part \in Memory
        /\ rest.owning = t.owning - RoundUnit(m.requesting)
    <3> HIDE DEF t, m
    <3> QED
      BY <1>2, <1>3, SplitPrices
  <2>3. RoundUnit(m.requesting) = m.requesting
    BY <1>1, RoundUnitWhole
  <2>4. PICK x \in Order, y \in Order, q \in Memory : x = Maker /\ y = Taker /\ q = part
    BY <1>1, <2>2
  <2> DEFINE a == Whole(x)
             b == PartOf(y, q)
  <2>16. a \in Piece /\ b \in Piece
    BY <1>2, <2>2, <2>4, PiecesAre
  <2>5. /\ a.id = Maker /\ b.id = Taker /\ Amounts(a)' = order'[Maker] /\ Amounts(b)' = part
        /\ a = Whole(Maker) /\ b = PartOf(Taker, part)
    <3> HIDE DEF part
    <3> QED
      BY <2>4, AmountsOf
  <2>6. order'[Taker] = rest /\ \A p \in Order : p # Taker => order'[p] = order[p]
    <3> HIDE DEF rest
    <3> QED
      BY <1>0, <1>1, <2>1
  <2>7. Maker # Taker
    BY <1>1
  <2>8. \A p \in Order : order'[p].side = order[p].side
    BY <2>2, <2>6
  <2> HIDE DEF a, b, rest, part
  <2>9. /\ exec'.pc = "loop" /\ exec'.taker = exec.taker /\ exec'.unsaved = exec.unsaved
        /\ exec'.matchs = Append(exec.matchs, <<a, b>>) /\ exec'.leftovers = exec.leftovers
        /\ exec'.remaining = exec.remaining - m.requesting
    BY <1>0, <2>1, <2>5 DEF Exec
  <2>10. LimitOK(a)'
    BY <1>0, <1>1, <1>2, <2>5, <2>6, <2>7 DEF LimitOK, Within, Ask
  <2>11. LimitOK(b)'
    BY <1>0, <1>1, <1>2, <2>2, <2>5 DEF LimitOK, Within, Ask
  <2>12. ~TakerIsWhole => order'[Taker].owning = exec'.remaining
    <3>1. ~TakerIsWhole => t.owning = exec.remaining
      BY <1>0 DEF SoundInv, TakeOK
    <3> HIDE DEF t, m
    <3> QED
      BY <2>2, <2>3, <2>6, <2>9, <3>1
  <2>13. Price(order'[Maker]) = Price(order[Maker]) /\ Price(order'[Taker]) = Price(order[Taker])
    <3>1. order'[Maker] = order[Maker]
      BY <1>1, <2>6, <2>7
    <3> QED
      BY <2>2, <2>6, <3>1
  <2>14. \A p \in Order : /\ order'[p].side = order[p].side
                          /\ (p \notin {Maker, Taker} => order'[p] = order[p])
    BY <2>6, <2>8
  <2>15. {a.id, b.id} \subseteq {Maker, Taker}
    BY <2>5
  <2> HIDE DEF m, t
  <2> QED
    BY <1>0, <2>16, <2>9, <2>10, <2>11, <2>12, <2>13, <2>14, <2>15, MatchSound
<1>4. CASE ~CanSplit(t, m.requesting, m.owning, Price(m))
  <2>1. Fail /\ order' = order
    BY <1>4 DEF SplitTaker
  <2> QED
    BY <1>0, <2>1, MatchFailSound
<1> QED
  BY <1>3, <1>4

LEMMA SplitMakerSound ==
  ASSUME Types, BackedInv, SoundInv, SplitMaker
  PROVE  SoundInv'
<1> DEFINE m == order[Maker]
           t == order[Taker]
           rest == Rest(m, t.requesting, t.owning)
           part == Part(m, t.requesting, t.owning)
<1>0. /\ ExecTypes /\ exec \in Exec /\ OrderTypes /\ order \in [Order -> Memory]
      /\ Matching /\ TakeMaker /\ UNCHANGED <<asked, doc, born, adding, pending, boot>>
      /\ exec.pc = "loop"
  BY DEF SplitMaker, Types, ExecTypes, Exec, OrderTypes, Matching, database
<1>1. /\ Maker \in In(market) /\ Maker \in Order /\ Taker \in Order
      /\ Taker \notin In(market)
      /\ Price(m) = Ask(Maker) /\ Price(t) = Ask(Taker)
  BY <1>0, MakerTaken
<1>2. /\ m \in Memory /\ IsWhole(m.owning) /\ m.side = asked[Maker].side
      /\ t \in Memory /\ t.owning \in Nat /\ t.requesting \in Nat /\ t.side = asked[Taker].side
      /\ Price(m) \in Nat /\ Price(t) \in Nat
  BY <1>0, <1>1, PriceTypes DEF OrderTypes
<1>3. CASE CanSplit(m, t.requesting, t.owning, Price(m))
  <2>1. /\ order' = [order EXCEPT ![Maker] = rest]
        /\ exec' = [exec EXCEPT !.matchs = Append(exec.matchs, <<PartOf(Maker, part), Whole(Taker)>>),
                                !.leftovers = Append(exec.leftovers, Maker),
                                !.remaining = Max({0, exec.remaining - rest.requesting})]
    BY <1>3 DEF SplitMaker
  <2>2. /\ Price(rest) = Price(m) /\ Price(part) = Price(m)
        /\ rest.side = m.side /\ part.side = m.side /\ part \in Memory
    <3> HIDE DEF t, m
    <3> QED
      BY <1>2, <1>3, SplitPrices
  <2>4. PICK x \in Order, y \in Order, q \in Memory : x = Maker /\ y = Taker /\ q = part
    BY <1>1, <2>2
  <2> DEFINE a == PartOf(x, q)
             b == Whole(y)
  <2>15. a \in Piece /\ b \in Piece
    BY <1>2, <2>2, <2>4, PiecesAre
  <2>5. /\ a.id = Maker /\ b.id = Taker /\ Amounts(a)' = part /\ Amounts(b)' = order'[Taker]
        /\ a = PartOf(Maker, part) /\ b = Whole(Taker)
    <3> HIDE DEF part
    <3> QED
      BY <2>4, AmountsOf
  <2>6. order'[Maker] = rest /\ \A p \in Order : p # Maker => order'[p] = order[p]
    <3> HIDE DEF rest
    <3> QED
      BY <1>0, <1>1, <2>1
  <2>7. Maker # Taker
    BY <1>1
  <2>8. \A p \in Order : order'[p].side = order[p].side
    BY <2>2, <2>6
  <2>3. b = Whole(Taker)
    BY <2>4
  <2> HIDE DEF a, b, rest, part
  <2>9. /\ exec'.pc = "loop" /\ exec'.taker = exec.taker /\ exec'.unsaved = exec.unsaved
        /\ exec'.matchs = Append(exec.matchs, <<a, b>>)
        /\ exec'.leftovers = Append(exec.leftovers, Maker)
    BY <1>0, <2>1, <2>5 DEF Exec
  <2>10. LimitOK(a)'
    BY <1>0, <1>1, <1>2, <2>2, <2>5 DEF LimitOK, Within, Ask
  <2>11. LimitOK(b)'
    BY <1>0, <1>1, <1>2, <2>5, <2>6, <2>7 DEF LimitOK, Within, Ask
  <2>12. Price(order'[Maker]) = Price(order[Maker]) /\ Price(order'[Taker]) = Price(order[Taker])
    BY <1>1, <2>2, <2>6, <2>7
  <2>13. \A p \in Order : /\ order'[p].side = order[p].side
                          /\ (p \notin {Maker, Taker} => order'[p] = order[p])
    BY <2>6, <2>8
  <2>14. {a.id, b.id} \subseteq {Maker, Taker}
    BY <2>5
  <2> HIDE DEF m, t
  <2> QED
    BY <1>0, <2>3, <2>15, <2>9, <2>10, <2>11, <2>12, <2>13, <2>14, MatchSound
<1>4. CASE ~CanSplit(m, t.requesting, t.owning, Price(m))
  <2>1. Fail /\ order' = order
    BY <1>4 DEF SplitMaker
  <2> QED
    BY <1>0, <2>1, MatchFailSound
<1> QED
  BY <1>3, <1>4

\* All that the taker has meets all that the maker asks, at the price of the maker.
LEMMA MatchBothSound ==
  ASSUME Types, BackedInv, SoundInv, MatchBoth
  PROVE  SoundInv'
<1> DEFINE m == order[Maker]
           t == order[Taker]
<1>0. /\ ExecTypes /\ exec \in Exec /\ OrderTypes /\ order \in [Order -> Memory]
      /\ Matching /\ TakeMaker /\ UNCHANGED <<asked, doc, born, adding, pending, boot>>
      /\ exec.pc = "loop" /\ exec.remaining \in Nat
  BY DEF MatchBoth, Types, ExecTypes, Exec, OrderTypes, Matching, database
<1>1. /\ Maker \in In(market) /\ Maker \in Order /\ Taker \in Order
      /\ Taker \notin In(market) /\ m.side # t.side /\ exec.taker = {Taker}
      /\ Price(m) = Ask(Maker) /\ Price(t) = Ask(Taker)
      /\ IF t.side = "buy" THEN Price(m) =< Ask(Taker) ELSE Price(m) >= Ask(Taker)
  BY <1>0, MakerTaken
<1>2. /\ m \in Memory /\ m.side = asked[Maker].side /\ m.owning \in Nat /\ m.requesting \in Nat
      /\ t \in Memory /\ t.owning \in Nat /\ t.side = asked[Taker].side
      /\ m.side \in Side /\ t.side \in Side
      /\ Price(m) \in Nat
  BY <1>0, <1>1, PriceTypes DEF OrderTypes
<1>3. /\ exec.remaining =< m.requesting /\ t.owning >= m.requesting
      /\ order' = [order EXCEPT ![Taker].requesting = m.owning]
      /\ exec' = [exec EXCEPT !.matchs = Append(exec.matchs, <<Whole(Maker), Whole(Taker)>>),
                              !.remaining = Max({0, exec.remaining - m.requesting})]
  BY DEF MatchBoth
<1>18. PICK x \in Order, y \in Order : x = Maker /\ y = Taker
  BY <1>1
<1> DEFINE a == Whole(x)
           b == Whole(y)
<1>4. a \in Piece /\ b \in Piece
  BY PiecesAre
<1>5. /\ a.id = Maker /\ b.id = Taker /\ Amounts(a)' = order'[Maker] /\ Amounts(b)' = order'[Taker]
      /\ a = Whole(Maker)
  BY <1>18, AmountsOf
<1>6. b = Whole(Taker) /\ Maker # Taker
  BY <1>1, <1>18
<1> DEFINE new == order'[Taker]
<1>7. /\ new = [t EXCEPT !.requesting = m.owning]
      /\ \A p \in Order : p # Taker => order'[p] = order[p]
  BY <1>0, <1>1, <1>3
<1>8. new.side = t.side /\ new.owning = t.owning /\ new.requesting = m.owning
  <2> HIDE DEF new, m, t
  <2> QED
    BY <1>2, <1>7 DEF Memory
<1> HIDE DEF a, b, new
<1>9. /\ exec'.pc = "loop" /\ exec'.taker = exec.taker /\ exec'.unsaved = exec.unsaved
      /\ exec'.matchs = Append(exec.matchs, <<a, b>>) /\ exec'.leftovers = exec.leftovers
      /\ exec'.remaining = Max({0, exec.remaining - m.requesting})
  BY <1>0, <1>3, <1>5, <1>6 DEF Exec
<1>10. exec'.remaining = 0
  <2> DEFINE n == exec.remaining - m.requesting
  <2>1. n \in Int /\ ~(n > 0)
    BY <1>0, <1>2, <1>3
  <2>2. exec'.remaining = Max({0, n})
    BY <1>9
  <2> HIDE DEF n
  <2> QED
    BY <2>1, <2>2, NotNegative
<1>11. Within(asked[Taker], new) \/ Doubled'
  <2>1. CASE TakerIsWhole
    BY <1>0, <1>4, <1>6, <1>9, <2>1, MatchAdded
  <2>2. CASE ~TakerIsWhole
    <3>1. t.owning = exec.remaining
      BY <1>0, <2>2 DEF SoundInv, TakeOK
    <3>2. t.owning = m.requesting
      BY <1>0, <1>2, <1>3, <3>1
    <3>3. Price(new) = Price(m)
      BY <1>1, <1>2, <1>8, <3>2 DEF Price, Side
    <3> QED
      BY <1>1, <1>2, <3>3 DEF Within, Ask
  <2> QED
    BY <2>1, <2>2
<1>12. LimitOK(a)'
  BY <1>0, <1>1, <1>2, <1>5, <1>6, <1>7 DEF LimitOK, Within, Ask
<1>13. LimitOK(b)' \/ Doubled'
  BY <1>0, <1>5, <1>11 DEF LimitOK, new
<1>14. Price(order'[Maker]) = Price(order[Maker])
  BY <1>1, <1>6, <1>7
<1>15. \A p \in Order : /\ order'[p].side = order[p].side
                        /\ (p \notin {Maker, Taker} => order'[p] = order[p])
  BY <1>7, <1>8 DEF new
<1>16. {a.id, b.id} \subseteq {Maker, Taker} /\ ~(exec'.remaining > 0)
  BY <1>5, <1>10
<1>17. Within(asked[Taker], order'[Taker]) \/ Doubled'
  BY <1>11 DEF new
<1> HIDE DEF m, t
<1> QED
  BY <1>0, <1>4, <1>6, <1>9, <1>12, <1>13, <1>14, <1>15, <1>16, <1>17, MatchSound

-----------------------------------------------------------------------------
(* The leftovers return to the book: of one side, past every order of the    *)
(* other, which none of them changes.                                        *)

LEMMA ReturnedSound ==
  ASSUME PricesArePositive, RecordTypes, OrderTypes, BookTypes, Sound(market, order),
         NEW os \in Seq(Order), Distinct(os), NEW side,
         \A o \in ToSet(os) : /\ order[o].side = side /\ Price(order[o]) = Ask(o)
                              /\ Beyond(o) /\ o \notin In(market)
  PROVE  Sound(Returned(os), order)
<1>1. PICK g : /\ g \in [0 .. Len(os) -> MarketType]
               /\ g[0] = market /\ g[Len(os)] = Returned(os)
               /\ \A n \in 1 .. Len(os) : BackFrom(g[n - 1], g[n], os[n])
  BY ReturnedChain
<1> DEFINE N == Len(os)
           First(n) == {os[i] : i \in 1 .. n}
           Good(n) == /\ Sound(g[n], order) /\ In(g[n]) = In(market) \cup First(n)
                      /\ IF side = "buy" THEN g[n].sell = market.sell ELSE g[n].buy = market.buy
           Bad == {n \in 0 .. N : ~Good(n)}
<1>2. /\ N \in Nat /\ (\A n \in 1 .. N : os[n] \in Order /\ os[n] \in ToSet(os))
  BY LenProperties, ElementOfSeq, ToSetIs
<1>3. \A n \in 1 .. N : First(n) = First(n - 1) \cup {os[n]}
  BY <1>2
<1>4. \A n \in 1 .. N : os[n] \notin First(n - 1)
  <2> SUFFICES ASSUME NEW n \in 1 .. N, NEW i \in 1 .. n - 1, os[i] = os[n] PROVE FALSE
    OBVIOUS
  <2>1. i \in 1 .. N /\ i # n
    BY <1>2
  <2> QED
    BY <2>1 DEF Distinct
<1>5. Good(0)
  <2>1. First(0) = {}
    OBVIOUS
  <2> QED
    BY <1>1, <2>1
<1> HIDE DEF First
<1>6. ASSUME NEW n \in 1 .. N, Good(n - 1) PROVE Good(n)
  <2> DEFINE m == g[n - 1]
             new == g[n]
             o == os[n]
             price == Price(order[o])
  <2>1. m \in MarketType /\ o \in Order
    BY <1>1, <1>2
  <2>2. /\ order[o].side = side /\ price = Ask(o) /\ Beyond(o) /\ o \notin In(market)
    BY <1>2
  <2>3. price \in Nat \ {0} /\ price < Infinity
    BY <2>1, <2>2, AskIs
  <2>4. Gets(m, new, o, side, price)
    BY <1>1, <2>2 DEF BackFrom
  <2>5. Sound(m, order) /\ o \notin In(m)
        /\ IF side = "buy" THEN m.sell = market.sell ELSE m.buy = market.buy
    BY <1>4, <1>6, <2>2
  <2>6. IF side = "buy" THEN price < m.sell ELSE price > m.buy
    BY <2>2, <2>5 DEF Beyond
  <2>7. In(m) = In(market) \cup First(n - 1) /\ First(n) = First(n - 1) \cup {o}
    BY <1>3, <1>6
  <2>8. Price(order[o]) = price
    OBVIOUS
  <2>9. Good(n) <=> /\ Sound(new, order) /\ In(new) = In(market) \cup First(n)
                    /\ IF side = "buy" THEN new.sell = market.sell ELSE new.buy = market.buy
    OBVIOUS
  <2> HIDE DEF m, new, o, price, Good
  <2>10. In(new) = In(m) \cup {o}
    BY <2>1, <2>3, <2>4, GetsIn
  <2>11. Sound(new, order)
    BY <2>1, <2>2, <2>3, <2>4, <2>5, <2>6, <2>8, GetsSound
  <2>12. IF side = "buy" THEN new.sell = market.sell ELSE new.buy = market.buy
    BY <2>4, <2>5 DEF Gets
  <2> QED
    BY <2>7, <2>9, <2>10, <2>11, <2>12
<1> HIDE DEF Good
<1>7. ASSUME Bad # {} PROVE FALSE
  <2>1. PICK n \in Bad : \A k \in Bad : n =< k
    <3>1. Bad \in SUBSET Nat
      BY <1>2
    <3> HIDE DEF Bad
    <3> QED
      BY <1>7, <3>1, LeastNumber
  <2>2. n \in 0 .. N /\ ~Good(n) /\ n # 0
    BY <2>1, <1>5
  <2>3. n - 1 \in 0 .. N /\ ~(n =< n - 1) /\ n \in 1 .. N
    BY <2>2, <1>2
  <2>4. n - 1 \notin Bad
    <3> HIDE DEF Bad
    <3> QED
      BY <2>1, <2>3
  <2> QED
    BY <2>2, <2>3, <2>4, <1>6
<1>8. Good(N)
  BY <1>2, <1>7
<1> QED
  BY <1>1, <1>8 DEF Good

\* What ends the loop for a taker that has something left is that it meets no order.
LEMMA TakerBeyond ==
  ASSUME PricesArePositive, Types, SoundInv, exec.pc = "loop", ~MakersLeft, exec.remaining > 0
  PROVE  Beyond(Taker) /\ Price(order[Taker]) = Ask(Taker) /\ Taker \in Order
<1>1. Taker \in Order /\ Price(order[Taker]) = Ask(Taker) /\ Sound(market, order)
  BY DEF Types, ExecTypes, Taker, SoundInv, BookOK, TakeOK
<1>2. /\ market.buy \in Nat /\ market.sell \in Nat /\ Infinity \in Nat
      /\ market.buy < market.sell /\ market.sell =< Infinity
  BY <1>1, InfinityAssumption DEF Types, BookTypes, MarketType, Sound
<1>3. Price(order[Taker]) \in Nat \ {0} /\ Price(order[Taker]) < Infinity
  BY <1>1, AskIs DEF Types
<1>4. CASE order[Taker].side = "buy"
  <2>1. TakerPrice = market.sell
    BY <1>4 DEF TakerPrice
  <2> QED
    BY <1>1, <1>2, <1>3, <1>4, <2>1 DEF MakersLeft, Beyond
<1>5. CASE order[Taker].side # "buy"
  <2>1. TakerPrice = market.buy
    BY <1>5 DEF TakerPrice
  <2> QED
    BY <1>1, <1>2, <1>3, <1>5, <2>1 DEF MakersLeft, Beyond
<1> QED
  BY <1>4, <1>5

\* Unless a document would be saved twice, either the taker alone returns, or
\* makers that were split.
LEMMA LeftoversSound ==
  ASSUME PricesArePositive, Types, SoundInv, exec.pc = "loop", ~MakersLeft,
         ~SavedTwice(Leftovers)
  PROVE  Sound(Returned(Leftovers), order)
<1>0. /\ TakeOK /\ LoopOnce /\ Sound(market, order) /\ OrderTypes /\ RecordTypes /\ BookTypes
      /\ ExecTypes /\ exec.leftovers \in Seq(Order) /\ exec.remaining \in Nat
      /\ exec.taker = {Taker} /\ Taker \in Order
  BY DEF Types, ExecTypes, Exec, SoundInv, BookOK, Taker
<1>1. Taker \notin In(market) /\ ToSet(exec.leftovers) \cap In(market) = {}
  BY <1>0 DEF LoopOnce, Busy
<1>2. CASE exec.remaining > 0
  <2>1. Leftovers = Append(exec.leftovers, Taker)
    BY <1>2 DEF Leftovers
  <2>2. Taker \in ToSet(Leftovers)
    BY <1>0, <2>1, AppendToSet
  <2>3. Taker \notin WholesMatched
    BY <2>2 DEF SavedTwice
  <2>4. ~TakerIsWhole
    <3> SUFFICES ASSUME NEW j \in DOMAIN exec.matchs, exec.matchs[j][2] = Whole(Taker)
                 PROVE  FALSE
      BY DEF TakerIsWhole
    <3>1. Whole(Taker) \in Matched /\ Whole(Taker).part = {} /\ Whole(Taker).id = Taker
      BY DEF Matched, Whole
    <3> QED
      BY <2>3, <3>1 DEF WholesMatched
  <2>5. exec.leftovers = <<>>
    BY <1>0, <2>4 DEF TakeOK
  <2>6. Leftovers = <<Taker>>
    BY <2>1, <2>5
  <2>7. Beyond(Taker) /\ Price(order[Taker]) = Ask(Taker)
    BY <1>2, TakerBeyond
  <2> DEFINE os == Leftovers
             side == order[Taker].side
  <2>8. os \in Seq(Order) /\ Distinct(os) /\ ToSet(os) = {Taker}
    BY <1>0, <2>6 DEF Distinct, ToSet
  <2>9. \A o \in ToSet(os) : /\ order[o].side = side /\ Price(order[o]) = Ask(o)
                             /\ Beyond(o) /\ o \notin In(market)
    BY <1>1, <2>7, <2>8
  <2> HIDE DEF os, side
  <2>10. Sound(Returned(os), order)
    BY <1>0, <2>8, <2>9, ReturnedSound
  <2> QED
    BY <2>10 DEF os
<1>3. CASE ~(exec.remaining > 0)
  <2> DEFINE os == Leftovers
             side == IF order[Taker].side = "buy" THEN "sell" ELSE "buy"
  <2>1. os = exec.leftovers
    BY <1>3 DEF Leftovers
  <2>2. os \in Seq(Order) /\ Distinct(os) /\ ToSet(os) \subseteq Order
    BY <1>0, <2>1, ToSetIs DEF LoopOnce
  <2>3. \A o \in Order : order[o].side \in {"buy", "sell"}
    BY <1>0, PriceTypes DEF Side
  <2>4. \A o \in ToSet(os) : /\ order[o].side = side /\ Price(order[o]) = Ask(o)
                             /\ Beyond(o) /\ o \notin In(market)
    BY <1>0, <1>1, <2>1, <2>2, <2>3 DEF TakeOK
  <2> HIDE DEF os, side
  <2>5. Sound(Returned(os), order)
    BY <1>0, <2>2, <2>4, ReturnedSound
  <2> QED
    BY <2>5 DEF os
<1> QED
  BY <1>2, <1>3

LEMMA EndLoopSound ==
  ASSUME PricesArePositive, Types, BackedInv, SoundInv, EndLoop
  PROVE  SoundInv'
<1>0. /\ OrderTypes /\ BookTypes /\ ExecTypes /\ exec.pc = "loop" /\ exec \in Exec
      /\ UNCHANGED <<asked, doc, born, adding, order, pending, boot>>
      /\ exec.unsaved = {} /\ exec.taker = {Taker}
      /\ TakeOK /\ MatchOK /\ AsksOK
  BY DEF Types, EndLoop, ExecTypes, Taker, BackedInv, LoopOK, SoundInv, BookOK, database
<1>1. CASE MakersLeft
  <2>1. Fail /\ market' = market
    BY <1>1 DEF EndLoop
  <2>2. exec'.pc = "failed" /\ Busy' = Busy /\ exec'.unsaved = exec.unsaved
    BY <1>0, <2>1, FailIs
  <2>3. In(market)' = In(market) /\ SaveOK'
    BY <1>0, <2>1, <2>2 DEF In, SaveOK
  <2> QED
    BY <1>0, <2>2, <2>3, FailedSound
<1>2. CASE ~MakersLeft
  <2> DEFINE left == Leftovers
  <2>1. /\ market' = Returned(left) /\ exec'.leftovers = left
        /\ exec'.unsaved = WholesMatched \cup ToSet(left)
        /\ exec'.pc \in {"failed", "trading"}
        /\ exec'.pc = "trading" => ~SavedTwice(left)
        /\ exec'.matchs = exec.matchs /\ exec'.taker = exec.taker
    BY <1>0, <1>2 DEF EndLoop, Exec
  <2>2. /\ left \in Seq(Order)
        /\ ToSet(left) = ToSet(exec.leftovers) \cup (IF exec.remaining > 0 THEN {Taker} ELSE {})
    BY <1>0, LeftoversAre
  <2>3. \A o \in ToSet(left) : Price(order[o]) = Ask(o)
    BY <1>0, <2>2 DEF TakeOK
  <2>4. exec'.pc = "trading" => Sound(market', order)
    BY <1>0, <1>2, <2>1, LeftoversSound
  <2>5. exec'.pc = "trading" => ~Doubled
    BY <2>1 DEF SavedTwice, Doubled
  <2> HIDE DEF left
  <2>6. In(market)' = In(market) \cup ToSet(left)
    <3>1. In(Returned(left)) = In(market) \cup ToSet(left)
      BY <1>0, <2>2, ReturnedGives
    <3> QED
      BY <2>1, <3>1 DEF In
  <2>7. ToSet(left) \subseteq Busy /\ Busy' \subseteq Busy
    BY <1>0, <2>1, <2>2, WholesAreIds DEF Busy
  <2>8. OnceOK' /\ Waiting' = Waiting
    BY <1>0, <2>6, <2>7, OnceKept
  <2>9. DocsOK' /\ WaitOK'
    BY <1>0, <2>8, DocsKept, WaitKept
  <2>10. Matched' = Matched /\ WholesMatched' = WholesMatched
    BY <2>1, MatchedKept
  <2>11. SaveOK'
    BY <1>0, <2>1, <2>3, <2>10 DEF SaveOK, Ask
  <2>12. LoopOnce' /\ TakeOK'
    BY <2>1 DEF LoopOnce, TakeOK
  <2>13. MatchOK'
    BY <1>0, <2>1, <2>5, <2>10 DEF MatchOK, LimitOK, Amounts
  <2>14. BookOK'
    <3>1. AsksOK'
      BY <1>0, <2>1, <2>3, <2>6 DEF AsksOK, Ask
    <3> QED
      BY <1>0, <2>1, <2>4, <3>1 DEF BookOK
  <2> QED
    BY <2>8, <2>9, <2>11, <2>12, <2>13, <2>14 DEF SoundInv
<1> QED
  BY <1>1, <1>2

LEMMA NextSound ==
  PricesArePositive /\ Types /\ Types' /\ BackedInv /\ SoundInv /\ SavesKeepPrices /\ [Next]_vars
    => SoundInv'
<1> SUFFICES ASSUME PricesArePositive, Types, BackedInv, SoundInv, SavesKeepPrices, [Next]_vars
             PROVE  SoundInv'
  OBVIOUS
<1>1. CASE \E o \in Order : Prepare(o) \/ AddStep(o) \/ RemoveFind(o) \/ RemoveStep(o)
  <2>1. PICK o \in Order : Prepare(o) \/ AddStep(o) \/ RemoveFind(o) \/ RemoveStep(o)
    BY <1>1
  <2>2. CASE Prepare(o) \/ RemoveFind(o)
    BY <2>2, CallsSound
  <2>3. CASE AddStep(o)
    BY <2>3, CallsSound, AddedSound DEF AddStep
  <2>4. CASE RemoveStep(o)
    BY <2>4, CallsSound, RemoveFromBookSound DEF RemoveStep
  <2> QED
    BY <2>1, <2>2, <2>3, <2>4
<1>2. CASE Boot \/ NextPending \/ Restart
  BY <1>2, BootSound, NextPendingSound, RestartSound
<1>3. CASE SplitTaker \/ SplitMaker \/ MatchBoth \/ EndLoop
  BY <1>3, SplitTakerSound, SplitMakerSound, MatchBothSound, EndLoopSound
<1>4. CASE \E o \in Order : SaveOrder(o)
  BY <1>4, SaveOrderSound
<1>5. CASE Trade \/ TradeFails \/ EndExec
  BY <1>5, TradeSound, TradeFailsSound, EndExecSound
<1>6. CASE UNCHANGED vars
  BY <1>6, StutterSound
<1> QED
  BY <1>1, <1>2, <1>3, <1>4, <1>5, <1>6 DEF Next, ExecStep

LEMMA SpecSound == PricesArePositive => (Spec /\ []SavesKeepPrices => [](Types /\ SoundInv))
<1>1. Init => Types /\ BackedInv /\ SoundInv
  BY InitTypes, InitBacked, InitSound
<1>2. ASSUME PricesArePositive
      PROVE  Types /\ BackedInv /\ SoundInv /\ SavesKeepPrices /\ [Next]_vars
               => Types' /\ BackedInv' /\ SoundInv'
  BY <1>2, NextTypes, NextBacked, NextSound
<1> SUFFICES ASSUME PricesArePositive
             PROVE  Spec /\ []SavesKeepPrices => [](Types /\ SoundInv)
  OBVIOUS
<1>3. Types /\ BackedInv /\ SoundInv /\ SavesKeepPrices /\ [Next]_vars
        => Types' /\ BackedInv' /\ SoundInv'
  BY <1>2
<1> QED
  BY <1>1, <1>3, PTL DEF Spec

\* Whatever the orders, their interleaving and the faults, the book of a market is
\* sorted, each of its orders is there once, at the price it asks, and the prices of
\* the market are those of its best orders, the buys below the sells: as long as no
\* kind of order has price 0, and what a save cuts of an order leaves it its price
\* (the price of an order is computed from its amounts each time, order.ts, while the
\* node it is in keeps the price it had, market.ts).
THEOREM MarketBookIsSound == PricesArePositive => (Spec /\ []SavesKeepPrices => []BookIsSound)
<1>1. Types /\ SoundInv => BookIsSound
  <2> SUFFICES ASSUME Types, SoundInv, exec.pc # "failed" PROVE BookIsSound
    BY DEF BookIsSound
  <2> QED
    BY SoundGives DEF Types, SoundInv, BookOK
<1> QED
  BY <1>1, SpecSound, PTL

LEMMA SoundWithin == Types /\ SoundInv /\ CutsKeepPrices => WithinLimit
<1> SUFFICES ASSUME SoundInv, CutsKeepPrices, exec.pc = "trading", NEW m \in Matched
             PROVE  Within(asked[m.id], Traded(m))
  BY DEF WithinLimit
<1>1. LimitOK(m)
  BY DEF SoundInv, MatchOK
<1>2. Price(Traded(m)) = Price(Amounts(m))
  BY DEF CutsKeepPrices
<1> QED
  BY <1>1, <1>2 DEF LimitOK, Within

\* Under the same conditions, and when what a trade cuts of a match leaves it its
\* price, no match is traded past the limit of the user of either side, whatever
\* splits the orders went through, in however many executions and restarts.
THEOREM MarketWithinLimit == PricesArePositive => (Spec /\ []CutsKeepPrices => []WithinLimit)
<1>1. CutsKeepPrices => SavesKeepPrices
  BY DEF CutsKeepPrices
<1>2. Types /\ SoundInv /\ CutsKeepPrices => WithinLimit
  BY SoundWithin
<1> QED
  BY <1>1, <1>2, SpecSound, PTL
=============================================================================
