------------------------------ MODULE OrderBook ------------------------------
(***************************************************************************)
(* The order book of one pair of currencies, and the arithmetic of its     *)
(* orders: src/marketApi/market.ts and src/db/models/order.ts.             *)
(*                                                                         *)
(* A market is a record: book is the linked list of nodes, one for each    *)
(* price that has orders, with the map that finds a node by its price; buy *)
(* and sell are the prices a taker begins with.  An order is a member of   *)
(* the map `orders`, its document in memory: side, owning and requesting.  *)
(*                                                                         *)
(* Amounts are counted in 1/Unit of the smallest unit of a currency, which *)
(* stands for the digits a split computes beyond it.                       *)
(***************************************************************************)
EXTENDS Integers, SequencesExt, FiniteSetsExt

CONSTANTS
  Unit,      \* fractions of the smallest unit that a split keeps
  Scale,     \* units of price in one
  Infinity   \* the price of a market without sell orders

ASSUME UnitAssumption == Unit \in Nat \ {0} /\ Scale \in Nat \ {0}
ASSUME InfinityAssumption == Infinity \in Nat \ {0}

NoMarket == [book |-> <<>>, buy |-> 0, sell |-> Infinity]

-----------------------------------------------------------------------------
(* amounts and prices *)

\* truncateAmount: decimals beyond those of the currency are cut.
Truncate(a) == a - (a % Unit)

\* currency.js rounds to the decimals of the currency.
RoundUnit(a) == Truncate(a + Unit \div 2)

RoundDiv(a, b) == IF b = 0 THEN Infinity ELSE (2 * a + b) \div (2 * b)

\* The virtuals type and price: the owner of the base currency buys, and the
\* price has the decimals of the base currency.
Price(order) ==
  IF order.side = "buy" THEN RoundDiv(order.owning * Scale, order.requesting)
                        ELSE RoundDiv(order.requesting * Scale, order.owning)

\* split, of `owning` for `requesting`: what is left of the order.
Rest(order, owning, requesting) ==
  [order EXCEPT !.requesting = (@ * (order.owning - owning)) \div order.owning,
                !.owning = @ - RoundUnit(owning)]

Part(order, owning, requesting) ==
  [order EXCEPT !.owning = owning, !.requesting = requesting]

\* Mistake: split looks at no price.
CanSplitAnyhow(order, owning, requesting, target) == owning < order.owning

\* What split throws for: the amount, and the prices after it.
CanSplit(order, owning, requesting, target) ==
  /\ owning < order.owning
  /\ Price(Rest(order, owning, requesting)) = Price(order)
  /\ Price(Part(order, owning, requesting)) \in {Price(order), target}

-----------------------------------------------------------------------------
(* the list of nodes *)

Prices(m) == {m.book[i].price : i \in DOMAIN m.book}
NodeAt(m, price) == CHOOSE i \in DOMAIN m.book : m.book[i].price = price
OrdersAt(m, price) == m.book[NodeAt(m, price)].orders

\* getNode goes over the list until the next price is not lower.
Before(m, price) == Min({i \in 1..(Len(m.book) + 1) :
                           i > Len(m.book) \/ price =< m.book[i].price})

GetNode(m, price) ==
  IF price \in Prices(m) THEN m
  ELSE [m EXCEPT !.book = InsertAt(@, Before(m, price), [price |-> price, orders |-> <<>>])]

UpdateMarketPrice(m, side, price) ==
  IF side = "buy" THEN [m EXCEPT !.buy = IF price > @ THEN price ELSE @]
                  ELSE [m EXCEPT !.sell = IF price < @ THEN price ELSE @]

WithOrders(m, price, orders) ==
  [m EXCEPT !.book[NodeAt(m, price)].orders = orders]

PushMaker(m, o, side, price) ==
  LET n == GetNode(m, price)
  IN UpdateMarketPrice(WithOrders(n, price, Append(OrdersAt(n, price), o)), side, price)

UnshiftMaker(m, o, side, price) ==
  LET n == GetNode(m, price)
  IN UpdateMarketPrice(WithOrders(n, price, <<o>> \o OrdersAt(n, price)), side, price)

\* getOrderFromIndex: the last order of a node takes the node with it, and the
\* price the market had there moves to the neighbour.
\* Mistake: the market keeps its prices.
TakeOnly(m, price, i) ==
  LET n == WithOrders(m, price, RemoveAt(OrdersAt(m, price), i))
  IN IF OrdersAt(n, price) # <<>> THEN n ELSE [n EXCEPT !.book = RemoveAt(@, NodeAt(m, price))]

GetOrderFromIndex(m, price, i) ==
  LET k == NodeAt(m, price)
      rest == RemoveAt(OrdersAt(m, price), i)
      previous == IF k > 1 THEN m.book[k - 1].price ELSE 0
      next == IF k < Len(m.book) THEN m.book[k + 1].price ELSE Infinity
  IN IF rest # <<>> THEN WithOrders(m, price, rest)
     ELSE [book |-> RemoveAt(m.book, k),
           buy  |-> IF price = m.buy THEN previous ELSE m.buy,
           sell |-> IF price # m.buy /\ price = m.sell THEN next ELSE m.sell]
=============================================================================
