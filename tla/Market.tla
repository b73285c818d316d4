------------------------------- MODULE Market -------------------------------
(***************************************************************************)
(* The market of one pair of currencies: add and remove of                 *)
(* src/marketApi/index.ts, the Market they call (market.ts), and the trade *)
(* of what it matched (trade.ts), with the orders in the database and the  *)
(* wallets of their owners.                                                *)
(*                                                                         *)
(* The code of Market runs on one thread: an execution of a taker gives it *)
(* up only while it saves the orders and trades them.  In between orders   *)
(* arrive and wait in pendingOrders, others are removed, and the server    *)
(* may die.  An exception in an execution leaves `trading` set: here the   *)
(* execution is "failed", and stays so until the server starts again.      *)
(***************************************************************************)
EXTENDS OrderBook, BalanceOps

CONSTANTS
  Order,      \* the orders a run may see
  Removable,  \* those that may be removed
  Person,     \* the users
  UserOf,     \* the user of each order
  Kinds,      \* what an order may ask for: side, owning and requesting
  Funds,      \* the available balance of a user in each currency
  Faults      \* crash: the server dies; db: a transaction aborts

Side == {"buy", "sell"}

\* What an Order document may hold: it is saved truncated, and not without value.
Amount == {n \in Nat \ {0} : Truncate(n) = n}

ASSUME OrderAssumption ==
  UserOf \in [Order -> Person] /\ Removable \subseteq Order /\ "trade" \notin Order
ASSUME PersonAssumption == IsFiniteSet(Person)
ASSUME KindsAssumption ==
  /\ Kinds \subseteq [side : Side, owning : Amount, requesting : Amount]
  /\ \A k \in Kinds : Price(k) < Infinity
ASSUME FundsAssumption == Funds \in Nat

VARIABLES
  asked,      \* what the user asked for
  doc,        \* the Order document: its status, and the amounts
  wallet,     \* the balances of each user, by currency (BalanceOps)
  adding,     \* the call of add for each order
  removing,   \* the call of remove for each order, with what it found
  order,      \* the order in memory
  market,     \* the book (OrderBook)
  pending,    \* pendingOrders
  exec,       \* the execution of a taker
  boot,       \* what bootstrap has still to add
  born,       \* the orders by timestamp
  paid, got   \* history: what was traded of each order

memory == <<order, market, pending, exec, boot>>
database == <<asked, doc, wallet, born, paid, got>>
vars == <<database, adding, removing, memory>>

Currency == {"base", "target"}
Owns(o) == IF asked[o].side = "buy" THEN "base" ELSE "target"
Wants(o) == IF asked[o].side = "buy" THEN "target" ELSE "base"

Status == {"none", "preparing", "ready", "matched"}
Doc == [status : Status, side : Side, owning : Nat, requesting : Nat]
InMemory(d) == [side |-> d.side, owning |-> d.owning, requesting |-> d.requesting]
Stored(status, m) ==
  [status |-> status, side |-> m.side, owning |-> m.owning, requesting |-> m.requesting]

\* One side of a match: an order, or the part that was split off it.
Whole(o) == [id |-> o, part |-> {}]
PartOf(o, p) == [id |-> o, part |-> {p}]
Amounts(m) == IF m.part = {} THEN order[m.id] ELSE CHOOSE p \in m.part : TRUE

NoExec == [pc |-> "idle", taker |-> {}, remaining |-> 0, matchs |-> <<>>,
           leftovers |-> <<>>, unsaved |-> {}]
ExecPc == {"idle", "loop", "trading", "failed"}
AddPc == {"off", "preparing", "locked", "ready", "done"}
RemovePc == {"off", "found", "taken", "lost"}

InBook == UNION {ToSet(market.book[i].orders) : i \in DOMAIN market.book}
Matched == UNION {{exec.matchs[i][1], exec.matchs[i][2]} : i \in DOMAIN exec.matchs}
WholesMatched == {m.id : m \in {n \in Matched : n.part = {}}}

TypeOK ==
  /\ asked \in [Order -> Kinds]
  /\ doc \in [Order -> Doc]
  /\ \A u \in Person, c \in Currency : IsWallet(wallet[u][c], Order)
  /\ adding \in [Order -> AddPc]
  /\ \A o \in Order : removing[o].pc \in RemovePc /\ removing[o].found \in Doc
  /\ \A o \in Order : order[o].owning \in Nat /\ order[o].requesting \in Nat
  /\ InBook \subseteq Order /\ ToSet(pending) \subseteq Order /\ ToSet(boot) \subseteq Order
  /\ exec.pc \in ExecPc /\ exec.remaining \in Nat /\ exec.unsaved \subseteq Order
  /\ born \in Seq(Order)
  /\ paid \in [Order -> Nat] /\ got \in [Order -> Nat]

Init ==
  /\ asked \in [Order -> Kinds]
  /\ doc = [o \in Order |-> Stored("none", asked[o])]
  /\ wallet = [u \in Person |-> [c \in Currency |-> NewWallet(Funds)]]
  /\ adding = [o \in Order |-> "off"]
  /\ removing = [o \in Order |-> [pc |-> "off", found |-> doc[o]]]
  /\ order = asked
  /\ market = NoMarket
  /\ pending = <<>>
  /\ exec = NoExec
  /\ boot = <<>>
  /\ born = <<>>
  /\ paid = [o \in Order |-> 0] /\ got = [o \in Order |-> 0]

-----------------------------------------------------------------------------
(* add of the market API *)

Prepare(o) ==
  /\ adding[o] = "off"
  /\ adding' = [adding EXCEPT ![o] = "preparing"]
  /\ doc' = [doc EXCEPT ![o].status = "preparing"]
  /\ born' = Append(born, o)
  /\ UNCHANGED <<asked, wallet, removing, memory, paid, got>>

Lock(o) ==
  /\ adding[o] = "preparing"
  /\ LET u == UserOf[o]
         w == wallet[u][Owns(o)]
     IN IF CanAdd(w, -asked[o].owning)
        THEN /\ wallet' = [wallet EXCEPT ![u][Owns(o)] = Add(w, o, -asked[o].owning)]
             /\ adding' = [adding EXCEPT ![o] = "locked"]
             /\ UNCHANGED doc
        ELSE /\ doc' = [doc EXCEPT ![o].status = "none"]
             /\ adding' = [adding EXCEPT ![o] = "done"]
             /\ UNCHANGED wallet
  /\ UNCHANGED <<asked, born, removing, memory, paid, got>>

SetReady(o) ==
  /\ adding[o] = "locked"
  /\ adding' = [adding EXCEPT ![o] = "ready"]
  /\ doc' = [doc EXCEPT ![o].status = "ready"]
  /\ UNCHANGED <<asked, wallet, born, removing, memory, paid, got>>

-----------------------------------------------------------------------------
(* add of Market *)

Crosses(o) ==
  IF order[o].side = "buy" THEN Price(order[o]) >= market.sell
                           ELSE Price(order[o]) =< market.buy

\* An order becomes the taker of an execution, or a maker of the book.
Begin(o) ==
  IF Crosses(o)
  THEN /\ exec' = [NoExec EXCEPT !.pc = "loop", !.taker = {o}, !.remaining = order[o].owning]
       /\ UNCHANGED market
  ELSE /\ market' = PushMaker(market, o, order[o].side, Price(order[o]))
       /\ UNCHANGED exec

\* No code of the market is in the middle of something.
Yielded == exec.pc \in {"trading", "failed"} \/ (exec.pc = "idle" /\ pending = <<>>)

\* While another order is executed, it waits.
AddToMarket(o) ==
  /\ Yielded
  /\ IF exec.pc = "idle" THEN Begin(o) /\ UNCHANGED pending
                         ELSE pending' = Append(pending, o) /\ UNCHANGED <<exec, market>>

Added(o) ==
  /\ adding[o] = "ready"
  /\ adding' = [adding EXCEPT ![o] = "done"]
  /\ AddToMarket(o)
  /\ UNCHANGED <<database, removing, order, boot>>

\* bootstrap adds the next one when the last was executed.
Boot ==
  /\ boot # <<>>
  /\ exec.taker = {} \/ ToSet(boot) \cap exec.taker = {}
  /\ AddToMarket(Head(boot))
  /\ boot' = Tail(boot)
  /\ UNCHANGED <<database, adding, removing, order>>

\* The end of add takes the first that waits.
NextPending ==
  /\ exec.pc = "idle"
  /\ pending # <<>>
  /\ Begin(Head(pending))
  /\ pending' = Tail(pending)
  /\ UNCHANGED <<database, adding, removing, order, boot>>

-----------------------------------------------------------------------------
(* execTaker *)

Taker == CHOOSE o \in exec.taker : TRUE
TakerPrice == IF order[Taker].side = "buy" THEN market.sell ELSE market.buy

\* The condition of the loop.
\* Mistake: the limit of the taker is not looked at.
AnyPrice == TakerPrice > 0 /\ TakerPrice < Infinity /\ exec.remaining > 0

MakersLeft ==
  /\ TakerPrice > 0 /\ TakerPrice < Infinity
  /\ IF order[Taker].side = "buy" THEN TakerPrice =< Price(order[Taker])
                                  ELSE TakerPrice >= Price(order[Taker])
  /\ exec.remaining > 0

Matching == exec.pc = "loop" /\ MakersLeft /\ TakerPrice \in Prices(market)
Maker == Head(OrdersAt(market, TakerPrice))
TakeMaker == market' = GetOrderFromIndex(market, TakerPrice, 1)
Fail == exec' = [exec EXCEPT !.pc = "failed"]

\* The maker is smaller: the taker is split at the price of the maker.
SplitTaker ==
  /\ Matching
  /\ LET m == order[Maker]
         t == order[Taker]
     IN /\ exec.remaining > m.requesting
        /\ IF CanSplit(t, m.requesting, m.owning, Price(m))
           THEN /\ order' = [order EXCEPT ![Taker] = Rest(t, m.requesting, m.owning)]
                /\ exec' = [exec EXCEPT
                     !.matchs = Append(@, <<Whole(Maker), PartOf(Taker, Part(t, m.requesting, m.owning))>>),
                     !.remaining = @ - m.requesting]
           ELSE Fail /\ UNCHANGED order
  /\ TakeMaker
  /\ UNCHANGED <<database, adding, removing, pending, boot>>

\* The taker is smaller: the maker is split as the taker asks, and its rest goes
\* back to the book.  What remains is reduced by the requesting of that rest.
SplitMaker ==
  /\ Matching
  /\ LET m == order[Maker]
         t == order[Taker]
         rest == Rest(m, t.requesting, t.owning)
     IN /\ exec.remaining =< m.requesting /\ t.owning < m.requesting
        /\ IF CanSplit(m, t.requesting, t.owning, Price(m))
           THEN /\ order' = [order EXCEPT ![Maker] = rest]
                /\ exec' = [exec EXCEPT
                     !.matchs = Append(@, <<PartOf(Maker, Part(m, t.requesting, t.owning)), Whole(Taker)>>),
                     !.leftovers = Append(@, Maker),
                     !.remaining = Max({0, @ - rest.requesting})]
           ELSE Fail /\ UNCHANGED order
  /\ TakeMaker
  /\ UNCHANGED <<database, adding, removing, pending, boot>>

\* Else the taker gets what the maker has.
MatchBoth ==
  /\ Matching
  /\ LET m == order[Maker]
     IN /\ exec.remaining =< m.requesting /\ order[Taker].owning >= m.requesting
        /\ order' = [order EXCEPT ![Taker].requesting = m.owning]
        /\ exec' = [exec EXCEPT !.matchs = Append(@, <<Whole(Maker), Whole(Taker)>>),
                                !.remaining = Max({0, @ - m.requesting})]
  /\ TakeMaker
  /\ UNCHANGED <<database, adding, removing, pending, boot>>

\* The whole orders an execution saves, once for each time they were listed:
\* mongoose refuses to save a document that is being saved.
SavedTwice(leftovers) ==
  \/ WholesMatched \cap ToSet(leftovers) # {}
  \/ \E i, j \in DOMAIN exec.matchs : i # j /\ exec.matchs[i][2] = exec.matchs[j][2]
                                            /\ exec.matchs[i][2].part = {}

\* Mistake: the rest of the taker is forgotten.
OnlyMakers == exec.leftovers

Leftovers == IF exec.remaining > 0 THEN Append(exec.leftovers, Taker) ELSE exec.leftovers

\* The leftovers return to the book, each to the head of its price.
Returned(leftovers) ==
  LET back[n \in 0 .. Len(leftovers)] ==
        IF n = 0 THEN market
        ELSE LET o == leftovers[n]
             IN UnshiftMaker(back[n - 1], o, order[o].side, Price(order[o]))
  IN back[Len(leftovers)]

\* After the loop the saves begin, unless the price of the market had no node.
EndLoop ==
  /\ exec.pc = "loop" /\ ~Matching
  /\ LET leftovers == Leftovers
     IN IF MakersLeft THEN Fail /\ UNCHANGED market ELSE
        /\ market' = Returned(leftovers)
        /\ exec' = [exec EXCEPT !.leftovers = leftovers,
                      !.unsaved = WholesMatched \cup ToSet(leftovers),
                      !.pc = IF exec.matchs = <<>> \/ SavedTwice(leftovers)
                             THEN "failed" ELSE "trading"]
  /\ UNCHANGED <<database, adding, removing, order, pending, boot>>

\* save truncates, refuses an amount that became zero, and a document that is
\* not there.
Valid(o) == Truncate(order[o].owning) > 0 /\ Truncate(order[o].requesting) > 0
Truncated(m) == [m EXCEPT !.owning = Truncate(@), !.requesting = Truncate(@)]

SavedStatus(o) == IF o \in WholesMatched THEN "matched" ELSE "ready"

SaveOrder(o) ==
  /\ o \in exec.unsaved
  /\ order' = [order EXCEPT ![o] = Truncated(@)]
  /\ IF Valid(o) /\ doc[o].status # "none"
     THEN /\ doc' = [doc EXCEPT ![o] = Stored(SavedStatus(o), order'[o])]
          /\ exec' = [exec EXCEPT !.unsaved = @ \ {o}]
     ELSE /\ exec' = [exec EXCEPT !.unsaved = @ \ {o}, !.pc = "failed"]
          /\ UNCHANGED doc
  /\ UNCHANGED <<asked, wallet, born, paid, got, adding, removing, market, pending, boot>>

-----------------------------------------------------------------------------
(* trade: a transaction for each match *)

Trading == exec.pc = "trading" /\ exec.unsaved = {} /\ exec.matchs # <<>>

Traded(m) == Truncated(Amounts(m))
Agree(maker, taker) ==
  /\ Amounts(maker).side # Amounts(taker).side
  /\ Traded(maker).owning = Traded(taker).requesting
  /\ Traded(maker).requesting = Traded(taker).owning

\* The owning of each leaves its operation, what it asked for is credited.
\* Mistake: the whole operation is completed.
SettleAll(w, m) ==
  LET u == UserOf[m.id]
  IN [w EXCEPT ![u][Owns(m.id)] = Complete(@, m.id, 0),
               ![u][Wants(m.id)] = Complete(Add(@, "trade", Traded(m).requesting), "trade", 0)]

Settle(w, m) ==
  LET u == UserOf[m.id]
  IN [w EXCEPT ![u][Owns(m.id)] = Complete(@, m.id, Traded(m).owning),
               ![u][Wants(m.id)] = Complete(Add(@, "trade", Traded(m).requesting), "trade", 0)]

CanSettle(m) == CanComplete(wallet[UserOf[m.id]][Owns(m.id)], m.id, Traded(m).owning)

\* The document of the trade is valid: what each of the two gets is positive.
TradeSaves(maker, taker) == Traded(maker).requesting > 0 /\ Traded(taker).requesting > 0

\* The asserts of trade, its document, and the operations its transaction finds.
CanTrade(maker, taker) ==
  /\ Agree(maker, taker) /\ TradeSaves(maker, taker)
  /\ CanSettle(maker) /\ CanSettle(taker)

Trade ==
  /\ Trading
  /\ LET maker == exec.matchs[1][1]
         taker == exec.matchs[1][2]
     IN /\ CanTrade(maker, taker)
        /\ wallet' = Settle(Settle(wallet, maker), taker)
        /\ doc' = [o \in Order |-> IF o \in {m.id : m \in {n \in {maker, taker} : n.part = {}}}
                                   THEN [doc[o] EXCEPT !.status = "none"] ELSE doc[o]]
        /\ paid' = [paid EXCEPT ![maker.id] = @ + Traded(maker).owning,
                                ![taker.id] = @ + Traded(taker).owning]
        /\ got' = [got EXCEPT ![maker.id] = @ + Traded(maker).requesting,
                              ![taker.id] = @ + Traded(taker).requesting]
  /\ exec' = [exec EXCEPT !.matchs = Tail(@)]
  /\ UNCHANGED <<asked, born, adding, removing, order, market, pending, boot>>

\* The matches after one that fails are not traded.
TradeFails ==
  /\ Trading
  /\ "db" \in Faults \/ ~CanTrade(exec.matchs[1][1], exec.matchs[1][2])
  /\ Fail
  /\ UNCHANGED <<database, adding, removing, order, market, pending, boot>>

EndExec ==
  /\ exec.pc = "trading" /\ exec.unsaved = {} /\ exec.matchs = <<>>
  /\ exec' = NoExec
  /\ UNCHANGED <<database, adding, removing, order, market, pending, boot>>

-----------------------------------------------------------------------------
(* remove: a transaction around the remove of Market, which it cannot undo *)

RemoveFind(o) ==
  /\ o \in Removable
  /\ removing[o].pc = "off" /\ doc[o].status = "ready"
  /\ removing' = [removing EXCEPT ![o] = [pc |-> "found", found |-> doc[o]]]
  /\ UNCHANGED <<database, adding, memory>>

\* PriceNotFound, OrderNotFound: the transaction is aborted.
RemoveFromBook(o) ==
  /\ removing[o].pc = "found"
  /\ Yielded
  /\ LET price == Price(InMemory(removing[o].found))
     IN IF price \in Prices(market) /\ Contains(OrdersAt(market, price), o)
        THEN /\ market' = GetOrderFromIndex(market, price,
                            CHOOSE i \in DOMAIN OrdersAt(market, price) : OrdersAt(market, price)[i] = o)
             /\ removing' = [removing EXCEPT ![o].pc = "taken"]
        ELSE /\ removing' = [removing EXCEPT ![o].pc = "off"]
             /\ UNCHANGED market
  /\ UNCHANGED <<database, adding, order, pending, exec, boot>>

\* What changed since it was found is a write conflict.
\* Mistake: the order is removed as it was found.
CommitBlindly(o) ==
  /\ removing[o].pc = "taken"
  /\ doc[o].status # "none" /\ HasOp(wallet[UserOf[o]][Owns(o)], o)
  /\ doc' = [doc EXCEPT ![o].status = "none"]
  /\ UNCHANGED wallet
  /\ removing' = [removing EXCEPT ![o].pc = "off"]
  /\ UNCHANGED <<asked, born, paid, got, adding, memory>>

RemoveCommit(o) ==
  /\ removing[o].pc = "taken"
  /\ doc[o] = removing[o].found /\ HasOp(wallet[UserOf[o]][Owns(o)], o)
  /\ doc' = [doc EXCEPT ![o].status = "none"]
  /\ wallet' = [wallet EXCEPT ![UserOf[o]][Owns(o)] = Cancel(@, o)]
  /\ removing' = [removing EXCEPT ![o].pc = "off"]
  /\ UNCHANGED <<asked, born, paid, got, adding, memory>>

RemoveAborts(o) ==
  /\ removing[o].pc = "taken"
  /\ "db" \in Faults \/ doc[o] # removing[o].found
  /\ removing' = [removing EXCEPT ![o].pc = "lost"]
  /\ UNCHANGED <<database, adding, memory>>

-----------------------------------------------------------------------------
(* A crash loses the memory; bootstrap finds the orders that are ready, the *)
(* newest first.                                                            *)

Bootstrapped ==
  LET newest[n \in 0 .. Len(born)] ==
        IF n = 0 THEN <<>>
        ELSE IF doc[born[n]].status = "ready" THEN <<born[n]>> \o newest[n - 1] ELSE newest[n - 1]
  IN newest[Len(born)]

Restart ==
  /\ "crash" \in Faults
  /\ adding' = [o \in Order |-> IF adding[o] = "off" THEN "off" ELSE "done"]
  /\ removing' = [o \in Order |-> [pc |-> "off", found |-> doc[o]]]
  /\ order' = [o \in Order |-> InMemory(doc[o])]
  /\ market' = NoMarket
  /\ pending' = <<>>
  /\ exec' = NoExec
  /\ boot' = Bootstrapped
  /\ UNCHANGED database

ExecStep ==
  \/ SplitTaker \/ SplitMaker \/ MatchBoth \/ EndLoop
  \/ (\E o \in Order : SaveOrder(o)) \/ Trade \/ TradeFails \/ EndExec

AddStep(o) == Lock(o) \/ SetReady(o) \/ Added(o)
RemoveStep(o) == RemoveFromBook(o) \/ RemoveCommit(o) \/ RemoveAborts(o)

Next ==
  \/ \E o \in Order : Prepare(o) \/ AddStep(o) \/ RemoveFind(o) \/ RemoveStep(o)
  \/ Boot \/ NextPending \/ ExecStep \/ Restart

Spec == Init /\ [][Next]_vars

\* Promises settle: every call and execution that can go on does.
FairSpec ==
  /\ Spec
  /\ WF_vars(ExecStep) /\ WF_vars(NextPending) /\ WF_vars(Boot)
  /\ \A o \in Order : WF_vars(AddStep(o)) /\ WF_vars(RemoveStep(o))

-----------------------------------------------------------------------------
\* The list of nodes is sorted and has no empty node, an order is there once at
\* the price it asks, and the prices of the market are those of its best orders:
\* takes, splits, leftovers and removals keep it so, unless an order failed.
BestBuy == Max({0} \cup {Price(order[o]) : o \in {p \in InBook : order[p].side = "buy"}})
BestSell == Min({Infinity} \cup {Price(order[o]) : o \in {p \in InBook : order[p].side = "sell"}})

BookIsSound ==
  exec.pc \in {"idle", "trading"} =>
    /\ \A i \in DOMAIN market.book :
         /\ market.book[i].orders # <<>> /\ IsInjective(market.book[i].orders)
         /\ \A o \in ToSet(market.book[i].orders) : Price(order[o]) = market.book[i].price
         /\ \A j \in DOMAIN market.book : i < j => market.book[i].price < market.book[j].price
    /\ market.buy = BestBuy /\ market.sell = BestSell
    /\ BestBuy < BestSell

\* Every order that is ready still has the funds it offers locked, whatever was
\* traded of it, removed or lost in a crash; and an order without document has
\* no funds locked, unless some of it was traded (a crash between the saves of an
\* execution loses the part that was split off).
LockedFor(o) == LET w == wallet[UserOf[o]][Owns(o)] IN IF HasOp(w, o) THEN -w.pending[o] ELSE 0

ReadyIsBacked ==
  \A o \in Order :
    /\ doc[o].status = "ready" => LockedFor(o) >= doc[o].owning
    /\ LockedFor(o) > 0 => doc[o].status # "none" \/ paid[o] > 0

\* A trade moves funds between users and makes none.
FundsOf(c) == SumOf([u \in Person |-> wallet[u][c].available + wallet[u][c].locked], Person)
TradesConserve == \A c \in Currency : FundsOf(c) = Cardinality(Person) * Funds

\* A user gets a price as good as the one asked, never worse, over all the
\* parts an order was traded in.
NeverWorse ==
  \A o \in Order : paid[o] * asked[o].requesting =< got[o] * asked[o].owning

\* No match is traded at a price past the limit of either side ("sendo sempre o
\* preço mais vantajoso ou igual ao que a taker requisitou", market.ts), for as
\* long as what is cut of the amounts changes no price.
Within(asks, m) ==
  IF asks.side = "buy" THEN Price(m) =< Price(asks) ELSE Price(m) >= Price(asks)

WithinLimit ==
  exec.pc = "trading" => \A m \in Matched : Within(asked[m.id], Traded(m))

\* Save truncates an order that is in the book by then, which must not move its
\* price (the node in market.ts stays where it is); nor may what trade cuts from
\* a match.  Splits compute with more digits than are saved.
SavesKeepPrices ==
  \A o \in exec.unsaved : Valid(o) => Price(Truncated(order[o])) = Price(order[o])

CutsKeepPrices ==
  /\ SavesKeepPrices
  /\ exec.pc = "trading" => \A m \in Matched : Price(Traded(m)) = Price(Amounts(m))

\* An order that is ready is in the book, or on its way to it, unless an
\* execution failed or a removal took it out and was aborted.
InExec == {m.id : m \in Matched} \cup exec.taker \cup ToSet(exec.leftovers) \cup exec.unsaved
ReadyIsTradable ==
  exec.pc # "failed" =>
    \A o \in Order :
      doc[o].status = "ready" /\ adding[o] = "done" /\ removing[o].pc \in {"off", "found"}
        => o \in InBook \cup ToSet(pending) \cup ToSet(boot) \cup InExec

-----------------------------------------------------------------------------
(* What the code says, and does not keep. *)

\* Orders added before the one before has ended its match wait to be executed
\* when it ends (src/src/marketApi/market.ts): they do not wait for ever.
PendingExecuted == \A o \in Order : o \in ToSet(pending) ~> o \notin ToSet(pending)

\* "Should not match more orders than owning amount"
\* (src/tests/marketApi/matching.test.ts): what a taker gives in the matches of
\* an execution is at most what it has.
GivenByTaker == FoldLeft(LAMBDA sum, m : sum + Amounts(m[2]).owning, 0, exec.matchs)
MatchedWithinOwning == \A o \in exec.taker : GivenByTaker =< asked[o].owning
=============================================================================
