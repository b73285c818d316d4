------------------------------ MODULE MCMarket ------------------------------
(***************************************************************************)
(* Instances of the market: buyers and sellers at two prices, with makers  *)
(* that are smaller than, as large as and larger than the takers.          *)
(***************************************************************************)
EXTENDS Market

CONSTANTS o1, o2, o3, u1, u2

Buy(owning, requesting) == [side |-> "buy", owning |-> owning, requesting |-> requesting]
Sell(owning, requesting) == [side |-> "sell", owning |-> owning, requesting |-> requesting]

MCUserOf == [o \in Order |-> IF o = o2 THEN u2 ELSE u1]

\* Prices 1 and 2; halving an amount three times leaves whole units.
MCKinds == {Buy(64, 64), Buy(64, 32), Sell(16, 16), Sell(16, 32), Sell(64, 64)}

\* A buyer who offers more than a seller asks, for a part of what he has.
BetterPrice == {Buy(8, 4), Sell(16, 16)}

\* A buyer of two, and sellers of three.
TwoOfThree == {Buy(4, 4), Sell(6, 6)}

\* A buyer who is filled in part: a save cuts a digit from what is left of him.
CutPrice == {Buy(20, 14), Sell(10, 10)}

\* A seller whose price is rounded to nothing.
NoPrice == {Buy(16, 16), Sell(64, 16)}
=============================================================================
