----------------------------- MODULE MCTradingDay -----------------------------
(***************************************************************************)
(* TLC instance of TradingDay: an ETF that is held and a stock, two days   *)
(* of three ticks, and two markets that differ in capacity, suspension and *)
(* limits.  Money is counted in whole units, lots in pairs.                *)
(***************************************************************************)
EXTENDS TradingDay

MCTypeOf == [i \in {1, 2} |-> IF i = 1 THEN "ETF" ELSE "STOCK"]
MCIndustryOf == [i \in {1, 2} |-> "tech"]
MCBuilder == [etf |-> 6000, stock |-> 3000, cash |-> 500, single |-> 6000, industry |-> 2500]
MCPolicy ==
  [total |-> 9500, etf |-> 7000, stock |-> 3000, industry |-> 3000, singleEtf |-> 5800,
   singleStock |-> 2600, turnover |-> 6000, turnoverWarning |-> 3000,
   drawdown |-> 0, drawdownWarning |-> 800, drawdownStop |-> 1200]

MCRule ==
  [from |-> 0, to |-> Absent, buyLot |-> 2, sellLot |-> 2, oddLot |-> TRUE, settle |-> 1,
   participation |-> 50, tick |-> 1]
MCMarketRules == [type \in {"ETF", "STOCK"} |-> {MCRule}]
MCFee == [from |-> 0, to |-> Absent, commission |-> 2, minimum |-> 1, stamp |-> 0,
          transfer |-> 0, other |-> 0, unit |-> 1]
MCFeeRules ==
  [type \in {"ETF", "STOCK"} |->
     [side \in Sides |->
        {IF type = "STOCK" /\ side = "SELL" THEN [MCFee EXCEPT !.stamp = 5] ELSE MCFee}]]
MCSlippage == {[from |-> 0, to |-> Absent, base |-> 5, impact |-> 10, cap |-> 30]}
MCCalendar == <<0, 1, 2>>

State(i, day, at, price, limits, quantity) ==
  [instrument |-> i, day |-> day, observed |-> at, available |-> at, state |-> "NORMAL",
   buy |-> TRUE, sell |-> TRUE, price |-> price,
   lower |-> IF limits THEN 3 ELSE Absent, upper |-> IF limits THEN 6 ELSE Absent,
   quantity |-> quantity]
SuspendedState(s) == [s EXCEPT !.state = "SUSPENDED", !.buy = FALSE, !.sell = FALSE]

MCMarkets ==
  {{State(1, 0, 0, 4, TRUE, 40), State(1, 0, 1, e, TRUE, cap), State(1, 1, 3, e, TRUE, 40),
    State(2, 0, 0, 5, FALSE, 20), State(2, 0, 1, p, FALSE, 8), State(2, 1, 3, p, FALSE, 20),
    SuspendedState(State(2, 1, 4, p, FALSE, 8))}
   : e \in {3, 6}, p \in {4, 6}, cap \in {2, 6, 20}}

MCSleeves ==
  {[i \in {1, 2} |-> IF i = 1 THEN e ELSE p] : e \in {25, 80, 100}, p \in {0, 100}}
MCOpeningLots ==
  [i \in {1, 2} |->
     IF i = 1 THEN {[id |-> 1, quantity |-> 3, acquired |-> 0, sellable |-> 1, frozen |-> 0],
                    [id |-> 2, quantity |-> 4, acquired |-> 0, sellable |-> 0, frozen |-> 1]}
     ELSE {}]
MCOpeningPrice == [i \in {1, 2} |-> IF i = 1 THEN 4 ELSE 5]
=============================================================================
