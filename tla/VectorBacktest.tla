---------------------------- MODULE VectorBacktest ----------------------------
(* The vectorised research backtest (backtest/vectorized.py): complete     *)
(* target weights, decided on one session, are traded at the next          *)
(* session's open and marked at every close.  Sales pay for purchases,     *)
(* purchases are scaled down until they and their fees can be paid, and    *)
(* after every rebalance the value of the portfolio must be what it was    *)
(* before, less the fees, to the last digit.                               *)
(*                                                                         *)
(* Money is in its last digit, quantities in units of 1/QuantityUnit: both *)
(* are results of Decimal operations and rounded.                          *)
EXTENDS EtfRotation

CONSTANTS
  QuantityUnit,
  FeeRules    \* Absent, or per side a set of effective-dated fee rules

ASSUME VectorBacktestAssumption ==
    /\ QuantityUnit \in Nat \ {0}
    /\ FeeRules # Absent =>
         \A side \in Sides : FeeRules[side] \subseteq FeeRuleRecord /\ IsFiniteSet(FeeRules[side])

\* VectorizedBacktestRequest
BacktestRequest(calendar, asOf, nav, version) ==
    [calendar |-> calendar, asOf |-> asOf, nav |-> nav, version |-> version]
ValidBacktestRequest(request, today) ==
    /\ request.calendar # << >> /\ request.nav > 0
    /\ \A j, k \in DOMAIN request.calendar : j < k => request.calendar[j] < request.calendar[k]
    /\ request.calendar[Len(request.calendar)] <= today
DaysOf(request) == ToSet(request.calendar)

\* _select_signals, _select_price_revisions, _select_benchmark_revisions
KnownSignals(request, signals) == {s \in signals : s.asOf <= request.asOf}
KnownBars(request, bars) ==
    {b \in Known(bars, request.asOf) : b.day \in DaysOf(request)}

\* _validate_and_group_signals: the signals of one day
Batch(signals, day) == {s \in signals : s.day = day}
BatchAccepted(batch) ==
    /\ \A s, t \in batch : s.asOf = t.asOf
    /\ \A s, t \in batch : s # t => s.instrument # t.instrument
    /\ MapThenSumSet(LAMBDA s : s.weight, batch) <= WeightUnit
SignalsAccepted(request, signals) ==
    LET last == request.calendar[Len(request.calendar)]
    IN  /\ \A s \in signals : s.version = request.version
        /\ \A s \in signals : s.day \in DaysOf(request) \ {last}
        /\ \A d \in DaysOf(request) : BatchAccepted(Batch(signals, d))

\* _validate_prices, _validate_benchmark: no day is filled in
RowsAccepted(request, rows) ==
    /\ ~Ambiguous(rows, BarKey)
    /\ \A r \in Newest(rows, BarKey) : r.version = request.version
BenchmarkAligned(request, rows) ==
    /\ RowsAccepted(request, rows)
    /\ Cardinality({r.instrument : r \in rows}) = 1
    /\ {r.day : r \in rows} = DaysOf(request)

-----------------------------------------------------------------------------
(* One rebalance.  An account is [cash, units]: units holds a quantity for *)
(* every instrument ever targeted and bought, also when it is sold out.    *)

Value(quantity, price) == Rounded(quantity * price, QuantityUnit)
Quantity(notional, price) == Rounded(notional * QuantityUnit, price)
Held(account, i) == IF i \in DOMAIN account.units THEN account.units[i] ELSE 0
Worth(account, price) ==
    account.cash
      + MapThenSumSet(LAMBDA i : Value(account.units[i], price[i]), DOMAIN account.units)

\* _trade: the fee of a trade
FeeKnown(side, day) == FeeRules = Absent \/ Latest(FeeRules[side], day) # Failed
FeeFor(side, day, notional) ==
    IF FeeRules = Absent THEN 0 ELSE FeeOf(Latest(FeeRules[side], day), notional)

\* what a rebalance wants: positive to buy, negative to sell
Wanted(account, target, price) ==
    LET worth == Worth(account, price)
    IN  [i \in DOMAIN account.units \cup DOMAIN target |->
           IF i \in DOMAIN target THEN Rounded(worth * target[i], WeightUnit) ELSE 0]
Change(account, wanted, price) ==
    [i \in DOMAIN wanted |-> wanted[i] - Value(Held(account, i), price[i])]

\* the sales: proceeds less fees
\* (SoldMutant: the fee of a sale is not taken)
SoldMutant(account, change, wanted, price, day) ==
    LET sells == {i \in DOMAIN change : change[i] < 0}
    IN  [cash |-> account.cash + MapThenSumSet(LAMBDA i : -change[i], sells),
         units |-> [i \in DOMAIN account.units |->
                      IF i \in sells THEN Quantity(wanted[i], price[i])
                      ELSE account.units[i]],
         fees |-> MapThenSumSet(LAMBDA i : FeeFor("SELL", day, -change[i]), sells)]
Sold(account, change, wanted, price, day) ==
    LET sells == {i \in DOMAIN change : change[i] < 0}
        fee(i) == FeeFor("SELL", day, -change[i])
    IN  [cash |-> account.cash
                    + MapThenSumSet(LAMBDA i : -change[i] - fee(i), sells),
         units |-> [i \in DOMAIN account.units |->
                      IF i \in sells THEN Quantity(wanted[i], price[i])
                      ELSE account.units[i]],
         fees |-> MapThenSumSet(fee, sells)]

\* _affordable_buy_scale: of all the purchases wanted, as much as the cash pays
\* for with the fees, everything scaled alike
Scaled(buys, amount) ==
    [i \in DOMAIN buys |-> Fraction(buys[i], amount, SumWeights(buys))]
Affordable(buys, cash, day) ==
    LET cost(amount) ==
          MapThenSumSet(LAMBDA i : Scaled(buys, amount)[i]
                                     + IF Scaled(buys, amount)[i] = 0 THEN 0
                                       ELSE FeeFor("BUY", day, Scaled(buys, amount)[i]),
                        DOMAIN buys)
    IN  IF cost(SumWeights(buys)) <= cash THEN SumWeights(buys)
        ELSE Max({0} \cup {a \in 1 .. cash : a < SumWeights(buys) /\ cost(a) <= cash})

\* the instruments sorted
InOrder(instruments) ==
    [k \in 1 .. Cardinality(instruments) |->
       CHOOSE i \in instruments : Cardinality({j \in instruments : j < i}) = k - 1]

\* the purchases in order of the instruments; the last ones are cut to what
\* the cash still pays for
Purchased(account, wanted, price, day) ==
    LET Buy(at, i) ==
          LET most     == at.cash - FeeFor("BUY", day, wanted[i])
              notional == Min({wanted[i], most})
              quantity == Held(at, i) + Quantity(notional, price[i])
              fee      == FeeFor("BUY", day, notional)
          IN  IF at = Failed \/ wanted[i] = 0 THEN at
              ELSE IF most <= 0 THEN Failed
              ELSE [cash |-> at.cash - notional - fee,
                    units |-> [j \in DOMAIN at.units \cup {i} |->
                                 IF j = i THEN quantity ELSE at.units[j]],
                    fees |-> at.fees + fee]
    IN  FoldLeft(Buy, account, InOrder(DOMAIN wanted))

Afforded(account, buys, amount, price, day) ==
    IF amount = 0 THEN Failed ELSE Purchased(account, Scaled(buys, amount), price, day)
Bought(account, buys, price, day) ==
    IF account.cash < 0 THEN Failed
    ELSE IF DOMAIN buys = {} THEN account
    ELSE Afforded(account, buys, Affordable(buys, account.cash, day), price, day)

\* _simulate: the rebalance of one day; gap is what its last check finds
\* missing, and any gap ends the run
Balanced(account, after, price) ==
    IF after = Failed THEN Failed
    ELSE [cash |-> after.cash, units |-> after.units,
          gap |-> Worth(account, price) - after.fees - Worth(after, price)]
Traded(account, wanted, change, price, day) ==
    LET buys == [i \in {j \in DOMAIN change : change[j] > 0} |-> change[i]]
    IN  IF \/ ~FeeKnown("SELL", day) /\ \E i \in DOMAIN change : change[i] < 0
           \/ ~FeeKnown("BUY", day) /\ DOMAIN buys # {}
        THEN Failed
        ELSE Balanced(account,
                      Bought(Sold(account, change, wanted, price, day), buys, price, day),
                      price)
Exchanged(account, wanted, price, day) ==
    Traded(account, wanted, Change(account, wanted, price), price, day)
Rebalance(account, target, price, day) ==
    IF Worth(account, price) <= 0 THEN Failed
    ELSE Exchanged(account, Wanted(account, target, price), price, day)

-----------------------------------------------------------------------------
(* A run.  It is Failed where the engine raises VectorizedBacktestError;   *)
(* a rebalance that does not balance ends it with the gap it found.        *)

\* the targets a day executes: the batch of the calendar's day before
TargetOn(request, signals, k) ==
    LET batch == IF k = 1 THEN {} ELSE Batch(signals, request.calendar[k - 1])
    IN  [i \in {s.instrument : s \in batch} |->
           (CHOOSE s \in batch : s.instrument = i).weight]

\* (PriceOfMutant: a day is marked at the last bar there is)
PriceOfMutant(rows, day, field) ==
    [i \in {b.instrument : b \in rows} |->
       (CHOOSE b \in rows : /\ b.instrument = i
                            /\ \A c \in rows : c.instrument = i => c.day <= b.day)[field]]
PriceOf(rows, day, field) ==
    [i \in {b.instrument : b \in {c \in rows : c.day = day}} |->
       (CHOOSE b \in rows : b.instrument = i /\ b.day = day)[field]]

\* one day of _simulate; run is [state, cash, units, points, gap]
Valued(run, day, traded, nav) ==
    IF nav <= 0 THEN [run EXCEPT !.state = "FAILED"]
    ELSE [run EXCEPT !.cash = traded.cash, !.units = traded.units,
                     !.points = Append(@, [day |-> day, nav |-> nav, cash |-> traded.cash,
                                           units |-> traded.units])]
Marked(run, day, traded, close) ==
    IF traded = Failed THEN [run EXCEPT !.state = "FAILED"]
    ELSE IF traded.gap # 0
    THEN [run EXCEPT !.state = "UNBALANCED",
                     !.gap = [day |-> day, amount |-> traded.gap,
                              traded |-> DOMAIN traded.units]]
    ELSE Valued(run, day, traded, Worth(traded, close))
Followed(run, day, target, open, close) ==
    LET account == [cash |-> run.cash, units |-> run.units, fees |-> 0]
    IN  IF ~(DOMAIN run.units \cup DOMAIN target \subseteq DOMAIN open)
        THEN [run EXCEPT !.state = "FAILED"]
        ELSE Marked(run, day,
                    IF DOMAIN target = {}
                    THEN [cash |-> run.cash, units |-> run.units, gap |-> 0]
                    ELSE Rebalance(account, target, open, day),
                    close)
Simulated(request, signals, rows, run, k) ==
    LET day == request.calendar[k]
    IN  IF run.state # "RUNNING" THEN run
        ELSE Followed(run, day, TargetOn(request, signals, k),
                      PriceOf(rows, day, "open"), PriceOf(rows, day, "close"))

\* VectorizedBacktestEngine.run
Outcome(end) ==
    IF end.state = "FAILED" THEN Failed
    ELSE [state |-> IF end.state = "RUNNING" THEN "DONE" ELSE end.state,
          points |-> end.points, gap |-> end.gap]
Run(request, signals, bars, benchmark) ==
    LET known == KnownSignals(request, signals)
        rows  == KnownBars(request, bars)
        start == [state |-> "RUNNING", cash |-> request.nav,
                  units |-> [i \in {} |-> 0], points |-> << >>, gap |-> Absent]
        Day(run, k) == Simulated(request, known, Newest(rows, BarKey), run, k)
    IN  IF \/ ~SignalsAccepted(request, known)
           \/ ~RowsAccepted(request, rows)
           \/ ~BenchmarkAligned(request, KnownBars(request, benchmark))
        THEN Failed
        ELSE Outcome(FoldLeft(Day, start, [k \in DOMAIN request.calendar |-> k]))
=============================================================================
