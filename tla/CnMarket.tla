------------------------------- MODULE CnMarket -------------------------------
(***************************************************************************)
(* The market mechanics the backtest, the order drafts and the paper       *)
(* matching engine share (backtest/cn_market.py, backtest/rules.py): the   *)
(* effective-dated rules, the point-in-time session state of an            *)
(* instrument, lot sizes, settlement, slippage and fees, and one match of  *)
(* an order against the capacity of a session.                             *)
(*                                                                         *)
(* Decimals are whole multiples of one unit of money and rates are whole   *)
(* per cents; a quotient is rounded exactly where the code rounds it.      *)
(* Failed is what an operator yields where the code raises.                *)
(***************************************************************************)
EXTENDS Integers, Sequences, FiniteSets

CONSTANTS
  Failed,   \* the code refused
  Absent    \* no value (None)

Sides == {"BUY", "SELL"}
Least(a, b) == IF a <= b THEN a ELSE b
Largest(a, b) == IF a >= b THEN a ELSE b
PerCent == 100

FloorTo(n, unit) == (n \div unit) * unit
CeilTo(n, unit) == FloorTo(n + unit - 1, unit)
HalfUp(n, d) == (2 * n + d) \div (2 * d)

-----------------------------------------------------------------------------
(* The values of a market rule, a fee rule, a slippage model and a session *)
(* state, as their constructors validate them.                             *)

MarketRuleRecord ==
  [from : Nat, to : Nat \cup {Absent}, buyLot : Nat \ {0}, sellLot : Nat \ {0},
   oddLot : BOOLEAN, settle : Nat, participation : 1..PerCent, tick : Nat \ {0}]
FeeRuleRecord ==
  [from : Nat, to : Nat \cup {Absent}, commission : Nat, minimum : Nat, stamp : Nat,
   transfer : Nat, other : Nat, unit : Nat \ {0}]
SlippageRecord ==
  [from : Nat, to : Nat \cup {Absent}, base : Nat, impact : Nat, cap : 0..(PerCent - 1)]

LimitStates == {"ONE_PRICE_LIMIT_UP", "LIMIT_UP", "ONE_PRICE_LIMIT_DOWN", "LIMIT_DOWN"}

SessionRecord ==
  [instrument : Nat, day : Nat, observed : Nat, available : Nat,
   state : LimitStates \cup {"NORMAL", "SUSPENDED"}, buy : BOOLEAN, sell : BOOLEAN,
   price : Nat, lower : Nat \cup {Absent}, upper : Nat \cup {Absent}, quantity : Nat]

(* Rules, slippage models and fee rules are effective from a day, some to  *)
(* a day; the books refuse two with one effective boundary.                *)

AppliesOn(item, day) == item.from <= day /\ (item.to = Absent \/ day <= item.to)

Latest(items, day) ==
  LET known == {i \in items : AppliesOn(i, day)}
  IN  IF known = {} THEN Failed
      ELSE CHOOSE i \in known : \A j \in known : j.from <= i.from

Unambiguous(items) == \A i, j \in items : i.from = j.from => i = j

(* The first trading day on which units bought on day may be sold.         *)
SellableOn(rule, calendar, day) ==
  IF rule.settle = 0 THEN day
  ELSE LET at == {i \in DOMAIN calendar : calendar[i] = day}
       IN  IF at = {} \/ \E i \in at : i + rule.settle > Len(calendar) THEN Failed
           ELSE calendar[(CHOOSE i \in at : TRUE) + rule.settle]

-----------------------------------------------------------------------------
(* MarketSessionState: what was known of an instrument on one day.         *)

ValidSession(s) ==
  /\ s.observed <= s.available
  /\ s.price > 0 /\ s.quantity >= 0
  /\ (s.lower = Absent) <=> (s.upper = Absent)
  /\ s.upper # Absent =>
       /\ 0 < s.lower /\ s.lower < s.upper
       /\ s.lower <= s.price /\ s.price <= s.upper
       /\ s.state \in {"ONE_PRICE_LIMIT_UP", "LIMIT_UP"} => s.price = s.upper
       /\ s.state \in {"ONE_PRICE_LIMIT_DOWN", "LIMIT_DOWN"} => s.price = s.lower
  /\ s.state \in LimitStates => s.upper # Absent
  /\ s.state = "SUSPENDED" => ~s.buy /\ ~s.sell

TickAligned(rule, s) ==
  /\ s.price % rule.tick = 0
  /\ s.upper # Absent => s.upper % rule.tick = 0 /\ s.lower % rule.tick = 0

(* The latest state of the instrument's day known at a time, if it is the  *)
(* only one with that time.                                                *)
StateFor(sessions, rule, instrument, day, at) ==
  LET known  == {s \in sessions : /\ s.instrument = instrument /\ s.day = day
                                  /\ s.observed <= at /\ s.available <= at}
      latest == {s \in known : \A o \in known : o.available <= s.available}
  IN  IF Cardinality(latest) # 1 THEN Failed
      ELSE LET s == CHOOSE x \in latest : TRUE
           IN  IF TickAligned(rule, s) THEN s ELSE Failed

SideAllowed(s, side) == IF side = "BUY" THEN s.buy ELSE s.sell

ValidQuantity(rule, side, quantity, full) ==
  /\ quantity > 0
  /\ side = "BUY" => quantity % rule.buyLot = 0
  /\ side = "SELL" => quantity % rule.sellLot = 0 \/ (rule.oddLot /\ full)

-----------------------------------------------------------------------------
(* The adverse price of filling quantity out of a capacity: the rate is    *)
(* the capped sum of a base and a share of the participation, the price is *)
(* rounded against the trader to a tick and kept inside the daily limits.  *)
(* The participation is an exact fraction: the code's is one of Decimal's  *)
(* 28 digits, rounded where it does not end.                               *)

SlippedPrice(model, side, price, quantity, capacity, tick) ==
  LET rate == Least(model.base * capacity + model.impact * quantity, model.cap * capacity)
      den  == PerCent * capacity
      raw  == IF side = "BUY" THEN price * (den + rate) ELSE price * (den - rate)
      step == den * tick
      paid == IF side = "BUY" THEN CeilTo(raw, step) \div den ELSE FloorTo(raw, step) \div den
  IN  IF paid <= 0 THEN Failed ELSE paid

InLimits(s, price) ==
  IF s.upper = Absent THEN price ELSE Largest(Least(price, s.upper), s.lower)

(* FeeRule.assess: the commission has a minimum, every part is rounded.    *)
FeeOf(rule, gross) ==
  LET rounded(rate) == HalfUp(gross * rate, PerCent * rule.unit) * rule.unit
      commission    == HalfUp(Largest(gross * rule.commission, rule.minimum * PerCent),
                              PerCent * rule.unit) * rule.unit
  IN  commission + rounded(rule.stamp) + rounded(rule.transfer) + rounded(rule.other)

CashChange(side, gross, fee) == IF side = "BUY" THEN -(gross + fee) ELSE gross - fee

-----------------------------------------------------------------------------
(* CNMarketRule.match: how much of an order a session takes, at what price.*)

NoFill(reason) == [filled |-> 0, price |-> 0, reason |-> reason]

Capacity(rule, s) == (s.quantity * rule.participation) \div PerCent

Fillable(rule, s, side, requested, full) ==
  LET unit      == IF side = "BUY" THEN rule.buyLot ELSE rule.sellLot
      candidate == Least(requested, Capacity(rule, s))
  IN  IF side = "SELL" /\ rule.oddLot /\ full /\ candidate >= requested
      THEN requested
      ELSE FloorTo(candidate, unit)

(* _validate_order: the checks of an order against its session.            *)
Matchable(rule, s, order) ==
  /\ s.state # "SUSPENDED" /\ SideAllowed(s, order.side)
  /\ ValidQuantity(rule, order.side, order.quantity, order.full)
  /\ order.limit # Absent =>
       /\ order.limit % rule.tick = 0
       /\ s.upper # Absent => s.lower <= order.limit /\ order.limit <= s.upper

Match(rule, model, s, order, partial) ==
  LET quantity == Fillable(rule, s, order.side, order.quantity, order.full)
      slipped  == SlippedPrice(model, order.side, s.price, quantity, s.quantity, rule.tick)
      price    == InLimits(s, slipped)
      marketable == \/ order.limit = Absent
                    \/ order.side = "BUY" /\ price <= order.limit
                    \/ order.side = "SELL" /\ price >= order.limit
  IN  IF ~Matchable(rule, s, order) THEN Failed
      ELSE IF quantity <= 0 THEN NoFill("ZERO_CAPACITY")
      ELSE IF quantity < order.quantity /\ ~partial THEN NoFill("PARTIAL_FILL_DISABLED")
      ELSE IF slipped = Failed THEN Failed
      ELSE IF ~marketable THEN NoFill("LIMIT_NOT_MARKETABLE")
      ELSE [filled |-> quantity, price |-> price, reason |-> Absent]
=============================================================================
