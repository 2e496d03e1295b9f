----------------------------- MODULE EventBacktest -----------------------------
(***************************************************************************)
(* The event-driven backtest engine (backtest/engine.py, contracts.py):    *)
(* it consumes a stream of target, order, fill, fee, cash and position     *)
(* events and keeps a ledger of its own.  An event is committed whole or   *)
(* not at all, so every action below is one accepted event; what the       *)
(* engine refuses leaves no trace.  The stream may bring any event next.   *)
(***************************************************************************)
EXTENDS CnMarket, FiniteSetsExt, SequencesExt

CONSTANTS
  Signals, OrderIds, FillIds,   \* identities the stream uses
  Quantities, Prices, Limits,   \* what its orders and fills ask for
  Targets,                      \* directions and quantities its targets name
  Rule, FeeRule, Sessions,      \* market rule, fee rule, session of each day
  Calendar,                     \* trading days, in order
  Configs,                      \* EventBacktestConfig values
  OpeningCash, OpeningLots

VARIABLES
  config,      \* the run's EventBacktestConfig, and whether a fee book is set
  day,         \* trading day of the last event
  cash,
  position,    \* [quantity, cost, lots], quantity negative when short
  targets,     \* replayed targets, by signal
  orders,      \* order records
  fills,       \* fill records
  due          \* cash and position events the stream still owes, by source

vars == <<config, day, cash, position, targets, orders, fills, due>>

(* What the contracts validate of the values a run is built from.          *)
OrderStatus == {"CREATED", "SUBMITTED", "ACCEPTED", "PARTIALLY_FILLED", "FILLED", "CANCELED",
                "REJECTED"}
FillStatus == {"CREATED", "CONFIRMED", "SETTLED", "CANCELED", "REVERSED"}
Lot == [quantity : Nat \ {0}, sellable : Int]

TargetRecord == [direction : {"LONG", "SHORT", "FLAT"}, quantity : Nat \cup {Absent}]
OrderRecord ==
  [signal : Signals, side : Sides, quantity : Nat \ {0}, limit : Limits, status : OrderStatus,
   filled : Nat, confirmed : Nat]
FillRecord ==
  [order : OrderIds, side : Sides, quantity : Nat \ {0}, price : Nat \ {0}, day : Nat,
   status : FillStatus, applied : BOOLEAN, fee : Nat \cup {Absent}, opened : Nat,
   after : (Int \X Int) \cup {Absent}]

ASSUME EventAssumption ==
  /\ IsFiniteSet(FillIds)
  /\ Quantities \subseteq Nat \ {0} /\ Prices \subseteq Nat \ {0}
  /\ Targets \subseteq TargetRecord
  /\ OpeningCash \in Int /\ OpeningLots \in Seq(Lot)
  /\ Calendar \in Seq(Int) /\ Rule.settle \in Nat
  /\ FeeRule.unit \in Nat \ {0}
  /\ {FeeRule.commission, FeeRule.minimum, FeeRule.stamp, FeeRule.transfer,
      FeeRule.other} \subseteq Nat
  /\ Absent \notin Int /\ Absent \notin OrderRecord /\ Absent \notin FillRecord

NoCost == 0
UnitsOf(lots) == FoldLeft(LAMBDA n, l : n + l.quantity, 0, lots)

(* A run's safety policy, and the opening ledger it allows.                *)
EventBacktestConfig ==
  [negativeCash : BOOLEAN, shortSales : BOOLEAN, unsettledSales : BOOLEAN,
   requireTarget : BOOLEAN, ledgerEvents : BOOLEAN, feeBook : BOOLEAN]

ValidRun(run) == run \in EventBacktestConfig /\ (run.negativeCash \/ OpeningCash >= 0)

InitialPosition ==
  [quantity |-> UnitsOf(OpeningLots), cost |-> UnitsOf(OpeningLots), lots |-> OpeningLots]

Init ==
  /\ config \in {run \in Configs : ValidRun(run)}
  /\ day = 0
  /\ cash = OpeningCash
  /\ position = InitialPosition
  /\ targets = [s \in Signals |-> Absent]
  /\ orders = [o \in OrderIds |-> Absent]
  /\ fills = [f \in FillIds |-> Absent]
  /\ due = {}

-----------------------------------------------------------------------------
(* Order and fill records.                                                 *)

Terminal == {"FILLED", "CANCELED", "REJECTED"}
Working == {"ACCEPTED", "PARTIALLY_FILLED"}

OrderTransitions ==
  [CREATED |-> {"SUBMITTED", "CANCELED"}, SUBMITTED |-> {"ACCEPTED", "CANCELED", "REJECTED"},
   ACCEPTED |-> {"PARTIALLY_FILLED", "FILLED", "CANCELED"},
   PARTIALLY_FILLED |-> {"PARTIALLY_FILLED", "FILLED", "CANCELED"},
   FILLED |-> {}, CANCELED |-> {}, REJECTED |-> {}]

FillTransitions ==
  [CREATED |-> {"CONFIRMED", "CANCELED"}, CONFIRMED |-> {"SETTLED", "REVERSED"},
   SETTLED |-> {"REVERSED"}, CANCELED |-> {}, REVERSED |-> {}]

Known(table) == {k \in DOMAIN table : table[k] # Absent}
FillsOfOrder(o) == {f \in Known(fills) : fills[f].order = o}
QuantityOver(S) == MapThenSumSet(LAMBDA f : fills[f].quantity, S)
Pending(o) == QuantityOver({f \in FillsOfOrder(o) : fills[f].status = "CREATED"})
ActiveQuantityMutant(o) ==
  QuantityOver({f \in FillsOfOrder(o) : fills[f].status \in {"CONFIRMED", "SETTLED"}})
ActiveQuantity(o) ==
  QuantityOver({f \in FillsOfOrder(o) : fills[f].status \notin {"CANCELED", "REVERSED"}})

(* A filled quantity an event of that status may carry.                    *)
PlausibleFilled(status, filled, quantity) ==
  /\ status = "PARTIALLY_FILLED" => 0 < filled /\ filled < quantity
  /\ status = "FILLED" => filled = quantity
  /\ status \in {"CREATED", "SUBMITTED", "ACCEPTED", "REJECTED"} => filled = 0

-----------------------------------------------------------------------------
(* The events.                                                             *)

Advance ==
  /\ day + 1 \in DOMAIN Sessions
  /\ day' = day + 1
  /\ UNCHANGED <<config, cash, position, targets, orders, fills, due>>

(* A target: a direction with a quantity, or with a weight (no quantity).  *)
TargetEvent(direction, quantity) ==
  IF (direction = "FLAT") <=> (quantity = 0)
    THEN [direction |-> direction, quantity |-> quantity] ELSE Failed

Target(s, direction, quantity) ==
  /\ targets[s] = Absent
  /\ direction = "SHORT" => config.shortSales
  /\ TargetEvent(direction, quantity) # Failed
  /\ targets' = [targets EXCEPT ![s] = TargetEvent(direction, quantity)]
  /\ UNCHANGED <<config, day, cash, position, orders, fills, due>>

Desired(target) == IF target.direction = "SHORT" THEN -target.quantity ELSE target.quantity

ImplementsTarget(target, side, quantity) ==
  target.quantity # Absent =>
    LET delta == Desired(target) - position.quantity
    IN  delta # 0 /\ side = (IF delta > 0 THEN "BUY" ELSE "SELL") /\ quantity = Largest(delta, -delta)

(* An order's first event: created, nothing filled, its price known.       *)
OrderEvent(s, side, quantity, limit) ==
  [signal |-> s, side |-> side, quantity |-> quantity, limit |-> limit,
   status |-> "CREATED", filled |-> 0, confirmed |-> 0]

CreateOrder(o, s, side, quantity, limit) ==
  LET order == [side |-> side, quantity |-> quantity, limit |-> limit, full |-> FALSE]
  IN  /\ orders[o] = Absent
      /\ config.requireTarget => targets[s] # Absent
      /\ targets[s] # Absent =>
           /\ ImplementsTarget(targets[s], side, quantity)
           /\ \A p \in Known(orders) : orders[p].signal = s
                                    => orders[p].status \in Terminal
      /\ Matchable(Rule, Sessions[day], order)
      /\ orders' = [orders EXCEPT ![o] = OrderEvent(s, side, quantity, limit)]
      /\ UNCHANGED <<config, day, cash, position, targets, fills, due>>

UpdateOrder(o, status, filled) ==
  /\ status \in OrderTransitions[orders[o].status]
  /\ PlausibleFilled(status, filled, orders[o].quantity)
  /\ status \in {"PARTIALLY_FILLED", "FILLED", "CANCELED"} => filled = orders[o].confirmed
  /\ status = "CANCELED" => Pending(o) = 0
  /\ orders' = [orders EXCEPT ![o].status = status, ![o].filled = filled]
  /\ UNCHANGED <<config, day, cash, position, targets, fills, due>>

WithinLimit(order, price) ==
  order.limit # Absent =>
    IF order.side = "BUY" THEN price <= order.limit ELSE price >= order.limit

FillEvent(o, quantity, price) ==
  [order |-> o, side |-> orders[o].side, quantity |-> quantity, price |-> price,
   day |-> day, status |-> "CREATED", applied |-> FALSE, fee |-> Absent,
   opened |-> 0, after |-> Absent]

CreateFill(f, o, quantity, price) ==
  /\ fills[f] = Absent
  /\ orders[o].status \in Working
  /\ WithinLimit(orders[o], price)
  /\ ActiveQuantity(o) + quantity <= orders[o].quantity
  /\ fills' = [fills EXCEPT ![f] = FillEvent(o, quantity, price)]
  /\ UNCHANGED <<config, day, cash, position, targets, orders, due>>

(* _apply_buy covers a short first; what is left opens a long lot.         *)
Short == Largest(-position.quantity, 0)
OpenedMutant(fill) == fill.quantity
Opened(fill) == fill.quantity - Least(fill.quantity, Short)

Bought(fill) ==
  LET opened  == Opened(fill)
      short   == Short - (fill.quantity - opened)
      base    == IF position.quantity < 0
                 THEN (position.cost * short) \div Short ELSE position.cost
      lot     == [quantity |-> opened, sellable |-> SellableOn(Rule, Calendar, fill.day)]
  IN  IF opened > 0 /\ lot.sellable = Failed THEN Failed
      ELSE [quantity |-> position.quantity + fill.quantity,
            cost |-> base + opened * fill.price,
            lots |-> IF opened > 0 THEN Append(position.lots, lot) ELSE position.lots,
            opened |-> opened]

(* _consume_lots: settled lots first, the others only when allowed.  Lots  *)
(* are kept in the order they are consumed in: a later sale can tell only  *)
(* how many units are settled and the order of the unsettled lots, and     *)
(* both are those of the order of purchase.                                *)
KeepLots(lots, kept) ==
  FoldLeft(LAMBDA done, l : IF l \in kept THEN Append(done, l) ELSE done, <<>>, lots)
Eligible(lots, at) == {l \in ToSet(lots) : l.sellable <= at}
ConsumeOrder(lots, at) ==
  KeepLots(lots, Eligible(lots, at)) \o KeepLots(lots, ToSet(lots) \ Eligible(lots, at))

Consume(lots, quantity, at) ==
  LET ordered == ConsumeOrder(lots, at)
      before  == [k \in DOMAIN ordered |-> UnitsOf(SubSeq(ordered, 1, k - 1))]
      taken   == [k \in DOMAIN ordered |->
                    Least(ordered[k].quantity, Largest(quantity - before[k], 0))]
      left == [k \in DOMAIN ordered |-> [ordered[k] EXCEPT !.quantity = @ - taken[k]]]
  IN  KeepLots(left, {l \in ToSet(left) : l.quantity > 0})

SellableUnits(lots, at) == UnitsOf(KeepLots(lots, Eligible(lots, at)))

(* _apply_sell: it closes the long position and, when short sales are      *)
(* allowed, opens a short one with the rest.                               *)
Sold(fill) ==
  LET long    == Largest(position.quantity, 0)
      closing == Least(fill.quantity, long)
      excess  == fill.quantity - long
      sellable == IF position.quantity <= 0 THEN 0 ELSE SellableUnits(position.lots, fill.day)
      kept    == IF closing > 0 /\ position.quantity > 0
                 THEN (position.cost * (long - closing)) \div long ELSE position.cost
  IN  IF \/ closing > sellable /\ ~config.unsettledSales
         \/ excess > 0 /\ ~config.shortSales
      THEN Failed
      ELSE [quantity |-> position.quantity - fill.quantity,
            cost |-> kept + Largest(excess, 0) * fill.price,
            lots |-> IF excess > 0 THEN <<>> ELSE Consume(position.lots, closing, fill.day),
            opened |-> 0]

(* A movement of cash, with the cash event it makes the stream owe.        *)
CashEvent(source, delta) ==
  [kind |-> "CASH", source |-> source, day |-> day, change |-> delta, after |-> cash + delta]
CashDue(source, delta) == IF delta = 0 THEN {} ELSE {CashEvent(source, delta)}

PositionEvent(source, quantity, cost) ==
  [kind |-> "POSITION", source |-> source, day |-> day, change |-> quantity, after |-> cost]
PositionDue(source, quantity, cost) == {PositionEvent(source, quantity, cost)}
(* No position event can carry a negative quantity: a short is never       *)
(* attested.                                                               *)
Expressible(d) == d.kind = "POSITION" => d.change >= 0

FeesPaid == \A f \in Known(fills) : fills[f].applied => fills[f].fee # Absent

ConfirmFill(f) ==
  LET fill   == fills[f]
      delta  == IF fill.side = "SELL" THEN fill.quantity * fill.price
                ELSE -(fill.quantity * fill.price)
      after  == IF fill.side = "BUY" THEN Bought(fill) ELSE Sold(fill)
      o      == fill.order
  IN  /\ "CONFIRMED" \in FillTransitions[fill.status]
      /\ ~fill.applied
      /\ orders[o].status \in Working
      /\ orders[o].confirmed + fill.quantity <= orders[o].quantity
      /\ config.feeBook => FeesPaid
      /\ config.negativeCash \/ cash + delta >= 0
      /\ after # Failed
      /\ cash' = cash + delta
      /\ position' = [quantity |-> after.quantity, cost |-> after.cost, lots |-> after.lots]
      /\ orders' = [orders EXCEPT ![o].confirmed = @ + fill.quantity]
      /\ fills' = [fills EXCEPT ![f].status = "CONFIRMED", ![f].applied = TRUE,
                                ![f].opened = after.opened,
                                ![f].after = <<after.quantity, after.cost>>]
      /\ due' = due \cup CashDue(<<"FILL", f>>, delta)
                    \cup PositionDue(<<"FILL", f>>, after.quantity, after.cost)
      /\ UNCHANGED <<config, day, targets>>

(* Settlement and cancellation of a fill change its status only; a         *)
(* reversal is refused.                                                    *)
UpdateFill(f, status) ==
  /\ status \in FillTransitions[fills[f].status] \ {"CONFIRMED", "REVERSED"}
  /\ fills' = [fills EXCEPT ![f].status = status]
  /\ UNCHANGED <<config, day, cash, position, targets, orders, due>>

(* A fee is charged once, on the trading day its fill was created; on a    *)
(* BUY it belongs to the cost of the position the fill left behind.        *)
FeeAllowedMutant(fill) ==
  fill.applied /\ fill.status \in {"CONFIRMED", "SETTLED"} /\ fill.day = day
FeeAllowed(fill) ==
  fill.applied /\ fill.status \in {"CONFIRMED", "SETTLED"} /\ fill.fee = Absent /\ fill.day = day

FeeEvent(f) ==
  LET fill  == fills[f]
      fee   == FeeOf(FeeRule, fill.quantity * fill.price)
      costs == fill.side = "BUY" /\ fill.opened > 0 /\ fee > 0
      added == (fee * fill.opened) \div fill.quantity
  IN  /\ FeeAllowed(fill)
      /\ config.negativeCash \/ cash - fee >= 0
      /\ costs => fill.after = <<position.quantity, position.cost>>
      /\ cash' = cash - fee
      /\ fills' = [fills EXCEPT ![f].fee = fee]
      /\ position' = IF costs THEN [position EXCEPT !.cost = @ + added] ELSE position
      /\ due' = due \cup CashDue(<<"FEE", f>>, -fee)
                    \cup (IF costs
                          THEN PositionDue(<<"FEE", f>>, position.quantity, position.cost + added)
                          ELSE {})
      /\ UNCHANGED <<config, day, targets, orders>>

(* A cash or position event attests a movement the ledger made, while the  *)
(* ledger still says what it said then.  A run that does not require them  *)
(* accepts them too; its stream is taken to bring none.                    *)
Attest(d) ==
  /\ config.ledgerEvents
  /\ d.day = day
  /\ d.kind = "CASH" => d.after = cash
  /\ Expressible(d)
  /\ d.kind = "POSITION" => <<d.change, d.after>> = <<position.quantity, position.cost>>
  /\ due' = due \ {d}
  /\ UNCHANGED <<config, day, cash, position, targets, orders, fills>>

Next ==
  \/ Advance
  \/ \E s \in Signals, t \in Targets : Target(s, t.direction, t.quantity)
  \/ \E o \in OrderIds, s \in Signals, side \in Sides, n \in Quantities, p \in Limits :
       CreateOrder(o, s, side, n, p)
  \/ \E o \in Known(orders), status \in DOMAIN OrderTransitions :
       \E n \in 0..orders[o].quantity : UpdateOrder(o, status, n)
  \/ \E f \in FillIds, o \in Known(orders), n \in Quantities, p \in Prices :
       CreateFill(f, o, n, p)
  \/ \E f \in Known(fills) : ConfirmFill(f) \/ FeeEvent(f)
  \/ \E f \in Known(fills), status \in DOMAIN FillTransitions : UpdateFill(f, status)
  \/ \E d \in due : Attest(d)

Spec == Init /\ [][Next]_vars

-----------------------------------------------------------------------------
Applied == {f \in Known(fills) : fills[f].applied}
Signed(f) == IF fills[f].side = "BUY" THEN fills[f].quantity ELSE -fills[f].quantity
FeePaid(f) == IF fills[f].fee = Absent THEN 0 ELSE fills[f].fee

Unconfirmed(o) == {f \in FillsOfOrder(o) : fills[f].status = "CREATED"}

(* Whatever sequence of events is accepted, cash and position are what the *)
(* confirmed fills and their fees make of the opening ledger: nothing is   *)
(* booked twice, lost, or booked for a fill that was never confirmed.      *)
LedgerMatchesFills ==
  /\ cash = OpeningCash - MapThenSumSet(LAMBDA f : Signed(f) * fills[f].price + FeePaid(f), Applied)
  /\ position.quantity = UnitsOf(OpeningLots) + MapThenSumSet(Signed, Applied)

(* The lots are exactly the long position, also after a short was opened,  *)
(* covered and turned into a long one; a flat position costs nothing.      *)
LotsMatchPosition ==
  /\ UnitsOf(position.lots) = Largest(position.quantity, 0)
  /\ \A k \in DOMAIN position.lots : position.lots[k].quantity > 0
  /\ position.cost >= 0
  /\ position.quantity = 0 => position.cost = NoCost

(* The lifecycle of an order agrees with its fills: never overfilled, also *)
(* counting fills not yet confirmed, FILLED means all of it was confirmed, *)
(* and once it is over no fill of it is left to confirm.                   *)
OrdersMatchFills ==
  \A o \in Known(orders) :
    /\ orders[o].confirmed = QuantityOver(FillsOfOrder(o) \cap Applied)
    /\ orders[o].confirmed + QuantityOver(Unconfirmed(o)) <= orders[o].quantity
    /\ orders[o].status = "FILLED" => orders[o].confirmed = orders[o].quantity
    /\ orders[o].status \in Terminal => Unconfirmed(o) = {} /\ orders[o].filled = orders[o].confirmed
=============================================================================
