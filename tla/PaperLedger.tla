------------------------------ MODULE PaperLedger ------------------------------
(***************************************************************************)
(* The paper account and its matching engine (execution/paper): position   *)
(* lots with their settlement days, orders with the cash and the units     *)
(* they hold, the plan the engine makes of a draft batch, and the replay   *)
(* that derives the next account state from the plan's orders and fills.   *)
(* The replay takes the fills in the order of their content hashes, not in *)
(* the order the engine planned them.                                      *)
(***************************************************************************)
EXTENDS OrderDrafts, SequencesExt

CONSTANTS
  AllowPartial,   \* PaperExecutionConfig.allow_partial
  MaxStateAge     \* max_market_state_age_seconds, in ticks

OrderStatuses ==
  {"ACCEPTED", "PARTIALLY_FILLED", "FILLED", "CANCELED", "EXPIRED", "REJECTED"}
NoFillReasons ==
  {"SUSPENDED", "SIDE_BLOCKED", "ZERO_CAPACITY", "PARTIAL_FILL_DISABLED",
   "LIMIT_NOT_MARKETABLE", "INSUFFICIENT_CASH"}

(* PaperPositionLot, PaperOrder, PaperFill and PaperAccountState.           *)
LotRecord ==
  [id : Nat, quantity : Nat \ {0}, acquired : Nat, sellable : Nat, frozen : Nat]
OrderRecord ==
  [batch : BatchRecord, instrument : Instruments, side : Sides, quantity : Nat \ {0},
   filled : Nat, status : OrderStatuses, expires : Nat, limited : BOOLEAN, reserved : Nat]
FillRecord ==
  [instrument : Instruments, side : Sides, quantity : Nat \ {0}, change : Int, day : Nat,
   sellable : Nat \cup {Absent}]
LotTable == [Instruments -> SUBSET LotRecord]
AccountRecord ==
  [asOf : Nat, cash : Nat, external : Nat, lots : LotTable, orders : SUBSET OrderRecord,
   processed : SUBSET BatchRecord]

ASSUME PaperLedgerAssumption ==
  /\ Failed \notin [cash : Int, lots : LotTable] \cup AccountRecord
  /\ Absent \notin FillRecord \cup NoFillReasons

IsActive(order) == order.status \in {"ACCEPTED", "PARTIALLY_FILLED"}
Remaining(order) == order.quantity - order.filled

(* PaperPosition: the buckets of a position follow from its lots, the day  *)
(* and the active sell orders.                                             *)
Units(lots) == MapThenSumSet(LAMBDA l : l.quantity, lots)
Settled(lots, day) == {l \in lots : l.sellable <= day}
Unsettled(account, i) == Units(account.lots[i] \ Settled(account.lots[i], Day(account.asOf)))

SellHold(account, i) ==
  MapThenSumSet(Remaining, {o \in account.orders : IsActive(o) /\ o.side = "SELL" /\ o.instrument = i})

Frozen(account, i) ==
  MapThenSumSet(LAMBDA l : l.frozen, Settled(account.lots[i], Day(account.asOf)))
    + SellHold(account, i)

AvailableUnits(account, i) ==
  Units(account.lots[i]) - Unsettled(account, i) - Frozen(account, i)

FrozenCash(account) ==
  account.external + MapThenSumSet(LAMBDA o : o.reserved, {o \in account.orders : IsActive(o)})

AvailableCash(account) == account.cash - FrozenCash(account)

(* The checks of PaperPositionLot, PaperOrder and PaperAccountState.       *)
ValidLot(l) == l.quantity > 0 /\ l.frozen \in 0..l.quantity /\ l.acquired <= l.sellable

FilledAsStatus(status, filled, quantity) ==
  CASE status = "FILLED" -> filled = quantity
    [] status = "PARTIALLY_FILLED" -> 0 < filled /\ filled < quantity
    [] status \in {"ACCEPTED", "REJECTED"} -> filled = 0
    [] OTHER -> filled < quantity

ValidOrder(o) ==
  /\ FilledAsStatus(o.status, o.filled, o.quantity)
  /\ IsActive(o) /\ o.side = "BUY" => o.reserved > 0
  /\ ~IsActive(o) => o.reserved = 0

ValidAccount(account) ==
  /\ account.cash >= 0 /\ AvailableCash(account) >= 0
  /\ \A i \in Instruments :
       /\ AvailableUnits(account, i) >= 0
       /\ \A l \in account.lots[i] :
            /\ ValidLot(l) /\ l.acquired <= Day(account.asOf)
            /\ l.sellable > Day(account.asOf) => l.frozen = 0
  /\ \A o \in account.orders :
       /\ ValidOrder(o) /\ o.batch \in account.processed
       /\ IsActive(o) => account.asOf < o.expires

(* The snapshot of an account at its boundary: what drafts are made from.  *)
PositionSnapshot(account, i, price) ==
  [quantity |-> Units(account.lots[i]), available |-> AvailableUnits(account, i),
   frozen |-> Frozen(account, i), unsettled |-> Unsettled(account, i),
   value |-> Units(account.lots[i]) * price]

ValidPosition(p) ==
  /\ \A n \in {p.available, p.frozen, p.unsettled} : n >= 0
  /\ p.quantity = p.available + p.frozen + p.unsettled

SnapshotOf(account, id, price) ==
  LET of == [i \in Instruments |-> PositionSnapshot(account, i, price[i])]
  IN  IF \E i \in Instruments : ~ValidPosition(of[i]) THEN Failed
      ELSE [id |-> id, asOf |-> account.asOf, cash |-> account.cash,
            availableCash |-> AvailableCash(account),
            quantity |-> [i \in Instruments |-> of[i].quantity],
            available |-> [i \in Instruments |-> of[i].available],
            value |-> [i \in Instruments |-> of[i].value]]

-----------------------------------------------------------------------------
(* PaperExecutionEngine._execute: accept every line, check the holds the   *)
(* batch needs against what the account has free, then match line by line. *)

Submittable(account, source, batch, at) ==
  /\ batch.account = source.id
  /\ batch.availableCash = AvailableCash(account)
  /\ batch \notin account.processed
  /\ account.asOf <= at /\ batch.madeAt <= at /\ at < batch.expires
  /\ Day(at) = batch.day
  /\ \A o \in account.orders : IsActive(o) => at < o.expires

LineExecutable(account, line, day) ==
  /\ RuleFor(line.instrument, day) = line.rule
  /\ Latest(Slippage, day) = line.model
  /\ FeeFor(line.instrument, line.side, day) = line.fee
  /\ line.current = Units(account.lots[line.instrument])
  /\ line.full => line.quantity = line.current
  /\ ValidQuantity(line.rule, line.side, line.quantity, line.full)

HoldsAffordableMutant(account, batch) ==   \* units held by earlier orders are forgotten
  MapThenSumSet(LAMBDA l : l.reserved, batch.lines) <= AvailableCash(account)

HoldsAffordable(account, batch) ==
  /\ MapThenSumSet(LAMBDA l : l.reserved, batch.lines) <= AvailableCash(account)
  /\ \A l \in batch.lines :
       l.side = "SELL" => l.quantity <= AvailableUnits(account, l.instrument)

OrderOf(batch, line, status, filled, reserved) ==
  [batch |-> batch, instrument |-> line.instrument, side |-> line.side,
   quantity |-> line.quantity, filled |-> filled, status |-> status,
   expires |-> batch.expires, limited |-> line.limited, reserved |-> reserved]

(* What becomes of one accepted line: its order, the match attempt that    *)
(* says why, and its fill if any.                                          *)
Attempt(line, status, filled, reason) ==
  [requested |-> line.quantity, status |-> status, filled |-> filled, reason |-> reason]

Unfilled(batch, line, reason) ==
  [order |-> OrderOf(batch, line, "ACCEPTED", 0, line.reserved),
   attempt |-> Attempt(line, "ACCEPTED", 0, reason), fill |-> Absent]

Rejected(batch, line) ==
  [order |-> OrderOf(batch, line, "REJECTED", 0, 0),
   attempt |-> Attempt(line, "REJECTED", 0, "INSUFFICIENT_CASH"), fill |-> Absent]

Fill(line, filled, change, at) ==
  [instrument |-> line.instrument, side |-> line.side, quantity |-> filled,
   change |-> change, day |-> Day(at),
   sellable |-> IF line.side = "BUY" THEN SellableOn(line.rule, Calendar, Day(at)) ELSE Absent]

Executed(batch, line, filled, change, at) ==
  LET done   == filled = line.quantity
      status == IF done THEN "FILLED" ELSE "PARTIALLY_FILLED"
      kept   == line.reserved - Largest(-change, 0)
  IN  [order |-> OrderOf(batch, line, status, filled, IF done THEN 0 ELSE kept),
       attempt |-> Attempt(line, status, filled, Absent),
       fill |-> Fill(line, filled, change, at)]

BlockedReason(s, side) ==
  IF s.state = "SUSPENDED" THEN "SUSPENDED"
  ELSE IF SideAllowed(s, side) THEN Absent ELSE "SIDE_BLOCKED"

(* What a fill costs comes out of the cash its order holds.                *)
Paid(batch, line, filled, change, at) ==
  LET kept  == line.reserved - Largest(-change, 0)
      short == \/ kept < 0
               \/ line.side = "BUY" /\ filled < line.quantity /\ kept = 0
  IN  IF short THEN Rejected(batch, line)
      ELSE IF line.side = "BUY" /\ SellableOn(line.rule, Calendar, Day(at)) = Failed THEN Failed
      ELSE Executed(batch, line, filled, change, at)

Taken(batch, line, match, at) ==
  LET gross == match.filled * match.price
  IN  IF match = Failed THEN Failed
      ELSE IF match.filled = 0 THEN Unfilled(batch, line, match.reason)
      ELSE Paid(batch, line, match.filled,
                CashChange(line.side, gross, FeeOf(line.fee, gross)), at)

Attempted(batch, line, s, at) ==
  LET order == [side |-> line.side, quantity |-> line.quantity, full |-> line.full,
                limit |-> Absent]
  IN  IF s = Failed THEN Failed
      ELSE IF at - s.observed > MaxStateAge THEN Failed
      ELSE IF BlockedReason(s, line.side) # Absent
           THEN Unfilled(batch, line, BlockedReason(s, line.side))
      ELSE Taken(batch, line, Match(line.rule, line.model, s, order, AllowPartial), at)

MatchedLine(batch, line, sessions, at) ==
  Attempted(batch, line, StateFor(sessions, line.rule, line.instrument, Day(at), at), at)

(* The fills, booked in the order of the lines, never overdraw the account.*)
CashSuffices(account, results) ==
  \A i \in Instruments :
    account.cash + MapThenSumSet(LAMBDA r : r.fill.change,
                     {r \in results : r.fill # Absent /\ r.fill.instrument <= i}) >= 0

Affordable(account, results) ==
  IF Failed \notin results /\ CashSuffices(account, results) THEN results ELSE Failed

Plan(account, source, batch, sessions, at) ==
  IF /\ Submittable(account, source, batch, at)
     /\ \A l \in batch.lines : LineExecutable(account, l, batch.day)
     /\ HoldsAffordable(account, batch)
  THEN Affordable(account, {MatchedLine(batch, l, sessions, at) : l \in batch.lines})
  ELSE Failed

-----------------------------------------------------------------------------
(* transition.py: the account state the orders and fills of a plan lead to.*)

(* _consume_sell_lots: units leave the settled, unfrozen part of the lots, *)
(* earliest settlement first.                                              *)
Free(l, day) == IF l.sellable <= day THEN l.quantity - l.frozen ELSE 0
FreeUnits(lots, day) == MapThenSumSet(LAMBDA l : Free(l, day), lots)

Earlier(k, l) ==
  \/ k.sellable < l.sellable
  \/ k.sellable = l.sellable /\ k.acquired < l.acquired
  \/ k.sellable = l.sellable /\ k.acquired = l.acquired /\ k.id < l.id

ConsumedMutant(lots, l, quantity, day) ==   \* first in first out by lot id
  LET before == MapThenSumSet(LAMBDA k : k.quantity - k.frozen, {k \in lots : k.id < l.id})
  IN  Least(l.quantity - l.frozen, Largest(quantity - before, 0))

Consumed(lots, l, quantity, day) ==
  LET before == FreeUnits({k \in lots : Earlier(k, l)}, day)
  IN  Least(Free(l, day), Largest(quantity - before, 0))

ConsumeSellLots(lots, quantity, day) ==
  LET left == {[l EXCEPT !.quantity = @ - Consumed(lots, l, quantity, day)] : l \in lots}
  IN  {l \in left : l.quantity > 0}

(* One fill booked on a pair of cash and lots.                             *)
Booked(books, fill, id) ==
  LET i    == fill.instrument
      cash == books.cash + fill.change
      lot  == [id |-> id, quantity |-> fill.quantity, acquired |-> fill.day,
               sellable |-> fill.sellable, frozen |-> 0]
  IN  IF books = Failed THEN Failed
      ELSE IF cash < 0 THEN Failed
      ELSE IF fill.side = "BUY"
           THEN [cash |-> cash, lots |-> [books.lots EXCEPT ![i] = @ \cup {lot}]]
      ELSE IF FreeUnits(books.lots[i], fill.day) < fill.quantity THEN Failed
      ELSE [cash |-> cash,
            lots |-> [books.lots EXCEPT ![i] = ConsumeSellLots(@, fill.quantity, fill.day)]]

BooksAfter(books, fills, lotId) ==
  FoldLeft(LAMBDA b, f : Booked(b, f, lotId[f.instrument]), books, fills)

(* PaperMatchAttempt, PaperFill and PaperExecutionReceipt: the orders, the  *)
(* attempts and the fills of a plan agree with each other.                 *)
ValidAttempt(a) ==
  /\ (a.filled = 0) <=> (a.reason # Absent)
  /\ (a.status = "REJECTED") <=> (a.reason = "INSUFFICIENT_CASH")
  /\ FilledAsStatus(a.status, a.filled, a.requested)

ValidFill(f) ==
  /\ f.quantity > 0
  /\ f.side = "BUY" => f.change < 0 /\ f.sellable # Absent
  /\ f.side = "SELL" => f.sellable = Absent

ReceiptHolds(batch, plan) ==
  \A r \in plan :
    /\ r.order.batch = batch /\ ValidOrder(r.order) /\ ValidAttempt(r.attempt)
    /\ r.attempt.status = r.order.status /\ r.attempt.filled = r.order.filled
    /\ IF r.fill = Absent THEN r.order.filled = 0
       ELSE /\ ValidFill(r.fill) /\ r.fill.quantity = r.order.filled
            /\ r.fill.instrument = r.order.instrument /\ r.fill.side = r.order.side

FillsOf(plan) == {r.fill : r \in {x \in plan : x.fill # Absent}}

(* The fills in one of the orders their hashes may have; lot ids are drawn *)
(* from those no lot has.                                                  *)
Advanced(account, batch, plan, books, at) ==
  [account EXCEPT !.asOf = at, !.cash = books.cash, !.lots = books.lots,
                  !.orders = @ \cup {r.order : r \in plan},
                  !.processed = @ \cup {batch}]

IfValid(account) == IF ValidAccount(account) THEN account ELSE Failed

IfBooked(account, batch, plan, books, at) ==
  IF books = Failed THEN Failed ELSE IfValid(Advanced(account, batch, plan, books, at))

ReplayExecution(account, batch, plan, fills, lotId, at) ==
  LET start == [cash |-> account.cash, lots |-> account.lots]
  IN  IF ~ReceiptHolds(batch, plan) THEN Failed
      ELSE IfBooked(account, batch, plan, BooksAfter(start, fills, lotId), at)

(* _expire_order and replay_account_refresh: the clock moves to a newer    *)
(* snapshot, whose cash and positions must be those of the ledger; orders  *)
(* past their expiry end and release what they hold.                       *)
ExpireOrder(order, at) ==
  IF IsActive(order) /\ at >= order.expires
  THEN [order EXCEPT !.status = "EXPIRED", !.reserved = 0]
  ELSE order

ReplayRefresh(account, at) ==
  IF at <= account.asOf THEN Failed
  ELSE IfValid([account EXCEPT !.asOf = at, !.orders = {ExpireOrder(o, at) : o \in @}])
=============================================================================
