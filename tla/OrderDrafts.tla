------------------------------ MODULE OrderDrafts ------------------------------
(***************************************************************************)
(* From an approved target portfolio to a batch of order drafts            *)
(* (execution/order_drafts): every line is sized in whole lots against the *)
(* latest session of its instrument, priced with slippage and fees, and    *)
(* reserves the cash it may need; one line that cannot be drafted fails    *)
(* the whole batch.  Only the snapshot's available cash may fund it.       *)
(***************************************************************************)
EXTENDS PortfolioProposal

CONSTANTS
  MarketRules,   \* the market rules of every type of instrument
  FeeRules,      \* the fee rules of every type of instrument and side
  Slippage,      \* the slippage models
  Calendar,      \* the trading days, in order
  TicksPerDay,   \* ticks of the clock in a day
  Validity       \* how long a draft may be executed (validity_seconds)

Day(t) == t \div TicksPerDay

Types == {"ETF", "STOCK"}

(* A book holds finitely many rules, no two from one day.                  *)
Book(items, record) == items \subseteq record /\ IsFiniteSet(items) /\ Unambiguous(items)

ASSUME OrderDraftsAssumption ==
  /\ ValidBuilder /\ ValidPolicy
  /\ Instruments \subseteq Nat /\ IsFiniteSet(Instruments)
  /\ TypeOf \in [Instruments -> Types]
  /\ \A type \in Types : Book(MarketRules[type], MarketRuleRecord)
  /\ \A type \in Types, side \in Sides : Book(FeeRules[type][side], FeeRuleRecord)
  /\ Book(Slippage, SlippageRecord)
  /\ Calendar \in Seq(Nat)
  /\ \A i, j \in DOMAIN Calendar : i < j => Calendar[i] < Calendar[j]
  /\ TicksPerDay \in Nat \ {0} /\ Validity \in Nat \ {0}
  /\ Absent \notin Nat

RuleFor(i, day) == Latest(MarketRules[TypeOf[i]], day)
FeeFor(i, side, day) == Latest(FeeRules[TypeOf[i]][side], day)

(* _size_line: the whole lots between the quantity held and the quantity   *)
(* the target is worth at the session's price; nothing when less than one. *)
Sized(rule, price, current, worth) ==
  LET wanted   == price * Whole                        \* the cost of one unit, times Whole
      buy      == FloorTo((worth - current * wanted) \div wanted, rule.buyLot)
      sell     == FloorTo((current * wanted - worth) \div wanted, rule.sellLot)
  IN  IF worth = 0
      THEN [side |-> "SELL", quantity |-> current, full |-> TRUE]
      ELSE IF worth > current * wanted
           THEN [side |-> "BUY", quantity |-> buy, full |-> FALSE]
           ELSE [side |-> "SELL", quantity |-> sell, full |-> FALSE]

(* A BUY under a daily limit reserves what it would cost at that limit.    *)
ReservationPriceMutant(s, side, estimate) == estimate   \* the estimate is reserved

ReservationPrice(s, side, estimate) ==
  IF side = "BUY" /\ s.upper # Absent THEN Largest(estimate, s.upper) ELSE estimate

ReservedCash(fee, side, quantity, estimate, reservation) ==
  IF side = "BUY"
  THEN quantity * reservation + FeeOf(fee, quantity * reservation)
  ELSE Largest(-CashChange("SELL", quantity * estimate, FeeOf(fee, quantity * estimate)), 0)

(* OrderDraftLine.                                                         *)
LineRecord ==
  [instrument : Instruments, side : Sides, quantity : Nat \ {0}, current : Nat,
   full : BOOLEAN, price : Nat \ {0}, estimate : Nat, limited : BOOLEAN,
   rule : MarketRuleRecord, model : SlippageRecord, fee : FeeRuleRecord, reserved : Nat]

DraftLine(account, i, s, sized, estimate, reservation, rule, model, fee) ==
  [instrument |-> i, side |-> sized.side, quantity |-> sized.quantity,
   current |-> account.quantity[i], full |-> sized.full, price |-> s.price,
   estimate |-> estimate, limited |-> s.upper # Absent, rule |-> rule, model |-> model,
   fee |-> fee,
   reserved |-> ReservedCash(fee, sized.side, sized.quantity, estimate, reservation)]

ValidLine(l) ==
  /\ l.quantity > 0 /\ l.price > 0 /\ l.reserved >= 0
  /\ l.side = "SELL" => l.quantity <= l.current /\ l.estimate <= l.price
  /\ l.side = "BUY" => l.estimate >= l.price /\ l.reserved >= l.quantity * l.estimate
  /\ l.full <=> l.side = "SELL" /\ l.quantity = l.current

(* _validate_side_and_capacity and _participation_rate.                    *)
Draftable(account, i, sized, rule, s) ==
  /\ SideAllowed(s, sized.side)
  /\ sized.side = "SELL" => sized.quantity <= account.available[i]
  /\ sized.full => account.available[i] = account.quantity[i]
  /\ ValidQuantity(rule, sized.side, sized.quantity, sized.full)
  /\ s.quantity > 0
  /\ sized.quantity * PerCent <= rule.participation * s.quantity

(* One line of the batch: no line, a refusal of the batch, or an order.    *)
Priced(account, i, s, sized, slipped, rule, model, fee) ==
  LET estimate == InLimits(s, slipped)
  IN  IF slipped = Failed THEN Failed
      ELSE DraftLine(account, i, s, sized, estimate,
                     ReservationPrice(s, sized.side, estimate), rule, model, fee)

Ordered(account, i, s, sized, rule, model, fee) ==
  IF fee = Failed \/ ~Draftable(account, i, sized, rule, s) THEN Failed
  ELSE Priced(account, i, s, sized,
              SlippedPrice(model, sized.side, s.price, sized.quantity, s.quantity, rule.tick),
              rule, model, fee)

Sizable(account, i, s, sized, rule, day) ==
  IF sized.quantity = 0 THEN Absent
  ELSE Ordered(account, i, s, sized, rule, Latest(Slippage, day), FeeFor(i, sized.side, day))

Drafted(account, proposal, i, sessions, at) ==
  LET day   == Day(at)
      rule  == RuleFor(i, day)
      s     == IF rule = Failed THEN Failed ELSE StateFor(sessions, rule, i, day, at)
  IN  IF s = Failed \/ Latest(Slippage, day) = Failed THEN Failed
      ELSE Sizable(account, i, s,
                   Sized(rule, s.price, account.quantity[i], proposal.equity * proposal.target[i]),
                   rule, day)

(* OrderDraftBatch: of one trading day, within its snapshot's free cash.   *)
BatchRecord ==
  [account : Nat, availableCash : Int, madeAt : Nat, expires : Nat, day : Nat, equity : Nat,
   lines : SUBSET LineRecord]

DraftBatch(account, proposal, lines, at) ==
  [account |-> account.id, availableCash |-> account.availableCash, madeAt |-> at,
   expires |-> at + Validity, day |-> Day(at), equity |-> proposal.equity, lines |-> lines]

ReservedBy(lines) == MapThenSumSet(LAMBDA l : l.reserved, lines)

ValidBatch(b, snapshotAt) ==
  /\ b.lines # {} /\ \A l \in b.lines : ValidLine(l)
  /\ Day(snapshotAt) = b.day /\ snapshotAt <= b.madeAt
  /\ ReservedBy(b.lines) <= b.availableCash

(* OrderDraftGenerator.generate.                                           *)
Batched(account, proposal, drafted, at) ==
  LET lines == {drafted[i] : i \in {j \in proposal.lines : drafted[j] # Absent}}
  IN  IF \E i \in proposal.lines : drafted[i] = Failed THEN Failed
      ELSE IF ValidBatch(DraftBatch(account, proposal, lines, at), account.asOf)
           THEN DraftBatch(account, proposal, lines, at) ELSE Failed

Generate(account, proposal, status, sessions, at) ==
  IF ~AllowsExecution(status) \/ proposal.account # account.id THEN Failed
  ELSE Batched(account, proposal,
               [i \in proposal.lines |-> Drafted(account, proposal, i, sessions, at)], at)
=============================================================================
