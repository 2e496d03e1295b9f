------------------------------- MODULE TradingDay -------------------------------
(***************************************************************************)
(* Portfolio building, the portfolio risk check, order drafts and the      *)
(* paper ledger working on one account over several trading days: drafts   *)
(* are made from the last snapshot whenever the portfolio service is       *)
(* asked, executed or left to expire, and the account is refreshed against *)
(* newer snapshots.  The market is a set of session states, each known     *)
(* from a time on; which market is met is not known beforehand.            *)
(***************************************************************************)
EXTENDS PaperLedger

CONSTANTS
  Markets,       \* the sets of session states the days may bring
  Sleeves,       \* the strategy targets the portfolio may be asked to follow
  Budgets,       \* the regime risk budgets
  Watermark,     \* the highest equity the account has had
  OpeningCash, OpeningFrozen, OpeningLots, OpeningPrice,
  LotIds,        \* identities of lots that fills create (hashes)
  MaxTime, MaxBatches

Opening ==
  [asOf |-> 0, cash |-> OpeningCash, external |-> OpeningFrozen, lots |-> OpeningLots, orders |-> {},
   processed |-> {}]

(* No two lots of an account share their id.                               *)
LotsAreDistinct(lots) ==
  \A i, j \in Instruments : \A k \in lots[i], l \in lots[j] : k.id = l.id => i = j /\ k = l

ASSUME TradingDayAssumption ==
  /\ \A states \in Markets :
       IsFiniteSet(states) /\ \A s \in states : s \in SessionRecord /\ ValidSession(s)
  /\ Sleeves \subseteq [Instruments -> Nat]
  /\ OpeningPrice \in [Instruments -> Nat \ {0}]
  /\ Opening \in AccountRecord /\ ValidAccount(Opening) /\ LotsAreDistinct(OpeningLots)
  /\ \A i \in Instruments : IsFiniteSet(OpeningLots[i])
  /\ LotIds \subseteq Nat /\ MaxTime \in Nat

VARIABLES
  now,       \* the clock
  market,    \* the session states of these days
  account,   \* PaperAccountState
  source,    \* the account snapshot the state descends from
  batches    \* the draft batches made so far

vars == <<now, market, account, source, batches>>

Init ==
  /\ now = 0
  /\ market \in Markets
  /\ account = Opening
  /\ source = SnapshotOf(Opening, 0, OpeningPrice)
  /\ batches = {}

Tick ==
  /\ now < MaxTime
  /\ now' = now + 1
  /\ UNCHANGED <<market, account, source, batches>>

(* build_portfolio, check_portfolio_risk and draft_orders on the snapshot. *)
Proposal(local) == Build(source, local)

Batch(proposal, budget) ==
  IF proposal = Failed THEN Failed
  ELSE Generate(source, proposal, RiskStatus(source, proposal, budget, Watermark), market, now)

Draft(local, budget) ==
  /\ Cardinality(batches) < MaxBatches
  /\ \E batch \in {Batch(Proposal(local), budget)} \ {Failed} :
       batches' = batches \cup {batch}
  /\ UNCHANGED <<now, market, account, source>>

UsedLotIds == UNION {{l.id : l \in account.lots[i]} : i \in Instruments}
LotIdChoices == {f \in [Instruments -> LotIds \ UsedLotIds] : IsInjective(f)}

(* The plans the engine makes of a batch now: one, or none if it refuses.  *)
PlansOf(batch) == {Plan(account, source, batch, market, now)} \ {Failed}

(* PaperExecutionService commits the plan of one batch.                    *)
Execute(batch) ==
  /\ \E plan \in PlansOf(batch) :
       \E fills \in SetToSeqs(FillsOf(plan)), lotId \in LotIdChoices :
         /\ account' = ReplayExecution(account, batch, plan, fills, lotId, now)
         /\ account' # Failed
  /\ UNCHANGED <<now, market, source, batches>>

(* The last price of an instrument known by the snapshot's time.           *)
MarkPrice(i) ==
  LET known == {s \in market : s.instrument = i /\ s.available <= now}
  IN  IF known = {} THEN OpeningPrice[i]
      ELSE (CHOOSE s \in known : \A o \in known : o.available <= s.available).price

Refresh ==
  /\ account' = ReplayRefresh(account, now)
  /\ account' # Failed
  /\ source' = SnapshotOf(account', source.id + 1, [i \in Instruments |-> MarkPrice(i)])
  /\ source' # Failed
  /\ UNCHANGED <<now, market, batches>>

Next ==
  \/ Tick
  \/ Refresh
  \/ \E local \in Sleeves, budget \in Budgets : Draft(local, budget)
  \/ \E batch \in batches : Execute(batch)

Spec == Init /\ [][Next]_vars

-----------------------------------------------------------------------------
(* The account is always one the contracts accept, whose orders come from  *)
(* batches it knows, and which is never ahead of the clock.                *)
TypeOK ==
  /\ now \in 0..MaxTime /\ market \in Markets
  /\ account \in AccountRecord /\ ValidAccount(account)
  /\ batches \subseteq BatchRecord /\ account.processed \subseteq batches
  /\ source.id \in Nat /\ source.asOf <= account.asOf /\ account.asOf <= now

(* A plan the engine accepts is one the replay carries out, whatever order *)
(* the content hashes put its fills in: cash never dips below zero on the  *)
(* way, and the settled lots always suffice (engine.py, transition.py).    *)
PlansReplay ==
  \A batch \in batches :
    \A plan \in PlansOf(batch) :
      \A fills \in SetToSeqs(FillsOf(plan)), lotId \in LotIdChoices :
        ReplayExecution(account, batch, plan, fills, lotId, now) # Failed

(* A BUY drafted under a daily limit reserved what it costs at that limit, *)
(* so however the market moves before it is matched, it is never rejected  *)
(* for want of cash.  The market states of a day must agree on the limit   *)
(* for that, which nothing in the code makes sure of.                      *)
LimitsAreDaily ==
  \A s, t \in market : s.instrument = t.instrument /\ s.day = t.day => s.upper = t.upper

LimitedBuysAreFunded ==
  LimitsAreDaily =>
    \A o \in account.orders : o.side = "BUY" /\ o.limited => o.status # "REJECTED"

(* The risk limit of a single instrument survives sizing, partial fills    *)
(* and several batches of one snapshot: where a BUY bought of an           *)
(* instrument, what is held of it and what that BUY still asks for is, at  *)
(* the price the BUY was sized with, worth no more than the limit allows   *)
(* of the snapshot's equity, or than the part of it the snapshot already   *)
(* held (a target between the two only warns).                             *)
StillAsked(o) == IF IsActive(o) THEN Remaining(o) ELSE 0

BuysStayWithinRisk ==
  \A o \in account.orders : o.batch.account = source.id /\ o.side = "BUY" /\ o.filled > 0 =>
    \A l \in o.batch.lines : l.instrument = o.instrument =>
      (Units(account.lots[o.instrument]) + StillAsked(o)) * l.price * Whole
        <= o.batch.equity
             * Largest(SingleLimit(o.instrument), CurrentWeights(source)[o.instrument])

(* Units leave a lot only from the day it may be sold, and never those     *)
(* frozen outside the ledger.                                              *)
QuantityOf(lots, id) == Units({l \in lots : l.id = id})
OnlySettledUnitsLeave ==
  [][\A i \in Instruments : \A l \in account.lots[i] :
       QuantityOf(account'.lots[i], l.id) < l.quantity =>
         l.sellable <= Day(now) /\ l.frozen <= QuantityOf(account'.lots[i], l.id)]_vars
=============================================================================
