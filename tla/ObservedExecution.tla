--------------------------- MODULE ObservedExecution ---------------------------
(***************************************************************************)
(* One executed batch, what a venue reports of it, and the reconciliation  *)
(* of the two.  The reports start out as the paper adapters make them and  *)
(* then suffer what links and venues do: copies, resends, fills reported   *)
(* in parts, losses, corrections and wrong content, before the engine is   *)
(* asked, again and again, at any time.                                    *)
(***************************************************************************)
EXTENDS Reconciliation, Sequences

CONSTANTS
  Executions,  \* [draft, receipt, snapshot]: what was executed and what the account then is
  Policies,
  Venue,       \* the system the evidence comes from
  Stranger,    \* an identity of nothing in the execution
  MaxEvents,   \* bound on what happens to the reports
  LastMoment

VARIABLES
  execution, policy,
  evidence,   \* ObservedExecutionEvidence
  events,     \* how much has happened to it
  faults,     \* what of it was not honest
  now,
  result,     \* the ReconciliationResult of this evidence at this time, Absent before
  tripped     \* the reasons the kill switch was activated with, Absent if it was not

observedVars == <<execution, policy, evidence, events, faults, now, result, tripped>>
reports == <<evidence, events, faults>>

(* What PaperExecutionReceipt makes sure of: order ids differ, every order *)
(* has an attempt, every fill has the identity of its order, and the       *)
(* account after is the account before with the fills replayed on it.      *)
ReceiptHolds(receipt) ==
  /\ IsFiniteSet(receipt.orders) /\ IsFiniteSet(receipt.fills)
  /\ \A o, p \in receipt.orders : o.id = p.id => o = p
  /\ \A o \in receipt.orders : \E a \in receipt.attempts : a.order = o.id
  /\ \A a \in receipt.attempts : a.at \in Nat
  /\ \A f \in receipt.fills :
       /\ f.quantity \in Nat \ {0} /\ f.price \in Nat \ {0}
       /\ \A fee \in {f.commission, f.stamp, f.transfer, f.other} : fee \in Nat
       /\ \E o \in receipt.orders :
            f.order = o.id /\ <<f.instrument, f.type, f.side>> = <<o.instrument, o.type, o.side>>
  /\ receipt.before.cash \in Int
  /\ receipt.after.cash.total = receipt.before.cash + CashOf(receipt.fills)
  /\ \A i \in DOMAIN receipt.before.units :
       (IF i \in DOMAIN receipt.after.positions THEN receipt.after.positions[i].total ELSE 0)
         = receipt.before.units[i] + UnitsOf({f \in receipt.fills : f.instrument = i})
  /\ \A o \in receipt.orders :
       o.filled = QuantityOf({f \in receipt.fills : f.order = o.id})

ShowsCash(snapshot) ==
  /\ {"account", "previous", "log", "cash", "positions"} \subseteq DOMAIN snapshot
  /\ DOMAIN snapshot.cash = {"total", "available", "frozen"}
  /\ \A bucket \in DOMAIN snapshot.cash : snapshot.cash[bucket] \in Int

ASSUME ObservedExecutionAssumption ==
  /\ MaxEvents \in Nat /\ LastMoment \in Nat
  /\ \A p \in Policies : ValidPolicy(p)
  /\ \A e \in Executions : ReceiptHolds(e.receipt) /\ ShowsCash(e.snapshot)

ObservedInit ==
  /\ execution \in Executions
  /\ policy \in Policies
  /\ evidence = PaperEvidence(execution.receipt, execution.snapshot, Venue, execution.receipt.at)
  /\ events = 0 /\ faults = {}
  /\ now = execution.receipt.at
  /\ result = Absent /\ tripped = Absent

-----------------------------------------------------------------------------
(* What happens to the reports, until the kill switch is activated.        *)

Happens(fault, after) ==
  /\ events < MaxEvents /\ tripped = Absent
  /\ ValidEvidence(after)
  /\ evidence' = after
  /\ events' = events + 1
  /\ faults' = faults \cup fault
  /\ result' = Absent
  /\ UNCHANGED <<execution, policy, now, tripped>>

One(r) == SetToBag({r})
Add(kind, r) == [evidence EXCEPT ![kind] = @ (+) One(r)]
Drop(kind, r) == [evidence EXCEPT ![kind] = @ (-) One(r)]
Replace(kind, r, set) == [evidence EXCEPT ![kind] = (@ (-) One(r)) (+) SetToBag(set)]
Kinds == {"orders", "fills"}

Repeat(kind, r) == Happens({}, Add(kind, r))
Resend(kind, r) == Happens({}, Add(kind, [r EXCEPT !.report = Append(@, 3)]))
(* The parts replace the one report of the fill, its own id with it.       *)
Split(r) ==
  /\ r.quantity > 1 /\ r.fill # Stranger
  /\ evidence.fills[r] = 1
  /\ \A s \in BagToSet(evidence.fills) : FillKey(s) = FillKey(r) => s = r
  /\ Happens({}, Replace("fills", r,
       {[r EXCEPT !.report = Append(@, 1), !.fill = Append(@, 1), !.clientFill = Absent, !.quantity = 1],
        [r EXCEPT !.report = Append(@, 2), !.fill = Append(@, 2), !.clientFill = Absent,
                  !.quantity = @ - 1, !.commission = 0, !.stamp = 0, !.transfer = 0, !.other = 0]}))

Lose(kind, r) == Happens({"lost"}, Drop(kind, r))

Altered(kind, r) ==
  {[r EXCEPT !.client = Absent], [r EXCEPT !.client = Stranger], [r EXCEPT !.system = Stranger],
   [r EXCEPT !.account = Stranger], [r EXCEPT !.available = @ + 1], [r EXCEPT !.source = Stranger]}
  \cup IF kind = "fills"
         THEN {[r EXCEPT !.quantity = @ + 1], [r EXCEPT !.price = @ + 1],
               [r EXCEPT !.commission = @ + 1], [r EXCEPT !.clientFill = Absent],
               [r EXCEPT !.commission = r.stamp, !.stamp = r.commission],
               [r EXCEPT !.fill = Stranger, !.clientFill = Absent]}
         ELSE {[r EXCEPT !.revision = @ + 1],
               [r EXCEPT !.revision = @ + 1, !.status = "CANCELED", !.filled = 0,
                         !.remaining = r.requested],
               [r EXCEPT !.status = "FILLED", !.filled = r.requested, !.remaining = 0,
                         !.outcome = Absent]}

(* Instead of the report, or besides it under the same or another id.      *)
Misreport(kind, r) ==
  \E wrong \in Altered(kind, r) \ {r} : Happens({"misreported"}, Replace(kind, r, {wrong}))
Contradict(kind, r) ==
  \E wrong \in Altered(kind, r) \ {r}, id \in {r.report, Append(r.report, 3)} :
    Happens({"contradicted"}, Add(kind, [wrong EXCEPT !.report = id]))

(* The snapshot is of another account or moment, or shows another cash     *)
(* balance, other holds, other units, another cost or one position fewer.  *)
Drifted(s) ==
  {[s EXCEPT !.account = Stranger], [s EXCEPT !.previous = Stranger], [s EXCEPT !.log = Stranger],
   [s EXCEPT !.cash.total = @ + 1, !.cash.available = @ + 1],
   [s EXCEPT !.cash.total = @ + 2, !.cash.available = @ + 2],
   [s EXCEPT !.cash.available = @ - 1, !.cash.frozen = @ + 1]}
  \cup UNION {{[s EXCEPT !.positions[i].total = @ + 1, !.positions[i].available = @ + 1],
              [s EXCEPT !.positions[i].available = @ - 1, !.positions[i].unsettled = @ + 1],
              [s EXCEPT !.positions[i].basis = @ + 1],
              [s EXCEPT !.positions = [j \in DOMAIN @ \ {i} |-> @[j]]]}
             : i \in DOMAIN s.positions}

Drift ==
  \E wrong \in Drifted(evidence.snapshot) :
    Happens({"drifted"}, [evidence EXCEPT !.snapshot = wrong])

-----------------------------------------------------------------------------
Wait ==
  /\ now < LastMoment /\ tripped = Absent
  /\ now' = now + 1
  /\ result' = Absent
  /\ UNCHANGED <<execution, policy, reports, tripped>>

Request ==
  [draft |-> execution.draft, receipt |-> execution.receipt, observed |-> evidence,
   policy |-> policy, at |-> now]

(* The engine is pure, so asking it again with nothing changed is left out. *)
Reconcile ==
  /\ result = Absent
  /\ result' = Result(Request)
  /\ UNCHANGED <<execution, policy, reports, now, tripped>>

(* activate_from_reconciliation of the kill switch.                        *)
Activate ==
  /\ result \notin {Absent, Failed}
  /\ ActivationReasons(result) # Failed
  /\ tripped' = ActivationReasons(result)
  /\ UNCHANGED <<execution, policy, reports, now, result>>

ObservedNext ==
  \/ \E kind \in Kinds : \E r \in BagToSet(evidence[kind]) :
       \/ Repeat(kind, r)
       \/ Resend(kind, r)
       \/ Lose(kind, r)
       \/ Misreport(kind, r)
       \/ Contradict(kind, r)
  \/ \E r \in BagToSet(evidence.fills) : Split(r)
  \/ Drift
  \/ Wait
  \/ Reconcile
  \/ Activate

ObservedSpec == ObservedInit /\ [][ObservedNext]_observedVars

-----------------------------------------------------------------------------
Received(kind) == {Payload(r) : r \in BagToSet(evidence[kind])}
Answers == result = Absent /\ result' # Absent

(* What the venue says happened adds up to what its own account shows: the *)
(* distinct fills it reports lead from the opening balance and units to    *)
(* the snapshot's, to the policy's tolerance for every order and the       *)
(* account, and each order is where its fills put it.                      *)
AddsUp ==
  LET fills == Received("fills")
      receipt == execution.receipt
      slack == policy.cash * (1 + Cardinality(receipt.orders))
      drift == evidence.snapshot.cash.total - receipt.before.cash - CashOf(fills)
  IN  /\ drift <= slack /\ -drift <= slack
      /\ \A i \in DOMAIN receipt.before.units :
           (IF i \in DOMAIN evidence.snapshot.positions
              THEN evidence.snapshot.positions[i].total ELSE 0)
             = receipt.before.units[i] + UnitsOf({f \in fills : f.instrument = i})
      /\ \A o \in receipt.orders :
           \E r \in Received("orders") :
             /\ r.client = o.id /\ r.status = o.status
             /\ r.filled = QuantityOf({f \in fills : f.client = o.id})

(* Whatever was lost, copied, altered, contradicted or drifted on the way, *)
(* a reconciliation that lets new orders go on means that the evidence as  *)
(* a whole adds up (engine.py: duplicates, links and tolerances together). *)
UnstoppedEvidenceAddsUp ==
  [][Answers /\ ~result'.stop.required => AddsUp]_observedVars

(* No false alarm: copies, resends and fills reported in parts never stop  *)
(* new orders while the evidence is fresh, unless the policy stops on      *)
(* warnings too, and an execution filled in full and reported once is      *)
(* MATCHED under every policy.                                             *)
HonestEvidencePasses ==
  [][result = Absent /\ result' # Absent
       /\ faults = {} /\ now - evidence.available <= policy.maxLag =>
       /\ result' # Failed
       /\ result'.stop.required => policy.stopOn = "WARNING" /\ result'.status # "MATCHED"
       /\ result'.status = "MATCHED"
            <=> /\ \A o \in execution.receipt.orders : o.status = "FILLED"
                /\ \A kind \in Kinds : BagCardinality(evidence[kind]) = Cardinality(Received(kind))]_observedVars

(* Delivering again adds nothing: the checks are those of the same         *)
(* contents delivered once each, as long as no report id is disputed.      *)
Once(bag) ==
  SetToBag({CHOOSE r \in BagToSet(bag) : Payload(r) = content
              : content \in {Payload(r) : r \in BagToSet(bag)}})
RequestOnce ==
  [Request EXCEPT !.observed.orders = Once(@), !.observed.fills = Once(@)]

RepeatsChangeNoCheck ==
  [][Answers /\ RequestOnce # Request /\ (\A kind \in Kinds : Disputed(evidence[kind]) = {}) =>
       result'.checks = Result(RequestOnce).checks]_observedVars
=============================================================================
