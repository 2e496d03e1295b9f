----------------------------- MODULE Reconciliation -----------------------------
(***************************************************************************)
(* The reconciliation engine (reconciliation/engine.py, contracts.py): one *)
(* executed draft batch and its receipt compared with what another system  *)
(* reports of it, under a policy of tolerances.  The engine is a pure      *)
(* function of its request; everything that differs becomes a finding, and *)
(* the gravest finding decides the status and whether new orders stop.     *)
(*                                                                         *)
(* A hash stands for the content it covers, so a report is its own hash,   *)
(* and among values that only a hash orders the choice is arbitrary.       *)
(* Evidence holds bags of reports: copies of one report are kept apart.    *)
(* Failed is what the engine yields where it raises, Absent is None.       *)
(***************************************************************************)
EXTENDS Integers, FiniteSetsExt, Bags

CONSTANTS Failed, Absent

-----------------------------------------------------------------------------
(* Reports.                                                                *)

TerminalOrder == {"FILLED", "CANCELED", "EXPIRED", "REJECTED"}

ValidOrderReport(r) ==
  /\ r.revision >= 1
  /\ r.at <= r.available
  /\ r.requested >= 1 /\ r.filled >= 0 /\ r.filled <= r.requested
  /\ r.remaining = r.requested - r.filled
  /\ r.status = "FILLED" => r.remaining = 0
  /\ r.status = "PARTIALLY_FILLED" => r.filled > 0 /\ r.filled < r.requested
  /\ r.status \in {"ACCEPTED", "REJECTED"} => r.filled = 0 /\ r.outcome # Absent
  /\ r.status \in {"FILLED", "PARTIALLY_FILLED"} => r.outcome = Absent

ValidFillReport(r) ==
  /\ r.at <= r.available
  /\ r.quantity >= 1 /\ r.price > 0
  /\ \A fee \in {r.commission, r.stamp, r.transfer, r.other} : fee >= 0

(* What a fill is worth, alike in a receipt and in a report.               *)
Gross(f) == f.quantity * f.price
Fee(f) == f.commission + f.stamp + f.transfer + f.other
Cash(f) == IF f.side = "BUY" THEN -(Gross(f) + Fee(f)) ELSE Gross(f) - Fee(f)
Units(f) == IF f.side = "BUY" THEN f.quantity ELSE -f.quantity
CashOf(fills) == MapThenSumSet(Cash, fills)
UnitsOf(fills) == MapThenSumSet(Units, fills)
QuantityOf(fills) == MapThenSumSet(LAMBDA f : f.quantity, fills)

(* source_payload_hash covers all of a report but its envelope.            *)
Payload(r) == [r EXCEPT !.report = Absent, !.available = Absent]
Envelope(r) == <<r.system, r.account, r.report>>
OrderKey(r) == <<r.system, r.account, r.source, r.revision>>
FillKey(r) == <<r.system, r.account, r.fill>>
DedupKey(kind, r) == IF kind = "ORDER" THEN OrderKey(r) ELSE FillKey(r)

(* How the paper simulator's own events read as reports of another system. *)
PaperOrderReport(order, attempt, account, system, available) ==
  [system |-> system, account |-> account, report |-> order.id, source |-> order.id,
   client |-> order.id, revision |-> 1, at |-> attempt.at, available |-> available,
   instrument |-> order.instrument, type |-> order.type, side |-> order.side,
   status |-> order.status, requested |-> order.quantity, filled |-> order.filled,
   remaining |-> order.quantity - order.filled, outcome |-> attempt.reason]

PaperFillReport(fill, account, currency, system, available) ==
  [system |-> system, account |-> account, report |-> fill.id, fill |-> fill.id,
   source |-> fill.order, client |-> fill.order, clientFill |-> fill.id, at |-> fill.at,
   available |-> available, instrument |-> fill.instrument, type |-> fill.type,
   side |-> fill.side, currency |-> currency, quantity |-> fill.quantity,
   price |-> fill.price, commission |-> fill.commission, stamp |-> fill.stamp,
   transfer |-> fill.transfer, other |-> fill.other]

PaperEvidence(receipt, snapshot, system, available) ==
  LET after == receipt.after
      AttemptOf(o) == CHOOSE a \in receipt.attempts : a.order = o.id IN
  [system |-> system, account |-> after.account, at |-> snapshot.asOf,
   available |-> available, snapshot |-> snapshot,
   orders |-> SetToBag({PaperOrderReport(o, AttemptOf(o), after.account, system, available)
                        : o \in receipt.orders}),
   fills |-> SetToBag({PaperFillReport(f, after.account, after.currency, system, available)
                       : f \in receipt.fills})]

ValidEvidence(e) ==
  /\ e.at <= e.available
  /\ \A r \in BagToSet(e.orders) : ValidOrderReport(r)
  /\ \A r \in BagToSet(e.fills) : ValidFillReport(r)

ValidPolicy(p) ==
  /\ p.maxLag \in Nat \ {0}
  /\ \A tolerance \in {p.cash, p.fee, p.price, p.cost} : tolerance \in Nat
  /\ p.stopOn \in {"WARNING", "ERROR", "CRITICAL"}

-----------------------------------------------------------------------------
(* Duplicates.  One report id on two contents discredits both; of reports  *)
(* with one source identity one is kept if they agree, none otherwise.     *)

Disputed(reports) ==
  {r \in BagToSet(reports) : \E s \in BagToSet(reports) : s # r /\ Envelope(s) = Envelope(r)}

(* Mutant: what an envelope adds counts as content.                        *)
AgreeMutant(reports) == Cardinality(reports) = 1

Agree(reports) == Cardinality({Payload(r) : r \in reports}) = 1

Undisputed(reports) == BagToSet(reports) \ Disputed(reports)
Alike(kind, reports, r) == {s \in Undisputed(reports) : DedupKey(kind, s) = DedupKey(kind, r)}

Canonical(kind, reports) ==
  {CHOOSE s \in Alike(kind, reports, r) : TRUE
     : r \in {r \in Undisputed(reports) : Agree(Alike(kind, reports, r))}}

DuplicateGroups(kind, reports) ==
  {[kind |-> kind, by |-> "REPORT_ID", key |-> Envelope(r), class |-> "CONFLICTING"]
     : r \in Disputed(reports)}
  \cup
  {[kind |-> kind, by |-> "SOURCE_IDENTITY", key |-> DedupKey(kind, r),
    class |-> IF Agree(Alike(kind, reports, r)) THEN "IDENTICAL" ELSE "CONFLICTING"]
     : r \in {r \in Undisputed(reports) :
                MapThenSumSet(LAMBDA s : reports[s], Alike(kind, reports, r)) > 1}}

GroupSeverity(g) == IF g.class = "IDENTICAL" THEN "WARNING" ELSE "CRITICAL"
GroupCode(g) ==
  IF g.class = "IDENTICAL" THEN "IDENTICAL_DUPLICATE_REPORT" ELSE "CONFLICTING_DUPLICATE_REPORT"

-----------------------------------------------------------------------------
(* Findings.                                                               *)

SeverityRank == [INFO |-> 0, WARNING |-> 1, ERROR |-> 2, CRITICAL |-> 3]
StatusRank == [MATCH |-> 0, EXPECTED_VARIANCE |-> 1, MISSING |-> 2, UNEXPECTED |-> 3,
               MISMATCH |-> 4, CONFLICT |-> 5]
Gravest(rank, values, none) ==
  IF values = {} THEN none ELSE CHOOSE v \in values : \A w \in values : rank[w] <= rank[v]

Critical(domain, code, status, entity) ==
  [domain |-> domain, code |-> code, status |-> status, severity |-> "CRITICAL", entity |-> entity]
When(condition, finding) == IF condition THEN {finding} ELSE {}
Conflict(condition, code, entity) ==
  When(condition, Critical("INPUT", code, "CONFLICT", entity))

Within(delta, tolerance) == delta <= tolerance /\ -delta <= tolerance

Variance(domain, code, entity, within) ==
  [domain |-> domain, code |-> code, entity |-> entity,
   status |-> IF within THEN "EXPECTED_VARIANCE" ELSE "MISMATCH",
   severity |-> IF within THEN "WARNING" ELSE "CRITICAL"]

Difference(domain, code, entity, delta, tolerance) ==
  When(delta # 0, Variance(domain, code, entity, Within(delta, tolerance)))

-----------------------------------------------------------------------------
(* _input_findings: do the draft, the receipt and the evidence speak of    *)
(* one batch, one account and one moment?                                  *)

LineageFindings(q) ==
  LET draft == q.draft  receipt == q.receipt  after == receipt.after
      snapshot == q.observed.snapshot IN
  UNION {
    Conflict(draft.batch # receipt.batch, "DRAFT_RECEIPT_BATCH_MISMATCH", <<"batch">>),
    Conflict(\E o \in receipt.orders : o.decision # draft.decision, "DECISION_MISMATCH", <<"decision">>),
    Conflict(receipt.base # draft.base, "SOURCE_SNAPSHOT_MISMATCH", <<"source-snapshot">>),
    Conflict(draft.mode # after.mode, "RUNTIME_MODE_MISMATCH", <<"expected-mode">>),
    Conflict(draft.version # after.version, "DATA_VERSION_MISMATCH", <<"expected-version">>),
    Conflict(draft.currency # after.currency, "CURRENCY_MISMATCH", <<"expected-currency">>),
    Conflict(q.observed.account # after.account, "ACCOUNT_IDENTITY_MISMATCH", <<"evidence">>),
    Conflict(snapshot.account # after.account, "ACCOUNT_IDENTITY_MISMATCH", <<"snapshot">>),
    Conflict(snapshot.mode # after.mode, "RUNTIME_MODE_MISMATCH", <<"observed-mode">>),
    Conflict(snapshot.version # after.version, "DATA_VERSION_MISMATCH", <<"observed-version">>),
    Conflict(snapshot.currency # after.currency, "CURRENCY_MISMATCH", <<"observed-currency">>),
    Conflict(snapshot.asOf # receipt.at \/ q.observed.at # snapshot.asOf,
             "SNAPSHOT_BOUNDARY_MISMATCH", <<"as-of">>),
    Conflict(snapshot.previous # after.source, "SNAPSHOT_BOUNDARY_MISMATCH", <<"previous">>),
    Conflict(snapshot.log # receipt.log, "EVENT_LOG_MISMATCH", <<"event-log">>)}

Timeliness(q, available, entity) ==
  Conflict(available > q.at, "FUTURE_EVIDENCE", entity)
    \cup Conflict(q.at - available > q.policy.maxLag, "STALE_EVIDENCE", entity)

(* What reports of both kinds are asked, floor being the earliest moment   *)
(* their event can have happened at.                                       *)
ReportFindings(q, kind, r, floor) ==
  LET entity == <<kind, r.report, r>> IN
  UNION {
    Conflict(r.system # q.observed.system, "SOURCE_SYSTEM_MISMATCH", entity),
    Conflict(r.account # q.receipt.after.account, "ACCOUNT_IDENTITY_MISMATCH", entity),
    Conflict(r.available > q.observed.available, "SNAPSHOT_BOUNDARY_MISMATCH", <<"envelope", entity>>),
    Conflict(r.at > q.observed.snapshot.asOf, "SNAPSHOT_BOUNDARY_MISMATCH", <<"after", entity>>),
    Conflict(r.at < floor, "SNAPSHOT_BOUNDARY_MISMATCH", <<"before", entity>>),
    Timeliness(q, r.available, entity)}

OrderReportFindings(q, r) ==
  LET expected == {o \in q.receipt.orders : o.id = r.client}
      attempts == {a \in q.receipt.attempts : a.order = r.client} IN
  ReportFindings(q, "ORDER", r,
    IF expected = {} \/ attempts = {} THEN q.receipt.submitted
    ELSE Max({o.created : o \in expected} \cup {a.at : a \in attempts}))

FillReportFindings(q, r) ==
  LET attempts == {a \in q.receipt.attempts : a.order = r.client} IN
  ReportFindings(q, "FILL", r,
    IF attempts = {} THEN q.receipt.submitted ELSE Max({a.at : a \in attempts}))
  \cup Conflict(r.currency # q.receipt.after.currency, "CURRENCY_MISMATCH", <<"FILL", r.report, r>>)

InputFindings(q) ==
  UNION {LineageFindings(q),
         Timeliness(q, q.observed.available, <<"evidence">>),
         UNION {OrderReportFindings(q, r) : r \in BagToSet(q.observed.orders)},
         UNION {FillReportFindings(q, r) : r \in BagToSet(q.observed.fills)}}

-----------------------------------------------------------------------------
(* _latest_order_reports and _linked_fill_reports.                         *)

(* Mutant: a report of no known order is only a warning.                   *)
UnlinkedMutant(code, reports) ==
  {[Critical("REPORT", code, "CONFLICT", <<r.report, r>>) EXCEPT !.severity = "WARNING"]
     : r \in {r \in reports : r.client = Absent}}

Unlinked(code, reports) ==
  {Critical("REPORT", code, "CONFLICT", <<r.report, r>>)
     : r \in {r \in reports : r.client = Absent}}

(* Revisions of one source order may not change what it is, nor go back.   *)
Regresses(before, after) ==
  \/ <<before.client, before.instrument, before.type, before.side, before.requested>>
       # <<after.client, after.instrument, after.type, after.side, after.requested>>
  \/ after.at < before.at \/ after.filled < before.filled \/ after.remaining > before.remaining
  \/ before.status \in TerminalOrder

HistoryOf(reports, r) ==
  {s \in reports : <<s.system, s.account, s.source>> = <<r.system, r.account, r.source>>}
Successive(history) ==
  {pair \in history \X history :
     LET earlier == pair[1].revision  later == pair[2].revision IN
     earlier < later /\ ~ \E t \in history : earlier < t.revision /\ t.revision < later}

Regressions(reports) ==
  {Critical("REPORT", "ORDER_REPORT_REGRESSION", "CONFLICT", <<r.system, r.account, r.source>>)
     : r \in {r \in reports :
                \E pair \in Successive(HistoryOf(reports, r)) : Regresses(pair[1], pair[2])}}

Claiming(reports, client) == {r \in reports : r.client = client}
ClientsOf(reports) == {r.client : r \in reports} \ {Absent}

RivalSources(reports) ==
  {Critical("REPORT", "ORDER_IDENTITY_MISMATCH", "CONFLICT", <<"sources", client>>)
     : client \in {c \in ClientsOf(reports) :
                     Cardinality({r.source : r \in Claiming(reports, c)}) > 1}}

(* Of the reports of the latest revision and moment the hash of what they  *)
(* say decides.                                                            *)
Newest(reports) ==
  LET latest == {r \in reports :
                   \A s \in reports :
                     s.revision < r.revision \/ (s.revision = r.revision /\ s.at <= r.at)}
      content == CHOOSE content \in {Payload(r) : r \in latest} : TRUE
  IN  CHOOSE r \in latest : Payload(r) = content

(* The newest report of an order, as the set of it, or none.               *)
LatestReport(reports, client) ==
  {Newest(claiming) : claiming \in {Claiming(reports, client)} \ {{}}}

LinkFindings(orders, fills) ==
  UNION {Unlinked("UNLINKED_ORDER_REPORT", orders), Unlinked("UNLINKED_FILL_REPORT", fills),
         Regressions(orders), RivalSources(orders)}

-----------------------------------------------------------------------------
(* _order_checks: draft line against receipt order against newest report.  *)

ExpectedIdentity(q, o) ==
  LET lines == {l \in q.draft.lines : l.id = o.line} IN
  When(\/ lines = {}
       \/ \E l \in lines :
            <<l.instrument, l.type, l.side, l.quantity, l.full, l.rules, q.draft.expires>>
              # <<o.instrument, o.type, o.side, o.quantity, o.full, o.rules, o.expires>>
       \/ o.batch # q.draft.batch \/ o.decision # q.draft.decision
       \/ Cardinality({p \in q.receipt.orders : p.line = o.line}) # 1,
       Critical("ORDER", "ORDER_IDENTITY_MISMATCH", "CONFLICT", <<"expected", o.id>>))

ExpectedOutcome(q, o) == (CHOOSE a \in q.receipt.attempts : a.order = o.id).reason

Comparisons(q, o, r) ==
  UNION {
    When(<<r.instrument, r.type, r.side>> # <<o.instrument, o.type, o.side>>,
         Critical("ORDER", "ORDER_IDENTITY_MISMATCH", "MISMATCH", <<"observed", o.id>>)),
    When(<<r.requested, r.filled, r.remaining>> # <<o.quantity, o.filled, o.quantity - o.filled>>,
         Critical("ORDER", "ORDER_QUANTITY_MISMATCH", "MISMATCH", o.id)),
    When(r.status # o.status, Critical("ORDER", "ORDER_STATUS_MISMATCH", "MISMATCH", o.id)),
    When(r.outcome # ExpectedOutcome(q, o),
         Critical("ORDER", "ORDER_REASON_MISMATCH", "MISMATCH", o.id))}

(* An outcome other than a full fill stays visible when it is confirmed.   *)
ExpectedVariance(o) ==
  When(o.status # "FILLED",
       Variance("ORDER", CASE o.status = "REJECTED" -> "ORDER_REJECTED"
                           [] o.status = "PARTIALLY_FILLED" -> "ORDER_PARTIAL"
                           [] OTHER -> "ORDER_NO_FILL", o.id, TRUE))

OrderFindings(q, o, latest) ==
  LET expected == ExpectedIdentity(q, o)
      missing == When(latest = {}, Critical("ORDER", "ORDER_MISSING", "MISSING", o.id))
      compared == UNION {Comparisons(q, o, r) : r \in latest}
      grave == expected \cup missing \cup compared
  IN  IF grave = {} THEN ExpectedVariance(o) ELSE grave

Check(id, findings) ==
  [id |-> id, findings |-> findings,
   status |-> Gravest(StatusRank, {f.status : f \in findings}, "MATCH"),
   severity |-> Gravest(SeverityRank, {f.severity : f \in findings}, "INFO")]

OrderChecks(q, orders) ==
  LET expected == {o.id : o \in q.receipt.orders} IN
  {Check(<<"order", o.id>>, OrderFindings(q, o, LatestReport(orders, o.id)))
     : o \in q.receipt.orders}
  \cup
  {Check(<<"draft-line", l.id>>, {Critical("ORDER", "ORDER_MISSING", "MISSING", <<"line", l.id>>)})
     : l \in {l \in q.draft.lines : \A o \in q.receipt.orders : o.line # l.id}}
  \cup
  {Check(<<"unexpected-order", c>>, {Critical("ORDER", "ORDER_UNEXPECTED", "UNEXPECTED", c)})
     : c \in ClientsOf(orders) \ expected}

-----------------------------------------------------------------------------
(* _fill_checks: per order the sums, and fill by fill where every report   *)
(* names a fill of the receipt.                                            *)

FillIdentity(q, o, latest, observed) ==
  When(\E r \in observed :
         \/ <<r.instrument, r.type, r.side>> # <<o.instrument, o.type, o.side>>
         \/ r.currency # q.receipt.after.currency
         \/ ~ \E newest \in latest : r.source = newest.source,
       Critical("FILL", "FILL_IDENTITY_MISMATCH", "MISMATCH", <<"identity", o.id>>))

Identified(observed) == {r \in observed : r.clientFill # Absent}

OneToOne(expected, observed) ==
  /\ Identified(observed) = observed
  /\ Cardinality({r.clientFill : r \in observed}) = Cardinality(observed)
  /\ {r.clientFill : r \in observed} = {f.id : f \in expected}

(* What is compared of one fill or of a sum of fills, as a record, and the *)
(* code and tolerance each part falls under.                               *)
Amounts(fills) ==
  [gross |-> MapThenSumSet(Gross, fills), cash |-> CashOf(fills),
   fee |-> MapThenSumSet(Fee, fills),
   commission |-> MapThenSumSet(LAMBDA f : f.commission, fills),
   stamp |-> MapThenSumSet(LAMBDA f : f.stamp, fills),
   transfer |-> MapThenSumSet(LAMBDA f : f.transfer, fills),
   other |-> MapThenSumSet(LAMBDA f : f.other, fills)]

CodeOf(part) ==
  CASE part = "gross" -> "FILL_GROSS_MISMATCH"
    [] part = "cash" -> "FILL_CASH_MISMATCH"
    [] OTHER -> "FILL_FEE_MISMATCH"
ToleranceOf(policy, part) == IF part \in {"gross", "cash"} THEN policy.cash ELSE policy.fee

EconomicDifferences(q, entity, expected, observed) ==
  UNION {Difference("FILL", CodeOf(part), <<entity, part>>, observed[part] - expected[part],
                    ToleranceOf(q.policy, part)) : part \in DOMAIN expected}

FillByFill(q, expected, observed) ==
  LET r == CHOOSE r \in observed : r.clientFill = expected.id IN
  UNION {
    When(r.at # expected.at,
         Critical("FILL", "FILL_IDENTITY_MISMATCH", "MISMATCH", <<"filled-at", expected.id>>)),
    When(r.quantity # expected.quantity,
         Critical("FILL", "FILL_QUANTITY_MISMATCH", "MISMATCH", <<"fill", expected.id>>)),
    Difference("FILL", "FILL_PRICE_MISMATCH", <<"fill", expected.id>>, r.price - expected.price,
               q.policy.price),
    EconomicDifferences(q, <<"fill", expected.id>>, Amounts({expected}), Amounts({r}))}

FillQuantities(o, expected, observed) ==
  LET due == QuantityOf(expected)  seen == QuantityOf(observed) IN
  CASE due > 0 /\ seen = 0 -> {Critical("FILL", "FILL_MISSING", "MISSING", o.id)}
    [] due = 0 /\ seen > 0 -> {Critical("FILL", "FILL_UNEXPECTED", "UNEXPECTED", o.id)}
    [] due > 0 /\ seen > 0 /\ due # seen ->
         {Critical("FILL", IF seen > o.quantity THEN "FILL_OVERFILL" ELSE "FILL_QUANTITY_MISMATCH",
                   "MISMATCH", o.id)}
    [] OTHER -> {}

(* Average prices are compared as fractions, so no rounding hides a        *)
(* difference.                                                             *)
AveragePrice(q, o, expected, observed) ==
  LET due == QuantityOf(expected)  seen == QuantityOf(observed)
      numerator == Amounts(observed).gross * due - Amounts(expected).gross * seen
  IN  When(due > 0 /\ seen > 0 /\ numerator # 0,
           Variance("FILL", "FILL_PRICE_MISMATCH", <<"vwap", o.id>>,
                    Within(numerator, q.policy.price * due * seen)))

FillFindings(q, o, latest, expected, observed) ==
  UNION {
    FillIdentity(q, o, latest, observed),
    IF Identified(observed) = {} THEN {}
    ELSE IF OneToOne(expected, observed)
      THEN UNION {FillByFill(q, f, observed) : f \in expected}
      ELSE {Critical("FILL", "FILL_IDENTITY_MISMATCH", "MISMATCH", <<"fill-ids", o.id>>)},
    FillQuantities(o, expected, observed),
    EconomicDifferences(q, o.id, Amounts(expected), Amounts(observed)),
    AveragePrice(q, o, expected, observed)}

FillChecks(q, orders, reports) ==
  LET expected == {o.id : o \in q.receipt.orders} IN
  {Check(<<"fill", o.id>>,
         FillFindings(q, o, LatestReport(orders, o.id),
                      {f \in q.receipt.fills : f.order = o.id}, Claiming(reports, o.id)))
     : o \in q.receipt.orders}
  \cup
  {Check(<<"fill", c>>, {Critical("FILL", "FILL_UNEXPECTED", "UNEXPECTED", c)})
     : c \in ClientsOf(reports) \ expected}

-----------------------------------------------------------------------------
(* _cash_check and _position_checks against the observed account snapshot. *)

CashFindings(q) ==
  LET expected == q.receipt.after.cash  observed == q.observed.snapshot.cash
      CodeFor == [total |-> "CASH_TOTAL_MISMATCH", available |-> "CASH_AVAILABLE_MISMATCH",
                  frozen |-> "CASH_FROZEN_MISMATCH"] IN
  UNION {Difference("CASH", CodeFor[bucket], <<bucket>>, observed[bucket] - expected[bucket],
                    q.policy.cash) : bucket \in DOMAIN CodeFor}

CashCheck(q) == Check(<<"cash", q.receipt.after.account>>, CashFindings(q))

(* Cost basis and average cost: the average is the basis per unit.         *)
PositionFindings(q, i, expected, observed) ==
  UNION {
    When(expected.type # observed.type,
         Critical("POSITION", "POSITION_TYPE_MISMATCH", "MISMATCH", i)),
    When(expected.total # observed.total,
         Critical("POSITION", "POSITION_QUANTITY_MISMATCH", "MISMATCH", i)),
    When(<<expected.available, expected.frozen, expected.unsettled>>
           # <<observed.available, observed.frozen, observed.unsettled>>,
         Critical("POSITION", "POSITION_BUCKET_MISMATCH", "MISMATCH", i)),
    Difference("POSITION", "POSITION_COST_MISMATCH", <<"basis", i>>,
               observed.basis - expected.basis, q.policy.cost),
    Difference("POSITION", "POSITION_COST_MISMATCH", <<"average", i>>,
               observed.average - expected.average, q.policy.cost)}

PositionCheck(q, i) ==
  LET expected == q.receipt.after.positions  observed == q.observed.snapshot.positions IN
  Check(<<"position", i>>,
     IF i \notin DOMAIN expected
       THEN {Critical("POSITION", "POSITION_UNEXPECTED", "UNEXPECTED", i)}
     ELSE IF i \notin DOMAIN observed
       THEN {Critical("POSITION", "POSITION_MISSING", "MISSING", i)}
     ELSE PositionFindings(q, i, expected[i], observed[i]))

PositionChecks(q) ==
  {PositionCheck(q, i)
     : i \in DOMAIN q.receipt.after.positions \cup DOMAIN q.observed.snapshot.positions}

-----------------------------------------------------------------------------
(* The result.                                                             *)

Unreconcilable ==
  {"DRAFT_RECEIPT_BATCH_MISMATCH", "DECISION_MISMATCH", "ACCOUNT_IDENTITY_MISMATCH",
   "SOURCE_SYSTEM_MISMATCH", "RUNTIME_MODE_MISMATCH", "DATA_VERSION_MISMATCH",
   "CURRENCY_MISMATCH", "SOURCE_SNAPSHOT_MISMATCH", "SNAPSHOT_BOUNDARY_MISMATCH",
   "EVENT_LOG_MISMATCH", "STALE_EVIDENCE", "FUTURE_EVIDENCE", "UNLINKED_ORDER_REPORT",
   "UNLINKED_FILL_REPORT", "ORDER_REPORT_REGRESSION", "CONFLICTING_DUPLICATE_REPORT"}

StatusFrom(findings, groups, severity) ==
  LET codes == {f.code : f \in findings} \cup {GroupCode(g) : g \in groups} IN
  IF (\E f \in findings : f.status = "CONFLICT") \/ codes \cap Unreconcilable # {}
    THEN "UNRECONCILABLE"
  ELSE IF SeverityRank[severity] >= SeverityRank["ERROR"] THEN "MISMATCH"
  ELSE IF findings \cup groups # {} THEN "RECONCILED_WITH_VARIANCE"
  ELSE "MATCHED"

(* The stop signal names every difference at or over the policy's bound.   *)
StopSignal(policy, findings, groups, severity) ==
  LET Grave(s) == SeverityRank[s] >= SeverityRank[policy.stopOn] IN
  [required |-> Grave(severity),
   reasons |-> {f.code : f \in {f \in findings : Grave(f.severity)}}
                 \cup {GroupCode(g) : g \in {g \in groups : Grave(GroupSeverity(g))}}]

(* No comparison may be left out.                                         *)
RequiredChecks(q) ==
  {<<"order", o.id>> : o \in q.receipt.orders}
    \cup {<<"draft-line", l>> : l \in {l.id : l \in q.draft.lines}
                                          \ {o.line : o \in q.receipt.orders}}
    \cup {<<"fill", o.id>> : o \in q.receipt.orders}
    \cup {<<"cash", q.receipt.after.account>>}
    \cup {<<"position", i>> : i \in DOMAIN q.receipt.after.positions
                                        \cup DOMAIN q.observed.snapshot.positions}

Assembled(q, inputs, groups, checks) ==
  LET findings == inputs \cup UNION {c.findings : c \in checks}
      severity == Gravest(SeverityRank, {f.severity : f \in findings}
                            \cup {GroupSeverity(g) : g \in groups}, "INFO")
  IN  IF ~ RequiredChecks(q) \subseteq {c.id : c \in checks} THEN Failed
      ELSE [inputs |-> inputs, checks |-> checks, groups |-> groups, severity |-> severity,
            status |-> StatusFrom(findings, groups, severity),
            stop |-> StopSignal(q.policy, findings, groups, severity)]

Result(q) ==
  LET orders == Canonical("ORDER", q.observed.orders)
      fills == Canonical("FILL", q.observed.fills)
      groups == DuplicateGroups("ORDER", q.observed.orders)
                  \cup DuplicateGroups("FILL", q.observed.fills)
  IN  Assembled(q, InputFindings(q) \cup LinkFindings(orders, fills), groups,
                OrderChecks(q, orders) \cup FillChecks(q, orders, fills) \cup {CashCheck(q)}
                  \cup PositionChecks(q))

(* activation_request_from_reconciliation: only a required stop may trip   *)
(* the kill switch.                                                        *)
ActivationReasons(result) == IF result.stop.required THEN result.stop.reasons ELSE Failed
=============================================================================
