# Quant Agent: a verification project

TLA+ models of the parts of Quant Agent whose correctness depends on order:
which step comes first, who holds what, what was read before it was used, what
is left behind by a failure, and what long sequences of legal calls add up to.
TLC checks the models on small instances; TLAPS proves the properties that
matter most for every value of the constants.

`packages/quant_agent` is abbreviated to `qa` below.

## 1. The system

Quant Agent is a research and paper-trading system for the Chinese market in
Python.  Data is synchronised from a provider into a database, features and
scores are computed from it, strategies turn them into target weights, a
language-model agent walks through a fixed sequence of tools (market regime,
themes, candidates, portfolio, risk, draft), a person approves, and the order
is executed against a paper account unless a kill switch stops it.  What was
executed is reconciled with what another system reports.  Strategies are tried
out beforehand in a vectorised and in an event-driven backtest.

### 1.1 Inventory

| component | code | state | operations | what must hold |
|---|---|---|---|---|
| kill switch | `qa/risk/kill_switch` | one state per scope (GLOBAL, accounts), an event chain per scope, idempotency records, order gate | initialize, activate, recover, guard_new_order | state = history, a command takes effect once, approvers saw every incident, a block is final, nobody is inside the gate while a switch is on |
| paper order admission | `qa/execution/paper/service.py` | none of its own; local variables of a call | open_account, refresh_account, submit_and_match | at most one execution per key and batch, never while stopped, answers stay true, every call ends |
| paper store | `qa/execution/paper/repository.py`, `sqlite_repository.py` | account versions, receipts by key and by batch, refresh outcomes | open, refresh (CAS), commit (CAS), lookups | indexes agree, one cause per version, outcomes permanent |
| paper engine and ledger | `qa/execution/paper/engine.py`, `transition.py`, `contracts.py` | orders, lots, holds and cash of one account state | execute a batch, refresh, replay | what is planned can be replayed, T+1, holds released, limited buys funded |
| order drafts | `qa/execution/order_drafts` | none | generate | sized in lots, within cash and limits |
| portfolio, snapshots | `qa/portfolio` | none | build | weights within caps |
| portfolio risk | `qa/risk/portfolio`, `qa/risk/contracts` | none | check | fails closed; limits survive execution |
| reconciliation | `qa/reconciliation` | none | reconcile | every difference is found, honest repeats raise none |
| data synchronisation | `qa/data/sync` | leased checkpoint, runs, pages in the database | run; acquire, renew, release, create, transition, commit | every page ingested once, raw before curated, leases fence, targets reached |
| datasets | `qa/data/tushare_sync.py`, `ingestion.py`, `pipelines/tushare_sync.py` | raw payloads, curated rows | partitions, fetch, decode, ingest | idempotent |
| agent runtime, replay | `qa/agent/runtime` | event-sourced run with deadlines, budgets, approvals | start, invoke tool, cancel, approve, reject | no write dispatched twice, terminal is terminal, replay = saved run, evidence complete |
| tool registry, policy | `qa/agent/tools/registry.py`, `policy.py` | sealed registry, audit events | seal, invoke | nothing outside the allow-list of the mode, audited before it runs |
| portfolio and execution tools | `qa/agent/tools/portfolio_execution` | write-once draft artefacts | create and get a draft, submit, reconcile | one draft per key, true receipts, retries answered |
| decision snapshots | `qa/agent/snapshots` | write-once table | create, resume | never replaced |
| regime | `qa/regime` | current regime, pending candidate and count | classify, process | no flip before its confirmations, none ignored |
| mainline states | `qa/features/mainline` | tracked industries, rank histories | process | states follow the history of ranks |
| leaders, candidates | `qa/leaders` | none | rank, select | point in time |
| strategies | `qa/strategies` | prior decision | decide | holdings follow leadership; decisions replay |
| event backtest | `qa/backtest/engine.py`, `rules.py`, `cn_market.py` | ledger, orders, fills, lots | submit, cancel, fill, confirm, settle, fees | ledger = fills, lots = position, legal lives of orders |
| vectorised backtest | `qa/backtest/vectorized.py` | holdings of a run | run | no look-ahead, value conserved |
| walk-forward validation | `qa/backtest/validation` | parameter registry | split, register, freeze | not modelled |
| research tools, answers, content boundary, audit chains | `qa/agent` | none, or a chain in memory | project, publish, sanitise, append | not modelled |
| features, reports, evaluation | `qa/features`, `qa/reports`, `qa/evaluation` | none | formulas | not modelled |
| data stores, providers | `qa/data` | snapshots, point-in-time tables | create, verify, query | not modelled |
| API, workers, gateway, web, CLI | `apps`, `qa/cli.py` | small in-memory services | - | not modelled |

### 1.2 How the parts interact

* The admission service calls the paper store (lookup), then the kill switch
  (`guard_new_order`, a context manager that keeps the repository lock - an
  `RLock` in memory, `BEGIN IMMEDIATE` in SQLite - while its body runs), and in
  that body the store again (lookup, load, commit).  The switch and the store
  are different databases, so their commits are not atomic together.
* Administrators and the reconciliation handler change the switch at any time;
  they wait for the same lock.  A refresh of an account changes the paper store
  without taking the gate.
* The portfolio service builds a target from strategy sleeves, checks it
  against the risk policy, drafts orders from the snapshot it was given, and
  the paper engine matches them later, when prices and the account have moved.
* The agent runtime calls tools through the registry; the draft tool writes
  artefacts, the submit tool calls the admission service, the reconcile tool
  may request that new orders stop.
* Synchronisation runners share only the database.  They call the provider and
  the decoder outside every transaction, and a lease with a time limit keeps
  them apart.
* A research session hands the stabilised market state to the mainline engine,
  its states to the leaders, those to the candidates and all of it to the
  strategy, which also sees the portfolio it decided last.

### 1.3 What is hard here

Two locks and two databases in one order; idempotency keys on every level,
each with its own record of what was decided; check times that are taken
before a wait; leases that expire under a working holder; page state that is
changed without asking for the lease; lost acknowledgements that are turned
into results by a second lookup; recovery approvals that race new incidents;
a service and a replay that derive the same events from rules of their own;
plans that are made in one order and replayed in another; sums that are
rounded part by part and then compared exactly; evidence that arrives twice,
late or in parts; revisions that become known late.

## 2. Plan

All of the plan below is built, except what section 8 gives up:

1. kill switch, order gate, paper store, order admission, and the theorems of
   the order path down to its refinement;
2. data synchronisation, with every safety property proved;
3. agent runtime, replay, tool registry and the promise of a run;
4. the tools that write: drafts and submissions under races and retries;
5. market mechanics, paper ledger, portfolio, risk and drafts, composed to
   trading days;
6. event backtest;
7. reconciliation against a venue that reports badly;
8. research days (regime, mainline states, leaders, mainline strategy) and
   rotation days (ETF rotation, vectorised backtest).

9. proofs about the runtime and the event backtest, on top of those of the
   order path, the tools and the synchronisation; then about the trading days,
   the backtests of portfolios, the research days and the reconciliation.

What is left, in the order of its worth: the
renewal of leases, once the runner calls it; the parameter registry of the
walk-forward validation; the snapshot store, once more than one publisher exists.

Each module takes its parameters as CONSTANTS with named assumptions, has one
action per operation and no RECURSIVE operator.

## 3. Modules

    PaperOrders          constants and order identities shared by the order path
    KillSwitch           the repository and its service, in detail
    OrderGate            what a user of the gate sees; KillSwitch implements it
    PaperRepository      the paper store
    OrderAdmission       OrderGate + PaperRepository + the callers of the service
    GuardedOrders        what placing an order promises; OrderAdmission implements it
    OrderTools           the agent's draft and submission tools over GuardedOrders' behaviour
    DataSync             runner instances, checkpoint, runs, pages, archive
    ToolRegistry         policy, sealing, and every way an invocation ends
    AgentRules           states, paths and transitions of an agent run, its tools
    AgentReplay          what a chain of events proves, and which chains are refused
    AgentRuntime         runtime instances over one run, calling through the registry
    AgentRunPromise      what a run promises of its orders; AgentRuntime implements it
    CnMarket             rules, sessions, lots, settlement, slippage, fees, one match
    PaperLedger          plan, replay and refresh of a paper account (over CnMarket)
    PortfolioProposal    the target portfolio of some sleeves and its risk check
    OrderDrafts          from a proposal to a batch of order drafts
    TradingDay           those three on one account over several days
    EventBacktest        the event engine (over CnMarket)
    Reconciliation       the engine as a function of its request
    ObservedExecution    a venue's reports and Reconciliation
    MarketRegime, MainlineStates, StockLeaders, MainlineLeader
    ResearchDays         the four of them over consecutive sessions
    Decimals             rounded arithmetic
    EtfRotation, VectorBacktest
    RotationDays         publication of revisions, rotation decisions, backtests
    SumTheorems          lemmas about sums over finite sets, for the proofs of all
    *Proofs              theorems
    MC*                  instances for TLC

### 3.1 KillSwitch and OrderGate

`ks[scope]` is the current `KillSwitchState`, `chain[scope]` its events,
`incidentAt` the stored incidents, `ops` the idempotency records of commands,
`gateOf` and `decided` what the order gate has bound and blocked, `guard` the
order whose guarded body is running.  The commands of `repository.py` are
`Initialize`, `Activate` (which adds a trigger to an active switch) and
`Recover`; a second call with a known key is `ReplayOperation`.
`guard_new_order` is `GateUnavailable`, `GateBlocked`, `GateAllowed` or
`GateReplay`, then the body, then `GateExit`.  `Crash` is a process that dies
in the body: SQLite rolls the gate's transaction back, so the key it had bound
is free again.  The event chain is kept as a sequence of records; a hash is the
content it names.  The clock is a number; times in commands are the time of the
command or earlier ones, as `max(state.changed_at, now)` requires.  A blocked
order adds one event, `LogBlock`, to the chain of the first switch that stops it
(GLOBAL before the account); an order refused because a state is missing or newer
than the check adds none.

`OrderGate` forgets everything but activity, last change, bound keys and
blocks.  `ImplementsOrderGate` says that `KillSwitch` is one, and the order
path is composed with the small module instead of the large one.

### 3.2 PaperRepository

`account[a]` is the current state (version and executed batches), `byKey` and
`byBatch` the receipts, `refreshes` the outcome of each refresh snapshot.
`CommitExecution` and `CommitRefresh` contain the compare-and-swap of the code,
on whatever state the caller planned with; `Resolution` is `_committed_receipt`.

### 3.3 OrderAdmission and GuardedOrders

One program counter per caller, one action per call out of
`submit_and_match`: `Lookup` (and the clock), `EnterGate`, `BlockAtGate`,
`BlockedBefore` or `GateFails`, `Recheck`, `Load`, `Commit` or `CommitRefused`,
`Leave` or `LeaveFails`, and `Resolve`, the lookup that turns an error after a
durable commit into a receipt.  `Crash` may come anywhere.  A refresher has
`StartRefresh`, `RefreshLookup`, `RefreshCommit`, `RefreshCommitReplays` and
`RefreshReturn`.  The two index reads of `_committed_receipt` are one step;
both indexes only grow, so nothing is lost by that.  A submission is checked at
the clock: the code takes the later of the clock and the request's own time, and
requests are not dated ahead here.

`GuardedOrders` is the promise to clients: an order executes at most once per
key and batch, only while not stopped, never under a refused key, and answers
agree with what happened.

### 3.4 OrderTools

The two writing tools of `qa/agent/tools/portfolio_execution`, thread by thread.
`create_order_draft` is `FindDraft`, then `PutDraft`, `PutReplays` or
`PutConflicts` (another delivery stored another draft first) and the answer,
after a conflict by a second lookup (`AnswerRaced`).  `submit_paper_orders` is
`FetchDraft`, the lookups `ByKey` and `ByBatch`, `ReadAccount`, and the service:
replayed, in conflict, failed or executed; `RecoverReceipt` is the lookup after a
conflict.  The store of decision snapshots is `Decide`: its first write stays.
A draft is its content: the decision and the time of the delivery, which is what
makes two deliveries of one call differ.  `Drop` is a failure told to the caller
or a thread that dies.  `told` remembers what callers were answered.

### 3.5 DataSync

`checkpoint` is the row with the committed watermark, the active partition and
cursor, and the lease; `runs` and `pages` are the rows; `archive` the raw
payloads; `curated[position]` counts how often a page was ingested and from
which payload; `worker[w]` is the memory of one runner instance, its program
counter included.  One action is one transaction or one call out: `Begin`,
`Setup` (or `SetupRefused`, `SetupFindsSuccess`), `StartPartition`,
`LoadArchived`, `PrepareFetch`, `Fetch`/`FetchFails`, `RecordFetchFailure`,
`Archive`, `Decode`/`DecodeFails`, `IngestAndCommit`, `Finish`,
`RecordFailure`.  `TransactionFails` is any transaction rolling back, `Crash` a
dead process, `Expire` the time of a lease passing, also while the holder
works.  A revision is read and compared in the same transaction everywhere in
the runner, so a lost compare-and-swap is a `TransactionFails`.
The clock of `_ingest_and_commit` is read before its transaction: `sawLive`
keeps what it showed.  PLANNED, DECODED and RETRY_WAIT are never committed by
the runner and have no place in the model; CANCELLED has no caller, nor has
`renew_checkpoint`, and a call without idempotency key is never made
(`qa/pipelines/tushare_sync.py` derives one from the specification).

### 3.6 ToolRegistry, AgentRules, AgentReplay, AgentRuntime, AgentRunPromise

`ToolRegistry` holds the policy tables (capability of a tool, modes a capability
is offered in, which tools need a key, an account or an authorizer) and
`Invocation`, the set of ways a call of a sealed registry ends: denied, refused
arguments, answered, raised, each with whether the handler ran, the audit log
failing before or during it included.  `AgentRules` is `rules.py`;
`AgentReplay` is the fold of `replay.py`.  A stored run is the fold of its chain
(`_replay_verified` compares them on every save), so `run` is that fold, and a
save replays only the events it adds: `Replayable` is what the repository
demands of them, `Commit` a save without a lost compare-and-swap.  `call[i]` is
what the thread inside `invoke_tool` of instance `i` holds between its saves:
the run it reserved, then also the answer.  `StopOnBudget`, `DenyAfterCancel`,
`Deny` and `Reserve` are the ends of the first part of `invoke_tool`, `Dispatch`
is the registry with its handler, `Record` is `_record_response` or
`_record_registry_exception` with the events `OutcomeEvents` builds.  When the
save of an outcome is refused the caller gets an error and the call stays
pending, as in the code.  `TimeGate` is the cooperative deadline every call
starts with; since it is saved first, what the same call does after it is
another action, which finds the run as the gate left it.  `RequestCancel`,
`RecordApproval` and `RejectApproval` are the calls of people.  `Tick` is time;
it counts from the creation of the run.

One lock per run inside an instance makes every call of an instance exclude the
others: an instance acts only while `call[i] = Idle`.  Answers of a handler are
any the response types allow: a verdict where the service reads one, one code
for each way a failure is projected, the three ways of an exception.  Data is
reduced to what is compared: a batch is the locked draft, another or none, an
artifact is its kind, the n-th call has request n.  `ModeOf` gives each goal one
of the modes its registry may be sealed with.

`AgentRunPromise` knows whether a submission is under way, how often orders were
sent and what the run says of them; the detailed states disappear.

### 3.7 CnMarket, PaperLedger, PortfolioProposal, OrderDrafts, TradingDay

`CnMarket` is what `cn_market.py` and `rules.py` share with the engines: the
rule of a day, the session state known at an instant, lot sizes, settlement,
slippage, fees, and the match of one order against a session.  Money is whole
units and rates are per cents; quotients are rounded where the code rounds them,
except that the participation of a fill is an exact fraction here and a `Decimal`
of 28 digits in the code.
An operator yields `Failed` where the code raises.

`PaperLedger` has the account of `contracts.py` (its invariants as
`ValidAccount`), `Plan`, which is `engine.py`, and `ReplayExecution` and
`ReplayRefresh`, which are `transition.py`.  The engine books the fills it plans
in the order of the draft's lines; the replay takes them in the order of their
content hashes, so it is checked for every order.  `PortfolioProposal` is `build`
and the evaluator's findings, `OrderDrafts` is `generate` with its batch
invariants.  The records of rules, sessions, lines, lots, orders and accounts say
what their constructors admit.

`TradingDay` composes them.  `now` is time in ticks, `account` the paper
account, `source` the snapshot drafts are made from, `batches` what was drafted.
Its actions draft a batch from new sleeves, execute one, refresh the account
against a newer snapshot and let time pass; the market is one of a few sets of
session states, each known from a time on.

### 3.8 EventBacktest

One action per accepted event of `engine.py`: days (`Advance`), targets, orders
and their updates, fills, confirmations and later updates of fills, fees, and
the cash and position events that attest what the ledger did (`Attest`, where
the configuration asks for them).  What the engine refuses leaves no trace, so a
refused event is no step.  The engine is given any event next, in one of two
configurations (strict, and with shorts, unsettled sales and no fee book).

### 3.9 Reconciliation and ObservedExecution

`Result(request)` is `engine.py`: duplicates, links, order, fill, cash and
position checks, findings, status and stop signal, over bags of reports.  It has
an answer to every request: `Failed`, for a result without a required check, is
shown never to come up.  `ObservedExecution` starts from one executed batch with the
evidence `adapters.py` makes of it and then lets links and venues do what they
do - copies, resends under other ids, fills reported in parts, losses,
corrections, wrong content, late snapshots - with `faults` keeping what was
dishonest, and asks the engine at any time.

### 3.10 MarketRegime, MainlineStates, StockLeaders, MainlineLeader, ResearchDays

Each module is one package as operators on values: the engines with memory
(`MarketRegime`'s transition engine, `MainlineStates`) are values too, passed on
from session to session.  Scores and weights are whole numbers of named units,
and quotients are rounded half to even as `Decimal` does.  `ResearchDays` is the
pipeline: a session brings a market, an industry table and a cross-section, its
steps run in the order of the code, each refusing what is not of its session,
and the strategy decides on the portfolio it decided last.  `streak` and
`leading` are history variables: what the sessions showed, kept apart from what
the engines counted.

### 3.11 Decimals, EtfRotation, VectorBacktest, RotationDays

`EtfRotation` is `decide` of the rotation with its selection of revisions known
at an instant (`Ambiguous` takes rows in the order of publication, so that two
of one availability always meet); `VectorBacktest` is a run of `vectorized.py`:
signals traded at the next open, purchases scaled until they and their fees fit
the sales (the code bisects; `Affordable` is the maximum that finds, fees being
monotone), the comparison of values at the end of a rebalance.  In `RotationDays`
bars, benchmark closes and universe revisions are published on time, late,
replaced and contradicting, decisions are taken once a session, and backtests of
the days so far are run at any time.  `decisions` and `runs` keep requests with
their answers, so that they can be asked again.

## 4. Runs

| run | question | bounds |
|---|---|---|
| kill_switch | Do the chains match the states, had every approver seen every incident, is every event caused once, and is the repository an `OrderGate`, when commands, retries, incidents, expiring approvals, orders and crashes race? | 1 account beside GLOBAL, 4 command keys and 5 committed commands, 1 source, 1 order, 2 instants, 3 revisions |
| order_admission | Two callers deliver one key with two batches while switches move, a refresh takes no gate, commits are lost and processes die: is the store consistent, do answers stay true, is it `GuardedOrders`, does every submission end? | 2 callers, 1 refresher, 1 key, 2 batches, 2 versions, 2 instants |
| order_tools | Two threads deliver drafts and submissions of one decision under two keys at different times, while the account is refreshed. | 2 threads, 2 keys, 1 decision, 2 drafts, 3 versions, 2 instants |
| data_sync | Two instances and two runs over one checkpoint, with a late lease, takeover, a crash and a failure; repeated calls reach the target. | 2 instances, 2 runs, 3 pages in 2 partitions, 1 each of failures, crashes, late leases |
| agent_goals | A run of each of the six goals, under every order of calls, denials, failures, approvals, expiries and budgets: every outcome can be stored, evidence is complete, submissions are authorised, a polled run ends, a reconciliation closes. | 1 instance, 1 approval key, 9 calls (8 are needed), 2 rejections, 2 reconciliations, deadline 2, approval window 1, drafts of 1 or 2, clock 2 |
| agent_instances | Two instances over one repository: a stop signal is told only of a stored incident; implements `AgentRunPromise`. | 2 instances, 9 calls, deadline 2 |
| agent_retry_after_cancel | Violated: see section 7. | 1 instance, deadline 1 |
| trading_day | Sleeves to drafts to fills on one account over two days whose market is not known before: plans replay, limited buys are funded, risk limits survive, only settled units leave. | an ETF and a stock, units and cash frozen elsewhere, 6 ticks, 2 batches, 12 markets, 6 sleeves |
| event_backtest | Any accepted sequence of events: ledger, lots and orders agree with the fills. | 2 orders, 2 fills, 3 days, 2 configurations |
| observed_execution | One executed batch whose reports suffer any two mishaps: what is let pass adds up, honest repeats pass, repeats change no check. | 2 orders, 2 executions, 2 policies, 2 mishaps, 3 instants |
| research_days | Sessions of any market, ranks and cross-section: changes of regime are confirmed, leaders follow their history, holdings follow leadership, failures are rounding. | 4 sessions, 4 markets, 4 industry tables, 2 cross-sections, 2 industries, 3 stocks |
| rotation_days | Late, replaced and contradicting revisions: answers replay, no day reaches back, an imbalance is rounding. | 2 funds, 3 days after 2 of history, 1 late publication, 2 backtests |

Why the bounds are enough.  Every conflict of the order path is between two
callers for one key, one batch or one version.  One key for two batches meets
the first; a refresher that commits between read and commit the last; two keys
for one batch meet in `order_tools`.  Two instants give a check that is as old
as the last change and one that is older.  Three revisions of a switch are
activate, recover or a second trigger, and one more; five commands over two
scopes let both switches of an order be on, off, and on again; one source can
trigger twice, under two keys.  Everything the bounds leave open there - more
sources, keys, times, callers - is covered by proofs.

In the synchronisation two partitions, one of them with two pages, give a first,
a middle and a last page, a page at which the watermark moves and one at which
only the cursor does; two instances give holder and successor, two runs give an
overtaken one.  The calls of the run all have one target, since different
targets under one key multiply the states; they, and more instances, are covered
by the proofs.

An agent run needs seven calls to EXECUTING, one submission and one
reconciliation, which has a budget of its own; nine calls leave room for one
failed or repeated call, so that the limit is met late as well.  A draft that
lasts one or two units, an approval window of one and a deadline of two put
every expiry before, at and after each other one.  The budget of rejected calls
is met with one instance by denials, with two also at the start of a call.

`order_tools` runs with one decision: two have 3.1 million states and find
nothing else, and the proofs hold for any number.

The trading days have a day on which yesterday's lots settle, a market whose
capacity is below, at and above an order, a suspension, daily limits for one
instrument and none for the other, and two batches of one snapshot.  The event
backtest has an opening lot that is settled, quantities that turn a short into a
long position, and one session that forbids sales.  Two mishaps are enough for
one to hide another.  Four
sessions are a window of three ranks and one more, and twice the two sessions of
a confirmation.  The rotation has one revision more than the days publish, and
two backtests with different horizons.

Deadlock is checked in the order path and in the tools.  In the other runs the
system may stop: the synchronisation once every run has succeeded and its
instances are idle or dead, the agent runtime once its run has ended, the rest
at the end of their days or events.

## 5. Fairness

`EverySubmissionEnds` assumes weak fairness of each caller's own step
(`Progress`): a running thread goes on, and a wait for the gate ends by entering
it or by an error - SQLite gives up after its busy timeout of 30 s, and the
in-memory lock is only held by callers that are themselves running.  Nothing is
assumed of clients, switches or refreshes.

`TargetIsReached` assumes that a live instance goes on with its call, that time
passes, so a lease nobody works under expires, and that each call is made again
and again until it completes (the operator or the scheduler calls
`run_tushare_sync` again).  The last is strong fairness, of each call for itself:
an instance that is always busy with other calls is idle again and again, not
for ever, so weak fairness would promise nothing.  Failures, crashes and leases
that expire under a working holder are bounded and not assumed to stop by
fairness.

`RunEnds` and `ReconcilingCloses` assume that handlers return, that time passes
(to a bound behind the deadline), and that the host polls a run it waits for -
every call, `get_run` included, starts with the time gate - and repeats a
reconciliation of the locked draft.  Nothing is assumed of the model or of
people.

## 6. Proofs

| theorems | say |
|---|---|
| KillSwitchTypeOK, KillSwitchGuardSeesInactive | types, and that a guarded body only runs while both switches are off and not newer than its check |
| KillSwitchBlockIsFinal | no step takes back a stored block, or a bound key except by the crash of its own guard |
| KillSwitchStateMatchesHistory, KillSwitchApproverSawEveryIncident | every chain sums up to its state; a recovery closes what its approver saw |
| KillSwitchEventsHaveOneCause | events and commands match one to one; a stored block has one event, of the first switch that stopped the order, and every such event its block |
| KillSwitchImplementsOrderGate | every behaviour of KillSwitch is one of OrderGate |
| PaperTypeOK, PaperIndexesAgree, PaperOutcomesArePermanent, PaperEveryVersionHasOneCause | types, agreement of the indexes, permanence, one cause for each state of an account |
| AdmissionTypeOK, AdmissionGuardHasOneHolder, AdmissionNoOrderWhileStopped | types, one holder of the gate, no execution while stopped, for any number of callers |
| AdmissionStoreStaysConsistent, AdmissionAnswersStayTrue, AdmissionImplementsGuardedOrders | the store under callers and refreshers that commit on what they read earlier; true answers; the refinement of the order path as a whole |
| ToolsOneDraftPerKey, ToolsReceiptsAreTrue, ToolsRetriesKeepTheReceipt | the properties of the tools, for any number of decisions, keys, drafts, threads and times |
| DataSyncTypeOK, DataSyncProgressIsExact, DataSyncSucceededIsComplete | types, every page behind the checkpoint ingested exactly once and no other, succeeded runs complete |
| DataSyncLeaseIsFenced, DataSyncRawBeforeCurated | an instance without the lease moves nothing the lease protects; raw payloads first |
| DataSyncOvertakenStaysFailed, DataSyncProgressNeverReverses | overtaken runs stay failed; nothing curated or committed is touched again |
| RunsStaySound, EvidenceCorrect | a stored run is on the path of its goal and holds the evidence of every stage behind it |
| SubmissionsAuthorised, StopSignalCorrect | submissions are dispatched under authority only; stop signals are told of stored incidents only |
| SubmissionsCounted, RunKeepsPromise | orders are sent at most once and accounted for; the runtime implements AgentRunPromise |
| OutcomesStored | whatever the service records of a call the replay accepts, but for the three outcomes of section 7 |
| TypeCorrect, LedgerCorrect, LotsCorrect, OrdersCorrect | the event backtest: ledger, lots and orders agree with the fills, for any event stream |
| DayStaysSound, TypesHold | accounts and drafted batches stay sound, and the units held follow the snapshot until a draft of it is filled |
| PlansAlwaysReplay, LimitedBuysGoThrough | what the engine plans the replay carries out in any order of fills; a limited buy is never turned down for its cash |
| BuysRespectTheLimit, OnlySettledSold | what was bought of a draft stays within the single-name limit; no step sells units before they settle or frozen ones |
| RotationStaysSound, AnswersAlwaysReplay | decisions and backtests give the same answer whenever they are made again |
| NoDayEverReachesBack | of two backtests that knew the same of their shared days, the shorter is the beginning of the longer |
| ImbalancesAreRounding | what a rebalance that does not conserve value misses is the rounding of what it holds, for any bars, targets and fees |
| ResearchStaysSound, LeadersAlwaysFollow | what the two engines remember is what the sessions showed; an industry leads and is kept by its own history only |
| ChangesAreAlwaysConfirmed | the effective regime changes exactly when its confirmations are complete |
| HoldingsAlwaysFollow, FailuresAreAlwaysRounding | what is held leads, may be traded and fits the exposure; a decision fails itself only by rounding |
| EvidenceStaysShaped, UnstoppedAlwaysAddsUp | whatever happens to the reports, a reconciliation that lets new orders go on means that the evidence adds up to the account |
| RepeatsNeverChangeChecks | delivering again adds nothing: the checks are those of the same contents delivered once |

The assumptions are the named ASSUMEs of the modules: bounds are natural
numbers, `None` is none of the values it stands beside.

*KillSwitch* (the first part of OrderSafeguardsProofs).  `GateInv` is the type invariant and `GuardSeesInactive`.  It is
inductive because no command runs while `guard` is held.  `BlockIsFinal` needs
it: entering the gate binds a key, and only the invariant says that the key of a
running body is not blocked.  The refinement maps a state to its activity and
last change; it also needs `StampsArePast`, that no change is newer than the
clock.

The histories are proved of one chain at a time.  `HistoryOK` says of a chain
that each event extends the one before it and that each state lists the
incidents open at its place, and a lemma says that appending an event that does
so keeps it, whichever scope it happens in; the commands and the blocks are
shown to append nothing else.  That states are dated no earlier than their
predecessors needs to know what a switch that is on was turned on by
(`ActiveIsDated`).  That events have one cause is `OperationsMatchEvents` and an
evidence in both directions for blocks.  From the event to the block
(`EvidenceOK`): a block stores key, decision and event in one step, and the
decision and the key must survive every later step (`BlocksStay`).  From the
block to the event (`EventsLeft`): only the two refusals of the gate store a
decision (`NewBlockLeavesEvent`), and no event ever leaves a chain or changes
(`EventsStay`).

*PaperRepository.*  `IndexInv` says of each account that a receipt by key has
its batch entry, that a batch entry has its key, and that the account state
knows exactly the batches of its receipts.  `IndexesAgree` alone is not
inductive: the commit tests the batch against the account state, not against the
index.  For the causes `ChainInv` counts, by version, receipts and refreshes
together; the compare-and-swap gives a new state its one cause and says of every
other version that its cause has not changed.

*OrderAdmission.*  The proofs about the store are the first part of
OrderExecutionProofs, those about the order path the second.  The store's part of the types comes from their step
lemmas, since every step of the composition is a step of the store or leaves it
alone; so does `StoreInv`, with what refreshers carry.
`HolderInv` says that whoever is between enter and leave holds the guard for its
own order, that there is one such caller, that the guard is never held by
nobody, and that while it is held both switches are off and the key is not
blocked.  `NoOrderWhileStopped` follows for the committing step.  What is
answered is decided steps before it is told: `SaysInv` states what a caller that
carries an answer out of the gate has behind it, and with it `AdmissionInv` is
inductive for the answers already given.  The refinement to `GuardedOrders` then
goes action by action: the commit is its execution, the block its refusal, the
last step of a call its answer, everything else a stutter.

*OrderTools* (the second part of OrderSafeguardsProofs).  `ToolsInv` relates three things: what is stored, what a thread
has derived but not told, and what was told.  That receipts were made on the
snapshot of their decision (`decidedOn`) is part of it, since the service only
compares with the account; it is what makes the check of a receipt found for a
retry succeed.

*DataSync.*  `SyncInv` is `TypeOK`, `PlaceOK` (an instance inside the page loop
stands at a page of a planned partition of its run), `CheckpointOK` (the active
partition is the one after the watermark, the cursor inside it),
`HolderIsThere` (whoever holds the lease and is in the loop stands exactly at
the checkpoint's next page) and `SucceededIsBehind`.  `ProgressIsExact` alone is
not inductive: the commit never compares the page it ingests with the
checkpoint's cursor, only the lease; it is `HolderIsThere` that makes the lease
enough.  `RawInv` adds what an instance is about to decode or commit
(`HandsAreArchived`).  `Fenced`, `OvertakenFails` and `OnlyForward` are what the
action properties say of one step; the first follows from the lease tests, the
second from the set-up transaction, the third from `ProgressIsExact`: a page
that is committed is not behind the checkpoint, so it is new.

*AgentRuntime.*  A stored run is the fold of its chain, so the proofs follow
the fold: `ReplayClosed` says that what every event the replay accepts keeps,
an accepted chain keeps.  `SoundRuns` is such a thing: the run is on the path of
its goal, or ended off it, with the evidence of the stages behind it and no call
once it ended.  That the evidence is complete follows the path, stage by stage,
and needs to know of the five paths that they visit a state once, submit between
execution and reconciliation only and check risk before they execute
(`PathsLaid`).  `TypeInv` adds the calls in flight: what an instance reserved was
offered at the stage the run was in.  It is the invariant of everything else,
because an instance records an outcome onto a run other instances may have moved
since; `Reservations` is what survives of the reserved run.

Submissions are counted by `SubmissionInv`: the call of an instance is its
latest reservation (`CallsNumbered`), one instance at most is between the claim
of a submission and its outcome, and it has not been sent before (`OneClaim`),
what was sent is in the state of the run (`OrdersAccounted`) and an answer says
whether it was (`AnswersTrue`).  None of the four is inductive alone: that no
second claim is possible follows from what the state says of the first, and that
from the answer the handler gave.  The refinement then goes action by action: a
reservation of a submission is the claim, the dispatch sends, the recorded
outcome is the verdict, and everything else changes nothing the promise sees.
A stop signal is followed by `SignalStored` from the handler to the save.

That outcomes can be stored relates two sets of rules, the service's and the
replay's, that are written down apart.  `OutcomesCanBeStored` says nothing of
the runs between the calls, so it needs `OutcomeInv`: a stored run is
`Acceptable` (within its limits, its milestone proven, a draft has an expiry,
only live runs have an approval deadline, a run is cancelled only after
execution, and none is stored as approved only, since the approval goes on in
the same save), and a reserved call is `Held` (in its stage, with the identity of
the locked draft, budget left for a rejection, no submission after a
cancellation).  The theorem then goes through every outcome there is: late,
raised, rejected and answered, with what the service appends to each for a limit,
an expiry or an automatic step.

*EventBacktest.*  `Inv` is the types, what every stored order, fill, fee and lot
satisfies of itself, and three sums: cash and position over the confirmed fills
and fees (`LedgerSums`), lots over the position (`LotsSum`), and confirmed
quantities over each order.  Sums are folds over lists that the engine extends
at the end, so each event needs one lemma about the sum of an extended list; the
consumption of lots, which rewrites a list from its eligible elements on, needs
the sum of what is consumed and of what is left.

*TradingDay.*  The engine books the fills it plans in the order of the lines,
the replay in an order that has nothing to do with it, and every amount they
compare is a sum: units and free units over lots, holds over orders, reserves
over lines.  The proof therefore rests on sums over finite sets, which do not depend
on an order (`SumTheorems`).  `NextAccount(batch, plan, lotId)` is the account that the
fills of a plan lead to in no order at all (`LotsDone`, the cash less what they
cost); `Replayed` says that the replay of any sequence of them arrives there.  It
never fails in between: the engine takes a batch only if all its reserves
together fit the available cash, and no fill changes the cash by more than its
line reserved, so whatever part of the fills was booked before leaves enough;
and sales take from lots no other fill touches, since a batch has one line per
instrument.

The invariant `DayInv` is then about single lines.  A drafted line reserves what
it costs at the session's limit (`Covered`), and while the account's snapshot is
the one it was drafted from, starts from the units of that snapshot and asks for
no more than the limit allows (`Drawn`).  The properties alone are not inductive
for two reasons.  An order forgets why it has its size, so `OrdersInv` keeps that
it repeats a line of its batch.  And several batches of one snapshot may name one
instrument: `UnitsFollow` says that the units held are those of the snapshot as
long as none of them was filled and have moved by exactly one fill after, because
the engine executes a line only if they have not moved.  A refresh makes a newer
snapshot, of which no draft was made yet.  What is assumed of the constants
is what the contracts validate: rules, fees, slippage and sessions in their
ranges, a calendar that ascends, finitely many session states and opening lots
with ids of their own, and an opening account the validator accepts.

*RotationDays.*  That answers replay is not a property of one answer: it needs
that every publication is dated after every instant asked about so far
(`Published`), and that a decision and a backtest read nothing but what was known
at their instant (`DecisionReadsKnown`, `RunReadsKnown`).  That no day reaches
back compares two folds of different lengths.  The invariant `RotationInv` says
of a backtest which days it replays and that the decisions of all of them but the
last are final (`ReplaysTo`): the strategy decides a day once, while it is the
day, so two backtests execute the same signals on the days they share.  A day
reads the bars of that day only (`PriceReadsDay`), so the portfolios of both
folds are equal day by day, and points are only ever appended (`PointsGrow`).

That an imbalance is rounding is an account of one rebalance, trade by trade.
`Full` is what an account is worth with the fees it paid.  A trade moves a whole
notional out of the cash and changes the value of one instrument, by the notional
but for three roundings: of the quantity bought, and of the value before and
after (`LotsRound`); fees move from the cash to the fees and change nothing
(`FlowDrifts`).  `Drift(at, to, touched, price)` says that between two accounts so
much is missing and of no other instruments; drifts of steps that touch different
instruments add up (`DriftsAdd`), and a rebalance touches each at most once,
since it sells what is above its target and buys what is below and visits the
purchases in an order that repeats none (`OrderVisits`).  What the sales and the
purchases have touched is held afterwards, so the sum over the bars of the
portfolio bounds it (`RebalanceRounds`, `GapIsRounding`).  The scale of the
purchases does not matter, nor does what they were cut to.

*ResearchDays.*  The invariant `ResearchInv` has a part for each thing that is
remembered or handed on.  `StreakInv` relates the counters of the transition
engine to the run of sessions that named one regime with confidence: a candidate
is that run while it is too short, and `LongestStreak`, to which the run is
counted, is never less than what a change requires.  `HistoryHolds` says of every
industry that its rank history tells of the sessions the model has kept
(`Tells`), also of those before it was listed, and that its state follows that
history (`Follows`): the retention it has left is what its last hits leave it.
The property about leaders is not inductive without it, because what a session
drops from the window was counted when it was in it.  `PipelineInv` says what one
session's answers are made from; a decision is made of candidates that belong
to this session's leaders, features and regime.

What is held comes out of `_capped_allocation`, a recursion on the set of stocks
still to be served (whoever would get more than the maximum gets the maximum, the
others share what is left), and of the scaling that keeps a change within the
turnover.  `AllocationWithin` goes by the size of that set: no stock gets more
than the maximum, what is given out is the exposure that was left, and the last
stock, which gets the remainder, falls short of zero by no more than the others
were rounded up.  What a decision rounds, it rounds to the nearest unit (`Near`),
so the errors of a sum are counted per stock; the proof goes from the shares to
the target, from the target to the moved weight, and from there to the three
comparisons of the final check.  The last part of ResearchDataProofs holds all
this; its first part is DataSync's.

The proof showed one thing the model had missed: `MainlineLeaderSelection`
validates its desired weights as well, so a rounded weight below zero ends the
decision just like too much turnover.  `LongOnly` is that guard, and
`FailuresAreRounding` has a third cause since.  `Failed` is an answer with a
status of its own, so that no decision can be taken for it.

*Reconciliation* (the last part of OrderExecutionProofs).  The invariant
`ObservedInv` is small - the evidence is bags of finitely many reports with the
fields and amounts of their kind - because the engine is a function: both
theorems are about one evaluation of it, under whatever evidence the invariant
admits.

Every request has an answer: the comparisons made are at least the ones a result
must have (`RequiredAreChecked`), so both theorems speak of every evidence the
engine is asked about.

`UnstoppedEvidenceAddsUp` goes from the stop signal backwards.  Every finding and
group is `Graded` (its severity is CRITICAL, or WARNING where a tolerance or an
agreeing duplicate allows it), so an answer that stops nothing has mild ones
only; and a mild answer means, check by check, that the comparison behind it
raised none or stayed within its tolerance: every report is linked to an order of
the receipt, no group of duplicates conflicts, the newest report of an order says
what the receipt does, the sums over its fills differ by no more than the policy
allows.  No conflicting group means that what counts is exactly one report of
each content received (`CanonicalStands`).  The sums per order then add up to the
account: fills are grouped by the order they name (`SumGrouped`), a difference of
at most `t` per order is one of at most `t` times the number of orders
(`SumNear`), and the receipt's own replay leads from there to the account after.

`RepeatsChangeNoCheck` follows from what every operator of the engine looks at.
`Contents(S)` is what the reports of S say, without id and envelope; for one
operator after the other, from the choice of the newest report to the sums, its
value on the contents is shown to be its value on the reports (the `...Contents`
and `...Alike` lemmas), and without disputed ids the contents that count are those
no other contradicts (`Settled`), which depends on the contents received alone.
The proof found one step that did not: the model chose among reports of one
revision and one moment by the report, the code by the hash of what it says
(`engine.py:716`).  `Newest` chooses a content first since.

These modules need inductions over data: over the length of a chain, of a list,
of a path, over the size of a set.  The induction theorems of the library take an
operator as a parameter and no installed prover can instantiate those; but
`WFMin` and `NatLessThanWellFounded` speak of sets, so an induction is stated as:
the set of the places at which the fact fails has no least element (`LeastNat`).
A fold is a function that its definition chooses; `ReplaySteps`, `BooksSteps`,
`DaysSteps`, `PurchaseSteps` and the lemmas about sums first build the function and
then show that it is the one.

The assumptions added for the proofs are `EventAssumption` (finitely
many fills, positive quantities and prices, fees and settlement that are not
negative, targets, opening lots and a calendar as the contracts validate them), in
`RuntimeAssumption` and `LimitsAssumption`, that `None` is no call, key, time or
artifact and `NoRun` not a run, and `RotationDaysAssumption` (bars with positive
prices, listings and days as the contracts validate them, finitely many rows) and
`VectorBacktestAssumption` (fee rules as their constructor validates them, finitely
many of a side).  For the research days they are `ResearchDaysAssumption`
(finitely many industries and stocks in a session, features in the ranges
`StockStrength` validates, `ValidFeatures`, and an opening portfolio of positive
weights) and the policies as their constructors validate them
(`ValidRegimePolicy`, `ValidTransitionPolicy`, `ValidMainlinePolicy`,
`ValidLeaderPolicy`, `ValidCandidatePolicy`, `ValidStrategyPolicy`); `Missing`
is no regime.  For the reconciliation they are `ObservedExecutionAssumption`:
policies as their constructor validates them (`ValidPolicy`), receipts as theirs
does (`ReceiptHolds`: ids that tell orders apart, fills of the identity of their
order, the account after as the replay of the fills), and snapshots that show
whole amounts of cash.

Only model-checked:

* liveness (`EverySubmissionEnds`, `TargetIsReached`, `RunEnds`,
  `ReconcilingCloses`), which the prover does not do;
* `HonestEvidencePasses`: that no alarm is false is about executions in which
  nothing but copies, resends and parts happened, and holds only where draft,
  receipt and snapshot are of one another and an order has one fill, as the
  paper engine makes them; the executions of the run are such.

## 7. Disagreements found

The run `agent_retry_after_cancel` shows the first; the others are described
because the models contain them and the properties are worded around them.

* A reconciliation whose arguments the registry rejects is recorded as
  retryable (`qa/agent/runtime/service.py:1189`, and a test), but the replay
  accepts that only of a run that was not cancelled (`replay.py:843`).  After a
  cancellation the save is refused, the reservation stays, no further
  reconciliation can be reserved, and RECONCILING has no deadline: the run is
  stuck.  `ReconcilingCloses` therefore leaves cancelled runs out, and
  `OutcomesCanBeStored` excepts it as `RefusedReconciliation`.
* An order draft that has expired when its handler returns after the deadline:
  the service appends TIMED_OUT, the replay demands EXPIRED and TIMED_OUT at
  once (`replay.py:915` and `:934`), the outcome cannot be saved.  The next poll
  ends the run.  It is the exception `RefusedDraft`.
* A permission denial of the last call of the budget: the service appends
  REJECTED (`service.py:1198`), the replay demands LIMIT_EXCEEDED
  (`replay.py:895`), the rejection is not counted.  The next poll after the
  deadline ends the run.  It is the exception `RefusedDenial`.
  `OutcomesCanBeStored` excepts exactly these three.
* A cancellation saved by a second instance while a reconciliation is at work
  makes the record of it lose its save, and with it the stop signal
  (`agent_instances` contains these behaviours; the promise about orders holds
  in them).
* `refresh_account` (`qa/execution/paper/service.py:93`) reads the account
  before it looks for a committed refresh of the same snapshot, and returns that
  first read when it finds one.  Another process that commits the refresh in
  between makes the call succeed with an account older than the boundary it was
  asked to reach (`RefreshReturn` of `OrderAdmission`).
* `_record_fetch_failure` (`qa/data/sync/runner.py:574`) fails a page without
  asking for the lease, and FETCHED -> FAILED is legal.  An instance that lost
  its lease while it waited for the provider can so fail a page that its
  successor has archived; the archived payload is then not reused.  Progress
  stays exact (`ProgressIsExact` holds), the provider is called again.
* A position below zero can be made in a backtest that allows shorts but never
  attested, because a POSITION event cannot carry a negative quantity
  (`qa/backtest/contracts.py:474`, `engine.py:926`); and the fee of a fill that
  is confirmed on a later day can no longer be charged, since it belongs to the
  day of the fill.  `Expressible` and `FeeAllowed` say so; the properties count
  the fees that were paid.
* An industry may go from CONFIRMED over FADING to EMERGING and back as its
  ranks come and go, without having left the list; and a SELL that stays
  unfilled beside a BUY that fills leaves an exposure above the limit the
  proposal was checked against.  Neither is promised otherwise: the properties
  bound single instruments, not the sum.
* A target above a limit passes the risk check with a warning as long as it is
  below the weight already held (`qa/risk/portfolio/evaluator.py:307`): the
  limits bound what is added, not what is kept.  `BuysStayWithinRisk` compares
  with the greater of the two.
* A BUY reserves its cost at the day's upper limit as the state of the moment of
  the draft knows it; nothing makes the later states of the day repeat that
  limit.  `LimitedBuysAreFunded` therefore speaks of markets whose states of one
  day agree on it (`LimitsAreDaily`).
* A batch drafted from a snapshot may be funded by the proceeds of an earlier
  batch of the same snapshot: drafts count the snapshot's available cash, the
  engine the account's.

## 8. Not modelled

* Parts of modelled components: the projection of kill switch events into the
  shared audit log, which nothing reads back; `renew_checkpoint`, CANCELLED runs
  and runs without a key, which have no caller; reads, such as `catalog` and
  `get_run`'s result; checks that only tell a tampered object from a built one
  (hashes, types, chain identities); the metrics of a backtest; texts of reasons.
* Walk-forward validation: splits of a calendar and a parameter registry in
  memory, whose every step is an equality check.
* Features, the components of market scores, reports and evaluation: decimal
  formulas over one input, without state.  Where a model needs their results it
  takes them as inputs.
* Research tools, agent answers, content boundary: projections and text
  patterns without state; the audit chains: a hash chain in memory.
* Data stores and providers: files named by their content and HTTP.  The
  snapshot store has one race, listed under the hazards, that needs two
  publishers, which this commit does not have.
* API, workers, gateway, web console, CLI, configuration and deployment: small
  in-memory services that are not wired to the execution packages, and
  presentation.

Wording, logging, hashing and formatting are left out everywhere; a hash is the
content it names.
