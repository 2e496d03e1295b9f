----------------------------- MODULE AgentRuntime -----------------------------
(***************************************************************************)
(* The agent runtime (agent/runtime/service.py): the facade through which  *)
(* a model, a person and the host drive one run.  Runtime instances share  *)
(* the run repository; each holds its own lock for the whole of a call,    *)
(* so it is busy from reserving a tool call to recording the outcome,      *)
(* while the others go on.                                                 *)
(*                                                                         *)
(* A call that changes the run in one save is one action: the repository   *)
(* refuses the save when the run is not the one the call read, or when     *)
(* the chain does not replay, and then nothing changes.  The CAS compares  *)
(* revisions; here it compares runs, which every save changes.  Calls on   *)
(* an ended run, repeated request ids and reads change nothing and are     *)
(* left out.                                                               *)
(***************************************************************************)
EXTENDS AgentReplay

CONSTANTS
  Instance,   \* runtime instances
  Goal,       \* the goals runs are started for
  ModeOf,     \* the mode of the registry that serves a goal
  Asked,      \* the tools the model asks for
  Lifetime,   \* how long an order draft may last
  MaxClock,   \* bound on time
  NoRun, Idle

ASSUME RuntimeAssumption ==
  /\ Goal \subseteq RunGoals /\ Asked \subseteq AllTools
  /\ \A goal \in Goal : ModeOf[goal] \in GoalModes[goal]
  /\ Lifetime \subseteq Nat /\ MaxClock \in Nat
  /\ None \notin Call /\ NoRun \notin Run

VARIABLES
  run,        \* the run in the repository
  clock,      \* time since the run was created
  call,       \* instance -> the tool call it is in
  knows,      \* the instances that hold the run's decision snapshot
  submitted,  \* how often a submission handler ran
  notified    \* whether the incident handler was told of a stop signal

vars == <<run, clock, call, knows, submitted, notified>>

Time == 0..MaxClock
Verdict == {"accepted", "rejected", "error"}

-----------------------------------------------------------------------------
(* Saving events on a run. *)
After(r, events) == Replay(r, events).run

Commit(events) == Replayable(run, events) /\ run' = After(run, events)

Move(r, kind, trigger, after) == Event(kind, trigger, r.state, after, clock)

ToolEvent(r, kind, c, after) == [Move(r, kind, "TOOL", after) EXCEPT !.call = c]

(* How a run ends that its budget or a rejection stops. *)
Stop(r) ==
  IF r.state \in AfterExecutionStates
    THEN Move(r, "INCIDENT_RECORDED", "SYSTEM", "INCIDENT")
    ELSE Move(r, "LIMIT_REACHED", "SYSTEM", "LIMIT_EXCEEDED")

Created(goal) ==
  [state |-> "RECEIVED", goal |-> goal, calls |-> 0, invalid |-> 0, reconciliations |-> 0,
   cancelled |-> FALSE, artifacts |-> {}, draftExpiry |-> None, approved |-> FALSE,
   approvalSince |-> None, approvalDeadline |-> None, pending |-> None,
   locked |-> [tool \in WriteTools |-> None]]
Started(goal) ==
  After(Created(goal),
        <<Event("STATE_TRANSITION", "SYSTEM", "RECEIVED", "SNAPSHOT_READY", 0)>>)

Init ==
  /\ run = NoRun
  /\ clock = 0
  /\ call = [i \in Instance |-> Idle]
  /\ knows = {}
  /\ submitted = 0
  /\ notified = FALSE

(* start_run creates the run, or finds exactly the run it would create;    *)
(* only then does the instance keep the decision snapshot.                 *)
StartRun(i, goal) ==
  /\ call[i] = Idle /\ clock = 0
  /\ run \in {NoRun, Started(goal)}
  /\ run' = Started(goal)
  /\ knows' = knows \cup {i}
  /\ UNCHANGED <<clock, call, submitted, notified>>

-----------------------------------------------------------------------------
(* The cooperative time gate.  Every call begins with it, so what another  *)
(* call does it does on an open run whose time has not come.               *)
AuthorityEnded(r, now) == r.state \in AuthorisedStates /\ Expired(r, now)

(* Mutant: only drafts and approvals have a deadline, the run has none.    *)
MutantNoDeadline(r, now) == Open(r) /\ AuthorityEnded(r, now)

GateDue(r, now) ==
  /\ Open(r)
  /\ AuthorityEnded(r, now) \/ (now >= Timeout /\ r.state # "RECONCILING")

GateEvent(r) ==
  IF AuthorityEnded(r, clock)
    THEN IF WritePending(r) THEN Move(r, "INCIDENT_RECORDED", "SYSTEM", "INCIDENT")
                            ELSE Move(r, "TIMEOUT_RECORDED", "TIMEOUT", "EXPIRED")
    ELSE IF WritePending(r) THEN Move(r, "INCIDENT_RECORDED", "TIMEOUT", "INCIDENT")
                            ELSE Move(r, "TIMEOUT_RECORDED", "TIMEOUT", "TIMED_OUT")

Unchanged == UNCHANGED <<clock, call, knows, submitted, notified>>

TimeGate(i) ==
  /\ call[i] = Idle /\ run # NoRun
  /\ GateDue(run, clock)
  /\ Commit(<<GateEvent(run)>>)
  /\ Unchanged

(* The run another call of instance i finds behind the gate. *)
Passes(i) ==
  /\ call[i] = Idle /\ run # NoRun
  /\ Open(run) /\ ~GateDue(run, clock)

-----------------------------------------------------------------------------
(* Calls of the host and of people. *)
CancelTarget(r) ==
  IF r.state = "RECONCILING" \/ WritePending(r) THEN r.state ELSE "CANCELLED"

RequestCancel(i) ==
  /\ Passes(i)
  /\ ~run.cancelled
  /\ Commit(<<Move(run, "CANCELLATION_REQUESTED", "CANCELLATION", CancelTarget(run))>>)
  /\ Unchanged

Approval == [batch : {"draft", "other"}, signed : Time, expires : 1..(MaxClock + 1)]

ApprovalBinds(r, approval) ==
  /\ approval.batch = "draft"
  /\ r.approvalSince <= approval.signed /\ approval.signed <= clock
  /\ clock < approval.expires /\ clock < r.approvalDeadline

RecordApproval(i, approval) ==
  /\ Passes(i)
  /\ run.state = "PENDING_APPROVAL"
  /\ ApprovalBinds(run, approval)
  /\ Commit(<<[Move(run, "APPROVAL_RECORDED", "HUMAN", "APPROVED") EXCEPT
                 !.approval = approval],
              Event("STATE_TRANSITION", "SYSTEM", "APPROVED", "EXECUTING", clock)>>)
  /\ Unchanged

RejectApproval(i) ==
  /\ Passes(i)
  /\ run.state = "PENDING_APPROVAL"
  /\ Commit(<<Move(run, "APPROVAL_REJECTED", "HUMAN", "REJECTED")>>)
  /\ Unchanged

-----------------------------------------------------------------------------
(* invoke_tool, up to the reservation. *)
BudgetSpent(r) ==
  \/ r.invalid >= MaxInvalidCalls
  \/ IF r.state = "RECONCILING" THEN r.reconciliations >= MaxReconciliations
                                ELSE r.calls >= MaxToolCalls

StopOnBudget(i) ==
  /\ Passes(i)
  /\ BudgetSpent(run)
  /\ Commit(<<Stop(run)>>)
  /\ Unchanged

CallsOf(r) ==
  UNION {[request : {r.calls + 1}, tool : {tool},
          key : IF tool \in WriteTools THEN Key \cup {None} ELSE {None},
          batch : IF tool \in BatchTools THEN Batch ELSE {"none"}] : tool \in Asked}

(* _available_tool_names, and the arguments _tool_denial_reason asks for.  *)
Offered(r, c) ==
  /\ StageValid(r, c)
  /\ ~(r.cancelled /\ c.tool \in ExecutionTools)
  /\ c.tool \in WriteTools => c.key # None

(* Arguments that are not one JSON object carry neither key nor batch.     *)
Unreadable(c) == c.key = None /\ c.batch = "none"

DenyAfterCancel(i) ==
  /\ Passes(i)
  /\ ~BudgetSpent(run)
  /\ run.cancelled
  /\ Asked \cap ExecutionTools # {}
  /\ Commit(<<Move(run, "INCIDENT_RECORDED", "SYSTEM", "INCIDENT")>>)
  /\ Unchanged

(* A denied call is reserved and rejected in one save, and stops the run   *)
(* when it is past execution or out of budget.                             *)
Deny(i, c) ==
  /\ Passes(i)
  /\ ~BudgetSpent(run)
  /\ ~Offered(run, c) \/ Unreadable(c)
  /\ ~(run.cancelled /\ c.tool \in ExecutionTools)
  /\ LET denied == <<ToolEvent(run, "TOOL_CALL_RESERVED", c, run.state),
                     [ToolEvent(run, "TOOL_CALL_REJECTED", c, run.state) EXCEPT
                        !.code = "STAGE_REJECTED"]>>
         exhausted == \/ run.state \in AfterExecutionStates
                      \/ run.invalid + 1 >= MaxInvalidCalls
                      \/ run.calls + 1 >= MaxToolCalls IN
     Commit(IF exhausted THEN Append(denied, Stop(run)) ELSE denied)
  /\ Unchanged

Reserve(i, c) ==
  /\ Passes(i)
  /\ ~BudgetSpent(run) /\ Offered(run, c) /\ KeepsIdentity(run, c)
  /\ Commit(<<ToolEvent(run, "TOOL_CALL_RESERVED", c, run.state)>>)
  /\ call' = [call EXCEPT ![i] = [phase |-> "dispatched", reserved |-> run']]
  /\ UNCHANGED <<clock, knows, submitted, notified>>

-----------------------------------------------------------------------------
(* The registry and the handler, between two saves.                        *)
InPhase(i, phase) == call[i] # Idle /\ call[i].phase = phase
Reserved(i) == call[i].reserved.pending

Judged == {"validate_market_data", "check_portfolio_risk", "reconcile_account"}

Answers(c, end) ==
  IF end.kind # "answered" THEN [kind : {end.kind}]
  ELSE [kind : {"ok"},
        verdict : IF c.tool \in Judged THEN Verdict ELSE {"accepted"},
        expires : IF c.tool = "create_order_draft" THEN {clock + t : t \in Lifetime} ELSE {0}]
         \cup [kind : {"failed"}, code : ResponseCodes]

Dispatch(i) ==
  /\ InPhase(i, "dispatched")
  /\ \E end \in Invocation(ModeOf[run.goal], Reserved(i).tool) :
     \E answer \in Answers(Reserved(i), end) :
       /\ call' = [call EXCEPT ![i] =
            [phase |-> "answered", reserved |-> call[i].reserved, answer |-> answer]]
       /\ submitted' = IF end.ran /\ Reserved(i).tool \in ExecutionTools
                       THEN submitted + 1 ELSE submitted
  /\ UNCHANGED <<run, clock, knows, notified>>

-----------------------------------------------------------------------------
(* Recording the outcome. *)

(* Where an accepted response leads. *)
SuccessTarget(r, tool, verdict) ==
  CASE tool = "validate_market_data"   ->
         IF verdict = "accepted" THEN "DATA_VALIDATED" ELSE "DATA_INVALID"
    [] tool \in ResearchTools          ->
         IF r.goal = "MARKET_RESEARCH" \/ tool = "rank_stock_candidates"
         THEN "ANALYZED" ELSE r.state
    [] tool = "run_backtest"           -> "ANALYZED"
    [] tool = "build_target_portfolio" -> "PORTFOLIO_READY"
    [] tool = "check_portfolio_risk"   ->
         (CASE verdict = "accepted" -> "RISK_CHECKED"
            [] verdict = "rejected" -> "REJECTED"
            [] verdict = "error"    -> "DATA_INVALID")
    [] tool = "create_order_draft"     -> "DRAFT_READY"
    [] tool \in ExecutionTools         -> "RECONCILING"
    [] tool = "reconcile_account"      ->
         IF verdict = "accepted" THEN "COMPLETED" ELSE "INCIDENT"
    [] tool = "generate_decision_report" -> "REPORTED"
    [] OTHER                           -> r.state

ResponseKind(answer) ==
  IF answer.kind = "ok" THEN "TOOL_CALL_SUCCEEDED" ELSE "TOOL_CALL_FAILED"

ResponseTarget(r, tool, answer) ==
  IF answer.kind = "ok" THEN SuccessTarget(r, tool, answer.verdict)
                        ELSE FailedState(r.state, tool, answer.code)

(* A response is void when the instance cannot bind it to the decision,    *)
(* when it claims an expiry only the runtime may decide, when it reports   *)
(* too early, or when its target is out of reach.                          *)
Void(i, r, tool, answer) ==
  \/ i \notin knows
  \/ answer.kind = "failed" /\ answer.code = "APPROVAL_EXPIRED" /\ tool \notin Unhurried
  \/ /\ answer.kind = "ok" /\ tool = "generate_decision_report"
     /\ ~ReportReady(r.goal, r.state)
  \/ ~ValidTransition(r.state, ResponseTarget(r, tool, answer), r.goal, ResponseKind(answer))

(* What the runtime makes of the answer. *)
Understood(i, r, tool, answer) ==
  IF answer.kind \in {"ok", "failed"} /\ Void(i, r, tool, answer)
  THEN [kind |-> "raised"] ELSE answer

Late(tool) == clock >= Timeout /\ tool \notin Unhurried

(* The limit, after a recorded response. *)
PostCallLimit(r) ==
  IF ~Open(r) \/ (r.state = "RECONCILING" /\ r.reconciliations < MaxReconciliations)
              \/ (r.state # "RECONCILING" /\ r.calls < MaxToolCalls)
    THEN <<>> ELSE <<Stop(r)>>

(* Mutant: a locked draft goes on, expired or not.                         *)
MutantIgnoresExpiry(r, tool, answer) ==
  IF r.state # "DRAFT_READY" \/ answer.kind # "ok" THEN <<>>
  ELSE CASE r.goal = "PAPER_EXECUTION" ->
              <<Move(r, "STATE_TRANSITION", "SYSTEM", "EXECUTING")>>
         [] r.goal = "LIVE_ASSISTED_EXECUTION" ->
              <<Move(r, "STATE_TRANSITION", "SYSTEM", "PENDING_APPROVAL")>>
         [] OTHER -> <<>>

(* A locked draft goes on by itself to execution or to approval. *)
Automatic(r, tool, answer) ==
  IF \/ r.state # "DRAFT_READY" \/ answer.kind # "ok"
     \/ tool \notin {"create_order_draft", "get_order_draft"}
    THEN <<>>
  ELSE IF r.draftExpiry <= clock \/ Timeout <= clock
    THEN <<Move(r, "TIMEOUT_RECORDED", "TIMEOUT", "EXPIRED")>>
  ELSE CASE r.goal = "PAPER_EXECUTION" ->
              <<Move(r, "STATE_TRANSITION", "SYSTEM", "EXECUTING")>>
         [] r.goal = "LIVE_ASSISTED_EXECUTION" ->
              <<Move(r, "STATE_TRANSITION", "SYSTEM", "PENDING_APPROVAL")>>
         [] OTHER -> <<>>

TimedOut(r) == Move(r, "TIMEOUT_RECORDED", "TIMEOUT", "TIMED_OUT")

ResponseEvents(r, c, answer) ==
  LET late == Late(c.tool)
      outcome == [ToolEvent(r, ResponseKind(answer), c,
                            IF late THEN r.state ELSE ResponseTarget(r, c.tool, answer))
                  EXCEPT !.code = IF answer.kind = "failed" THEN answer.code ELSE None,
                         !.artifact = IF answer.kind = "ok" /\ Yields[c.tool] \notin r.artifacts
                                      THEN Yields[c.tool] ELSE None,
                         !.expires = IF answer.kind = "ok" /\ c.tool = "create_order_draft"
                                     THEN answer.expires ELSE None]
      recorded == IF late THEN <<outcome, TimedOut(r)>> ELSE <<outcome>>
      limit == PostCallLimit(After(r, recorded)) IN
  recorded \o limit \o Automatic(After(r, recorded \o limit), c.tool, answer)

(* Mutant: a submission that raised is recorded as merely failed.          *)
MutantForgivesRaise(r, c, answer) ==
  CASE answer.kind = "denied"    -> "REJECTED"
    [] answer.kind = "arguments" -> r.state
    [] answer.kind = "raised"    -> "FAILED"

(* Where a call leads that the registry rejected or that raised.           *)
ExceptionTarget(r, c, answer) ==
  CASE answer.kind # "arguments" /\ r.state \in AfterExecutionStates -> "INCIDENT"
    [] answer.kind = "denied" /\ r.state \notin AfterExecutionStates -> "REJECTED"
    [] answer.kind = "arguments"                                     -> r.state
    [] answer.kind = "raised" /\ r.state \notin AfterExecutionStates -> "FAILED"

ExceptionEvents(r, c, answer) ==
  LET rejected == answer.kind # "raised"
      code == CASE answer.kind = "denied"    -> "PERMISSION_DENIED"
                [] answer.kind = "arguments" -> "INVALID_ARGUMENTS"
                [] answer.kind = "raised"    -> "INTERNAL"
      target == ExceptionTarget(r, c, answer)
      exhausted == \/ rejected /\ r.invalid + 1 >= MaxInvalidCalls
                   \/ /\ target = r.state /\ r.state # "RECONCILING"
                      /\ r.calls >= MaxToolCalls
      Outcome(kind, after) == [ToolEvent(r, kind, c, after) EXCEPT !.code = code] IN
  CASE Late(c.tool) ->
         <<Outcome(IF rejected THEN "TOOL_CALL_REJECTED" ELSE "TOOL_CALL_FAILED", r.state),
           TimedOut(r)>>
    [] ~Late(c.tool) /\ ~rejected -> <<Outcome("TOOL_CALL_FAILED", target)>>
    [] ~Late(c.tool) /\ rejected ->
         <<Outcome("TOOL_CALL_REJECTED", r.state)>> \o
         (CASE exhausted                            -> <<Stop(r)>>
            [] ~exhausted /\ target = r.state       -> <<>>
            [] ~exhausted /\ target = "INCIDENT"    ->
                 <<Move(r, "INCIDENT_RECORDED", "SYSTEM", "INCIDENT")>>
            [] ~exhausted /\ target = "REJECTED"    ->
                 <<Move(r, "STATE_TRANSITION", "SYSTEM", "REJECTED")>>)

(* The events the instance appends to the run it reserved. *)
OutcomeEvents(i) ==
  LET r == call[i].reserved
      c == r.pending
      answer == Understood(i, r, c.tool, call[i].answer) IN
  IF answer.kind \in {"ok", "failed"} THEN ResponseEvents(r, c, answer)
                                      ELSE ExceptionEvents(r, c, answer)

(* Mutant: the outcome is saved over whatever the run has become.          *)
MutantBlindSave(i) == TRUE

Unmoved(i) == run = call[i].reserved

Stored(i) == Unmoved(i) /\ Replayable(call[i].reserved, OutcomeEvents(i))

(* A reconciliation that requires a stop. *)
StopSignal(i) ==
  /\ i \in knows
  /\ Reserved(i).tool = "reconcile_account"
  /\ call[i].answer.kind = "ok" /\ call[i].answer.verdict = "rejected"

(* Mutant: the incident handler is told before the outcome is saved.       *)
MutantTellsFirst(i) == StopSignal(i)

Tells(i) == Stored(i) /\ StopSignal(i)

(* The outcome is saved, or the save is refused and the caller gets an     *)
(* error; after a saved stop signal the incident handler is told.          *)
Record(i) ==
  /\ InPhase(i, "answered")
  /\ run' = IF Stored(i) THEN After(call[i].reserved, OutcomeEvents(i)) ELSE run
  /\ notified' = (notified \/ Tells(i))
  /\ call' = [call EXCEPT ![i] = Idle]
  /\ UNCHANGED <<clock, knows, submitted>>

Tick ==
  /\ run # NoRun /\ clock < MaxClock
  /\ clock' = clock + 1
  /\ UNCHANGED <<run, call, knows, submitted, notified>>

Invoke(i) ==
  \/ StopOnBudget(i)
  \/ DenyAfterCancel(i)
  \/ Passes(i) /\ \E c \in CallsOf(run) : Deny(i, c) \/ Reserve(i, c)

Next ==
  \/ \E i \in Instance :
       \/ \E goal \in Goal : StartRun(i, goal)
       \/ TimeGate(i) \/ RequestCancel(i) \/ RejectApproval(i)
       \/ \E approval \in Approval : RecordApproval(i, approval)
       \/ Invoke(i) \/ Dispatch(i) \/ Record(i)
  \/ Tick

Spec == Init /\ [][Next]_vars

(* The reconciliation a host retries: of the locked draft. *)
Reconcile(i) ==
  Passes(i) /\ \E c \in CallsOf(run) :
    c.tool = "reconcile_account" /\ c.batch = "draft" /\ Reserve(i, c)

(* Record, as far as the instance is concerned. *)
Returns(i) == InPhase(i, "answered") /\ call' = [call EXCEPT ![i] = Idle]

(* Time passes, handlers return, and a host that is waiting for a run      *)
(* polls it and repeats its reconciliation.                                *)
Fairness ==
  /\ WF_vars(Tick)
  /\ \A i \in Instance :
       /\ WF_vars(Dispatch(i)) /\ WF_call(Returns(i)) /\ WF_vars(TimeGate(i))
       /\ WF_vars(Reconcile(i) \/ StopOnBudget(i))

FairSpec == Spec /\ Fairness
-----------------------------------------------------------------------------
Submitting(i) == InPhase(i, "dispatched") /\ Reserved(i).tool \in ExecutionTools

(* A submission is dispatched only for the locked draft while it and every *)
(* approval of it are in force, after an accepted risk check, not after a  *)
(* cancellation, and for a live run only when approved (invoke_tool).      *)
OnlyAuthorisedSubmissions ==
  [][\A i \in Instance : Submitting(i)' /\ ~Submitting(i) =>
       LET r == call'[i].reserved IN
       /\ ~r.cancelled
       /\ \A t \in {r.draftExpiry, r.approvalDeadline, Timeout} \ {None} : clock < t
       /\ r.pending.batch = "draft" /\ "RISK_CHECK" \in r.artifacts
       /\ r.goal = "LIVE_ASSISTED_EXECUTION" => r.approved]_vars

(* The incident handler hears of a stop signal only from a run that is     *)
(* stored as an incident (_notify_reconciliation_incident).                *)
StopSignalIsDurable == notified => run.state = "INCIDENT"

(* The outcomes whose events the replay refuses (README, section 7).       *)
RefusedReconciliation(i) ==
  /\ Reserved(i).tool = "reconcile_account"
  /\ call[i].answer.kind = "arguments" /\ call[i].reserved.cancelled
RefusedDraft(i) ==
  /\ Reserved(i).tool = "create_order_draft" /\ Late("create_order_draft")
  /\ call[i].answer.kind = "ok" /\ call[i].answer.expires <= clock
RefusedDenial(i) ==
  /\ call[i].answer.kind = "denied"
  /\ call[i].reserved.calls >= MaxToolCalls
  /\ call[i].reserved.invalid + 1 < MaxInvalidCalls
  /\ call[i].reserved.state \notin AfterExecutionStates
  /\ ~Late(Reserved(i).tool)

Recordable(i) == InPhase(i, "answered") /\ Unmoved(i) => Stored(i)

(* The service and the replay agree on every outcome: as long as no one    *)
(* else moved the run, the save of an outcome is not refused               *)
(* (_record_response, _record_registry_exception against replay.py).       *)
OutcomesCanBeStored ==
  \A i \in Instance :
    InPhase(i, "answered") =>
      RefusedReconciliation(i) \/ RefusedDraft(i) \/ RefusedDenial(i) \/ Recordable(i)

(* The artifacts a run must have gathered before a state, in all.          *)
StepsBehind(r) ==
  {GoalPath[r.goal][n] :
     n \in {k \in DOMAIN GoalPath[r.goal] :
              \E m \in DOMAIN GoalPath[r.goal] : GoalPath[r.goal][m] = r.state /\ k <= m}}

(* What is stored is a run, and one that reached a stage, or its goal,     *)
(* holds the evidence of every stage before it, not just of the last one   *)
(* (_validate_milestone).                                                  *)
EvidenceIsComplete ==
  run # NoRun =>
    /\ run \in Run
    /\ \A state \in StepsBehind(run) \cap ProvenStates :
         Proof(state, run.goal) \cap run.artifacts # {}

(* A run that is started ends, or comes to wait for its reconciliation.    *)
RunEnds ==
  run # NoRun ~> (run # NoRun /\ run.state \in TerminalStates \cup {"RECONCILING"})

(* A reconciliation nobody cancels closes the run. *)
ReconcilingCloses ==
  (run # NoRun /\ run.state = "RECONCILING")
    ~> (run # NoRun /\ (run.state \in TerminalStates \/ run.cancelled))

(* tests/unit/test_agent_runtime.py:1502: a reconciliation whose arguments *)
(* are rejected stays RECONCILING and can be retried.  Not so once the run *)
(* was cancelled: see README.                                              *)
RejectedReconciliationIsRetryable ==
  \A i \in Instance : InPhase(i, "answered") => (RefusedReconciliation(i) => Recordable(i))

(* What the runtime promises of a run's orders (AgentRunPromise).          *)
Promise == INSTANCE AgentRunPromise WITH
  claimed <- \E i \in Instance : Submitting(i),
  sent <- submitted,
  verdict <- IF run = NoRun \/ Open(run) THEN "open"
             ELSE CASE run.state = "COMPLETED" -> "confirmed"
                    [] run.state = "INCIDENT"  -> "incident"
                    [] OTHER                   -> "nothing sent"
ImplementsPromise == Promise!Spec
=============================================================================
