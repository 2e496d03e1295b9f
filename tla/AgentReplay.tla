----------------------------- MODULE AgentReplay -----------------------------
(***************************************************************************)
(* What the event chain of an agent run proves: the fold of                *)
(* agent/runtime/replay.py over the events a save appends.  A stored run   *)
(* is the fold of its chain so far, so the model keeps that fold instead   *)
(* of the chain and replays only what a save adds.                         *)
(*                                                                         *)
(* Times count from the creation of the run.  Hashes are left out: a batch *)
(* is the run's locked draft, another one or absent, an artifact is its    *)
(* kind, and the n-th reservation of a run has request n.  An unsuccessful *)
(* outcome carries the code that ranks highest in it.                      *)
(***************************************************************************)
EXTENDS AgentRules

CONSTANTS MaxToolCalls, MaxInvalidCalls, MaxReconciliations,
          Timeout, ApprovalTimeout,   \* AgentRunLimits
          Key,                        \* idempotency keys
          None

ASSUME LimitsAssumption ==
  /\ MaxToolCalls \in Nat \ {0} /\ MaxInvalidCalls \in 1..MaxToolCalls
  /\ MaxReconciliations \in Nat \ {0}
  /\ Timeout \in Nat \ {0} /\ ApprovalTimeout \in Nat \ {0}
  /\ None \notin Key \cup Nat \cup ArtifactKinds

Batch == {"draft", "other", "none"}
Call == [request : Nat \ {0}, tool : AllTools, key : Key \cup {None}, batch : Batch]
Identity == [key : Key \cup {None}, batch : Batch]

IdentityOf(call) == [key |-> call.key, batch |-> call.batch]

(* One run as its chain proves it. *)
Run ==
  [state : RunStates, goal : RunGoals,
   calls : Nat, invalid : Nat, reconciliations : Nat, cancelled : BOOLEAN,
   artifacts : SUBSET ArtifactKinds, draftExpiry : Nat \cup {None},
   approved : BOOLEAN, approvalSince : Nat \cup {None}, approvalDeadline : Nat \cup {None},
   pending : Call \cup {None}, locked : [WriteTools -> Identity \cup {None}]]

Open(r) == r.state \notin TerminalStates

(* What bounds the authority of a draft: its own expiry and the approval's. *)

(* Mutant: an approval does not expire, only its draft does.               *)
MutantDraftExpiryOnly(r, now) == r.draftExpiry # None /\ now >= r.draftExpiry

Expired(r, now) == \E t \in {r.draftExpiry, r.approvalDeadline} \ {None} : now >= t

WritePending(r) == r.pending # None /\ r.pending.tool \in ExecutionTools

(* The tools whose outcome may be recorded after the deadline. *)
Unhurried == ExecutionTools \cup {"reconcile_account"}

StageValid(r, call) ==
  /\ call.tool \in StageTools(r.state, r.goal)
  /\ HasPrerequisite(call.tool, r.artifacts)
  /\ call.tool \in BatchTools => "ORDER_DRAFT" \in r.artifacts /\ call.batch = "draft"

(* AgentPendingToolCall accepts the reservation. *)
Strict(call) ==
  /\ call.tool \in WriteTools => call.key # None
  /\ call.tool \in ExecutionTools => call.batch # "none"

KeepsIdentity(r, call) ==
  call.tool \in WriteTools => r.locked[call.tool] \in {None, IdentityOf(call)}

(***************************************************************************)
(* Where an unsuccessful outcome must lead.                                *)
(***************************************************************************)
ResponseCodes == {"KILL_SWITCH_ACTIVE", "RISK_REJECTED", "DATA_INVALID", "APPROVAL_EXPIRED",
                  "UNAUTHORIZED", "RECOVERABLE", "INTERNAL"}

FailedState(state, tool, code) ==
  CASE tool \in Unhurried \/ code = "KILL_SWITCH_ACTIVE" -> "INCIDENT"
    [] OTHER -> CASE code \in {"RISK_REJECTED", "UNAUTHORIZED"} -> "REJECTED"
                  [] code = "DATA_INVALID"                      -> "DATA_INVALID"
                  [] code = "RECOVERABLE"                       -> state
                  [] OTHER                                      -> "FAILED"

(***************************************************************************)
(* Events.                                                                 *)
(***************************************************************************)
Event(kind, trigger, before, after, at) ==
  [kind |-> kind, trigger |-> trigger, before |-> before, after |-> after, at |-> at,
   call |-> None, code |-> None, artifact |-> None, expires |-> None, approval |-> None]

SystemKinds == {"RUN_CREATED", "STATE_TRANSITION", "LIMIT_REACHED"}
TriggersOf(kind) ==
  CASE kind \in SystemKinds                                 -> {"SYSTEM"}
    [] kind \in SameStateObservations                       -> {"TOOL"}
    [] kind \in {"APPROVAL_RECORDED", "APPROVAL_REJECTED"}  -> {"HUMAN"}
    [] kind = "CANCELLATION_REQUESTED"                      -> {"CANCELLATION"}
    [] kind = "TIMEOUT_RECORDED"                            -> {"TIMEOUT"}
    [] kind = "INCIDENT_RECORDED" -> {"SYSTEM", "TIMEOUT", "KILL_SWITCH", "CANCELLATION"}

(***************************************************************************)
(* The fold: the run so far, whether the chain is acceptable, the events   *)
(* that must come next, and whether the pending reservation was in stage   *)
(* and strict.                                                             *)
(***************************************************************************)
Resume(r) == [run |-> r, ok |-> TRUE, due |-> {}, stageValid |-> TRUE, strict |-> TRUE]

MustFollow(kind, trigger, after, at) ==
  [kind |-> kind, trigger |-> trigger, after |-> after, at |-> at]

FollowsUp(a, e) == \A d \in a.due : d = MustFollow(e.kind, e.trigger, e.after, e.at)

Overdue(e) == e.call.tool \notin Unhurried /\ e.at >= Timeout

CancellationFits(r, e) ==
  e.kind = "CANCELLATION_REQUESTED" =>
    e.after = IF r.state = "RECONCILING" \/ WritePending(r) THEN e.before ELSE "CANCELLED"

(* While a call is reserved only its outcome, an ending of the run or the  *)
(* note of a cancellation may come next.                                   *)
PendingRespected(a, e) ==
  a.run.pending # None /\ e.kind \notin ToolOutcomes =>
    /\ a.stageValid /\ a.strict
    /\ ~(e.kind = "TIMEOUT_RECORDED" /\ WritePending(a.run))
    /\ e.kind \in {"CANCELLATION_REQUESTED", "TIMEOUT_RECORDED", "INCIDENT_RECORDED"}
    /\ \/ e.after \in TerminalStates
       \/ e.kind = "CANCELLATION_REQUESTED" /\ e.after = e.before

MayReserve(r, e) ==
  e.kind = "TOOL_CALL_RESERVED" =>
    /\ r.invalid < MaxInvalidCalls
    /\ IF r.state = "RECONCILING" THEN r.reconciliations < MaxReconciliations
                                  ELSE r.calls < MaxToolCalls
    /\ r.pending = None
    /\ e.call.request > r.calls
    /\ ~(r.cancelled /\ e.call.tool \in ExecutionTools)

Succeeded(e) == e.kind \in {"TOOL_CALL_SUCCEEDED", "TOOL_CALL_REPLAYED"}

OutcomeFits(a, e) ==
  LET r == a.run
      tool == e.call.tool
      dispatched == e.kind # "TOOL_CALL_REJECTED" IN
  /\ e.call = r.pending
  /\ dispatched => a.strict /\ a.stageValid /\ KeepsIdentity(r, e.call)
  /\ ~dispatched \/ Overdue(e) => e.after = e.before
  /\ e.kind = "TOOL_CALL_FAILED" =>
       /\ e.after \in {e.before, "REJECTED", "DATA_INVALID", "FAILED", "INCIDENT"}
       /\ e.at < Timeout \/ tool \in Unhurried =>
            e.after = FailedState(r.state, tool, e.code)
  /\ Succeeded(e) =>
       /\ tool \in ExecutionTools => e.after = "RECONCILING"
       /\ tool = "reconcile_account" => e.after \in {"COMPLETED", "INCIDENT"}
       /\ e.artifact # None \/ Yields[tool] \in r.artifacts
  /\ e.artifact # None => Succeeded(e) /\ e.artifact = Yields[tool]
  /\ e.artifact = "ORDER_DRAFT" => e.expires # None

(* A registry's rejection of arguments is safe to repeat. *)
SafeArguments(a, e) ==
  /\ ~a.run.cancelled
  /\ a.strict /\ a.stageValid
  /\ e.code = "INVALID_ARGUMENTS"

(* What must follow an outcome immediately; next is the run after it. *)
DueAfter(a, e, next) ==
  LET rejected == e.kind = "TOOL_CALL_REJECTED"
      inExecution == e.before \in AfterExecutionStates
      spent == next.invalid >= MaxInvalidCalls
      spentHere == spent \/ (e.before # "RECONCILING" /\ next.calls >= MaxToolCalls)
      exhausted == /\ e.after \notin TerminalStates \cup {"RECONCILING"}
                   /\ ~Overdue(e)
                   /\ spent \/ next.calls >= MaxToolCalls
      Due(condition, d) == IF condition THEN {d} ELSE {} IN
  Due(rejected /\ inExecution /\ ~SafeArguments(a, e) /\ ~spentHere,
      MustFollow("INCIDENT_RECORDED", "SYSTEM", "INCIDENT", e.at))
  \cup
  Due(/\ rejected /\ ~inExecution /\ ~spentHere /\ e.at < Timeout
      /\ e.code # "STAGE_REJECTED" /\ ~SafeArguments(a, e),
      MustFollow("STATE_TRANSITION", "SYSTEM", "REJECTED", e.at))
  \cup
  Due(exhausted,
      IF inExecution THEN MustFollow("INCIDENT_RECORDED", "SYSTEM", "INCIDENT", e.at)
                     ELSE MustFollow("LIMIT_REACHED", "SYSTEM", "LIMIT_EXCEEDED", e.at))
  \cup
  Due(/\ e.artifact = "ORDER_DRAFT" /\ e.after \notin TerminalStates
      /\ e.expires <= e.at /\ ~exhausted,
      MustFollow("TIMEOUT_RECORDED", "TIMEOUT", "EXPIRED", e.at))
  \cup
  Due(Overdue(e), MustFollow("TIMEOUT_RECORDED", "TIMEOUT", "TIMED_OUT", e.at))

(* Approvals come inside the window they were asked for in, and bind the   *)
(* locked draft.                                                           *)
ControlFits(r, e) ==
  /\ e.kind \in {"APPROVAL_RECORDED", "APPROVAL_REJECTED"} =>
       r.approvalDeadline # None /\ e.at < r.approvalDeadline
  /\ e.kind = "APPROVAL_RECORDED" =>
       /\ "ORDER_DRAFT" \in r.artifacts /\ e.approval.batch = "draft"
       /\ r.approvalSince # None /\ r.approvalSince <= e.approval.signed
       /\ e.approval.signed <= e.at /\ e.at < e.approval.expires

(* Nothing happens after the time that ended its authority. *)
DeadlineFits(next, e) ==
  LET late == e.at >= Timeout
      unauthorised == late \/ Expired(next, e.at)
      hurried == e.before # "RECONCILING" IN
  /\ e.kind = "STATE_TRANSITION" /\ hurried => ~late
  /\ e.kind = "CANCELLATION_REQUESTED" /\ hurried =>
       ~late /\ (e.before \in AuthorisedStates => ~unauthorised)
  /\ e.kind = "TOOL_CALL_RESERVED" /\ e.call.tool # "reconcile_account" =>
       /\ ~late
       /\ e.before \in AuthorisedStates \/ e.call.tool \in ExecutionTools => ~unauthorised
  /\ e.after = "EXECUTING" /\ e.before # "EXECUTING" => ~unauthorised
  /\ e.kind = "INCIDENT_RECORDED" /\ e.trigger = "TIMEOUT" => late
  /\ e.kind = "TIMEOUT_RECORDED" =>
       IF e.after = "EXPIRED" THEN Expired(next, e.at) ELSE late

LimitFits(next, e) ==
  e.kind = "LIMIT_REACHED" =>
    \/ next.invalid >= MaxInvalidCalls
    \/ e.before # "RECONCILING" /\ next.calls >= MaxToolCalls
    \/ e.before = "RECONCILING" /\ next.reconciliations >= MaxReconciliations

WithinLimits(r) ==
  /\ r.calls <= MaxToolCalls + r.reconciliations
  /\ r.invalid <= MaxInvalidCalls
  /\ r.reconciliations <= MaxReconciliations

(* The artifacts of which one must be there when a run enters a state. *)
Proof(state, goal) ==
  CASE state = "DATA_VALIDATED"    -> {"DATA_QUALITY"}
    [] state = "ANALYZED"          -> (CASE goal = "BACKTEST_REPORT" -> {"BACKTEST_REPORT"}
                                         [] goal = "MARKET_RESEARCH" -> ResearchArtifacts
                                         [] OTHER                    -> {"STOCK_CANDIDATES"})
    [] state = "PORTFOLIO_READY"   -> {"TARGET_PORTFOLIO"}
    [] state = "RISK_CHECKED"      -> {"RISK_CHECK"}
    [] state \in AuthorisedStates  -> {"ORDER_DRAFT"}
    [] state = "RECONCILING"       -> {"EXECUTION_RECEIPT"}
    [] state = "REPORTED"          -> {"DECISION_REPORT"}
    [] state = "COMPLETED"         -> {"RECONCILIATION"}
ProvenStates ==
  {"DATA_VALIDATED", "ANALYZED", "PORTFOLIO_READY", "RISK_CHECKED", "RECONCILING",
   "REPORTED", "COMPLETED"} \cup AuthorisedStates

MilestoneProven(next) ==
  /\ next.state \in ProvenStates =>
       Proof(next.state, next.goal) \cap next.artifacts # {}
  /\ /\ next.state \in {"APPROVED", "COMPLETED"} \cup AfterExecutionStates
     /\ next.goal = "LIVE_ASSISTED_EXECUTION"
     => next.approved

Earliest(times) == CHOOSE t \in times : \A u \in times : t <= u

OpensApproval(e) == e.after = "PENDING_APPROVAL" /\ e.before # "PENDING_APPROVAL"

(* Mutant: only the latest artifact is kept.                               *)
MutantLatestOnly(r, e) == IF e.artifact = None THEN r.artifacts ELSE {e.artifact}

Gathered(r, e) == r.artifacts \cup ({e.artifact} \ {None})

(* The run after one more event. *)
Absorb(r, e) ==
  LET reserved == e.kind = "TOOL_CALL_RESERVED"
      outcome == e.kind \in ToolOutcomes
      one(condition) == IF condition THEN 1 ELSE 0
      draftExpiry == IF e.artifact = "ORDER_DRAFT" /\ "ORDER_DRAFT" \notin r.artifacts
                     THEN e.expires ELSE r.draftExpiry IN
  [r EXCEPT
     !.state = e.after,
     !.calls = @ + one(reserved),
     !.reconciliations = @ + one(reserved /\ e.call.tool = "reconcile_account"),
     !.invalid = @ + one(e.kind = "TOOL_CALL_REJECTED"),
     !.cancelled = @ \/ e.kind = "CANCELLATION_REQUESTED",
     !.pending = IF reserved THEN e.call
                 ELSE IF outcome \/ e.after \in TerminalStates THEN None ELSE @,
     !.locked = IF outcome /\ e.kind # "TOOL_CALL_REJECTED" /\ e.call.tool \in WriteTools
                THEN [@ EXCEPT ![e.call.tool] = IdentityOf(e.call)] ELSE @,
     !.artifacts = Gathered(r, e),
     !.draftExpiry = draftExpiry,
     !.approved = @ \/ e.kind = "APPROVAL_RECORDED",
     !.approvalSince = IF OpensApproval(e) THEN e.at ELSE @,
     !.approvalDeadline =
        IF OpensApproval(e) /\ draftExpiry # None
          THEN Earliest({draftExpiry, Timeout, e.at + ApprovalTimeout})
        ELSE IF e.kind = "APPROVAL_RECORDED" /\ @ # None
          THEN Earliest({@, e.approval.expires})
        ELSE @]

ReplayStep(a, e) ==
  LET r == a.run
      next == Absorb(r, e)
      outcome == e.kind \in ToolOutcomes
      reserved == e.kind = "TOOL_CALL_RESERVED" IN
  [run |-> next,
   ok |-> /\ a.ok
          /\ e.before = r.state
          /\ e.trigger \in TriggersOf(e.kind)
          /\ FollowsUp(a, e)
          /\ ValidTransition(e.before, e.after, r.goal, e.kind)
          /\ CancellationFits(r, e)
          /\ PendingRespected(a, e)
          /\ MayReserve(r, e)
          /\ IF outcome THEN OutcomeFits(a, e) ELSE e.artifact = None
          /\ ControlFits(r, e)
          /\ OpensApproval(e) => next.draftExpiry # None /\ next.approvalDeadline > e.at
          /\ DeadlineFits(next, e)
          /\ LimitFits(next, e)
          /\ WithinLimits(next)
          /\ MilestoneProven(next),
   due |-> IF outcome THEN DueAfter(a, e, next) ELSE {},
   stageValid |-> IF reserved THEN StageValid(r, e.call) ELSE a.stageValid,
   strict |-> IF reserved THEN Strict(e.call) ELSE a.strict]

Replay(r, events) == FoldLeft(ReplayStep, Resume(r), events)

(* A chain may be stored when nothing is still due and a call left pending *)
(* could be dispatched.                                                    *)
Replayable(r, events) ==
  LET a == Replay(r, events) IN
  /\ a.ok /\ a.due = {}
  /\ a.run.pending # None =>
       a.stageValid /\ a.strict /\ KeepsIdentity(a.run, a.run.pending)
=============================================================================
