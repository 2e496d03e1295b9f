----------------------------- MODULE AgentRules -----------------------------
(***************************************************************************)
(* The workflow rules of an agent run: its states, the path each goal      *)
(* takes through them, which event may move a run where, and which tools   *)
(* a stage offers (agent/runtime/rules.py).  Both the service that builds  *)
(* events and the replay that re-derives a run from them use these rules.  *)
(***************************************************************************)
EXTENDS ToolRegistry, Naturals, Sequences, SequencesExt

(***************************************************************************)
(* States.                                                                 *)
(***************************************************************************)
PreExecutionStates == {"RECEIVED", "SNAPSHOT_READY", "DATA_VALIDATED", "ANALYZED",
                       "PORTFOLIO_READY", "RISK_CHECKED", "DRAFT_READY",
                       "PENDING_APPROVAL", "APPROVED"}
AfterExecutionStates == {"EXECUTING", "RECONCILING"}
TerminalStates == {"REPORTED", "COMPLETED", "REJECTED", "DATA_INVALID", "EXPIRED",
                   "CANCELLED", "TIMED_OUT", "LIMIT_EXCEEDED", "FAILED", "INCIDENT"}
RunStates == PreExecutionStates \cup AfterExecutionStates \cup TerminalStates

(* The stages during which an order draft authorises the next submission. *)
AuthorisedStates == {"DRAFT_READY", "PENDING_APPROVAL", "APPROVED", "EXECUTING"}

(***************************************************************************)
(* Goals, and the path each takes through the states.                      *)
(***************************************************************************)
ReportGoals == {"MARKET_RESEARCH", "BACKTEST_REPORT", "PORTFOLIO_REPORT", "ORDER_DRAFT"}
ExecutionGoals == {"PAPER_EXECUTION", "LIVE_ASSISTED_EXECUTION"}
RunGoals == ReportGoals \cup ExecutionGoals

(* The modes of the host a goal may run in. *)
GoalModes ==
  [MARKET_RESEARCH         |-> RuntimeMode,
   BACKTEST_REPORT         |-> {"BACKTEST"},
   PORTFOLIO_REPORT        |-> {"PAPER", "LIVE_ASSISTED"},
   ORDER_DRAFT             |-> {"PAPER", "LIVE_ASSISTED"},
   PAPER_EXECUTION         |-> {"PAPER"},
   LIVE_ASSISTED_EXECUTION |-> {"LIVE_ASSISTED"}]

AnalysisPath == <<"RECEIVED", "SNAPSHOT_READY", "DATA_VALIDATED", "ANALYZED">>
PortfolioPath == AnalysisPath \o <<"PORTFOLIO_READY", "RISK_CHECKED">>
DraftPath == PortfolioPath \o <<"DRAFT_READY">>
SubmissionPath == <<"EXECUTING", "RECONCILING", "COMPLETED">>

GoalPath ==
  [MARKET_RESEARCH         |-> AnalysisPath \o <<"REPORTED">>,
   BACKTEST_REPORT         |-> AnalysisPath \o <<"REPORTED">>,
   PORTFOLIO_REPORT        |-> PortfolioPath \o <<"REPORTED">>,
   ORDER_DRAFT             |-> DraftPath \o <<"REPORTED">>,
   PAPER_EXECUTION         |-> DraftPath \o SubmissionPath,
   LIVE_ASSISTED_EXECUTION |-> DraftPath \o <<"PENDING_APPROVAL", "APPROVED">>
                                         \o SubmissionPath]

(* The stage at which a goal's report may be generated. *)
ReportStage ==
  [MARKET_RESEARCH  |-> "ANALYZED",     BACKTEST_REPORT |-> "ANALYZED",
   PORTFOLIO_REPORT |-> "RISK_CHECKED", ORDER_DRAFT     |-> "DRAFT_READY"]

ReportReady(goal, state) == goal \in ReportGoals /\ state = ReportStage[goal]

(***************************************************************************)
(* Transitions.                                                            *)
(***************************************************************************)
PathSuccessors(goal, state) ==
  {GoalPath[goal][n + 1] :
     n \in {k \in 1 .. Len(GoalPath[goal]) - 1 : GoalPath[goal][k] = state}}

LegalTargets(state, goal) ==
  CASE state \in TerminalStates -> {}
    [] state = "EXECUTING"      -> {"RECONCILING", "CANCELLED", "TIMED_OUT", "EXPIRED", "INCIDENT"}
    [] state = "RECONCILING"    -> {"COMPLETED", "INCIDENT"}
    [] OTHER ->
         PathSuccessors(goal, state)
           \cup {"CANCELLED", "TIMED_OUT", "LIMIT_EXCEEDED", "FAILED", "INCIDENT"}
           \cup (IF state = "APPROVED" THEN {} ELSE {"REJECTED"})
           \cup (IF state \in {"RECEIVED", "PENDING_APPROVAL", "APPROVED"}
                 THEN {} ELSE {"DATA_INVALID"})
           \cup (IF state \in {"DRAFT_READY", "PENDING_APPROVAL", "APPROVED"}
                 THEN {"EXPIRED"} ELSE {})

ToolOutcomes == {"TOOL_CALL_SUCCEEDED", "TOOL_CALL_FAILED",
                 "TOOL_CALL_REPLAYED", "TOOL_CALL_REJECTED"}
SameStateObservations == ToolOutcomes \cup {"TOOL_CALL_RESERVED"}

(* Which kinds of event may move a run into which state. *)
ChangingKindFits(before, after, kind) ==
  /\ kind \notin {"RUN_CREATED", "TOOL_CALL_RESERVED"}
  /\ after = "APPROVED" <=> kind = "APPROVAL_RECORDED"
  /\ kind = "APPROVAL_RECORDED" => before = "PENDING_APPROVAL"
  /\ kind = "APPROVAL_REJECTED" => before = "PENDING_APPROVAL" /\ after = "REJECTED"
  /\ kind = "CANCELLATION_REQUESTED" => after \in {"CANCELLED", "INCIDENT"}
  /\ kind = "TIMEOUT_RECORDED" => after \in {"TIMED_OUT", "EXPIRED", "INCIDENT"}
  /\ kind = "LIMIT_REACHED" => after \in {"LIMIT_EXCEEDED", "INCIDENT"}
  /\ kind = "INCIDENT_RECORDED" => after = "INCIDENT"
  /\ after = "CANCELLED" => kind = "CANCELLATION_REQUESTED"
  /\ after \in {"TIMED_OUT", "EXPIRED"} => kind = "TIMEOUT_RECORDED"
  /\ after = "LIMIT_EXCEEDED" => kind = "LIMIT_REACHED"

ValidTransition(before, after, goal, kind) ==
  /\ before \notin TerminalStates
  /\ \/ /\ before = after
        /\ \/ kind = "RUN_CREATED" /\ before = "RECEIVED"
           \/ kind = "CANCELLATION_REQUESTED" /\ before \in AfterExecutionStates
           \/ kind \in SameStateObservations
     \/ /\ before # after
        /\ after \in LegalTargets(before, goal)
        /\ ChangingKindFits(before, after, kind)

(***************************************************************************)
(* Tools: what each needs, what it yields, and the stages at which it is   *)
(* offered.                                                                *)
(***************************************************************************)
ResearchTools == {"detect_market_regime", "rank_market_themes", "rank_theme_leaders",
                  "rank_stock_candidates", "explain_candidate"}
ExecutionTools == {"submit_paper_orders", "submit_approved_orders"}
BatchTools == ExecutionTools \cup {"get_order_draft", "reconcile_account"}

(* The artifact a successful call of a tool yields. *)
Yields ==
  [get_market_snapshot      |-> "MARKET_SNAPSHOT",
   validate_market_data     |-> "DATA_QUALITY",
   detect_market_regime     |-> "MARKET_REGIME",
   rank_market_themes       |-> "MARKET_THEMES",
   rank_theme_leaders       |-> "THEME_LEADERS",
   rank_stock_candidates    |-> "STOCK_CANDIDATES",
   explain_candidate        |-> "CANDIDATE_EXPLANATION",
   run_backtest             |-> "BACKTEST_REPORT",
   get_portfolio_snapshot   |-> "PORTFOLIO_SNAPSHOT",
   build_target_portfolio   |-> "TARGET_PORTFOLIO",
   check_portfolio_risk     |-> "RISK_CHECK",
   create_order_draft       |-> "ORDER_DRAFT",
   get_order_draft          |-> "ORDER_DRAFT",
   submit_paper_orders      |-> "EXECUTION_RECEIPT",
   submit_approved_orders   |-> "EXECUTION_RECEIPT",
   reconcile_account        |-> "RECONCILIATION",
   generate_decision_report |-> "DECISION_REPORT"]

ArtifactKinds == {Yields[tool] : tool \in AllTools}
ResearchArtifacts == {Yields[tool] : tool \in ResearchTools}

(* The artifact a tool cannot be called without. *)
Needs ==
  [validate_market_data   |-> "MARKET_SNAPSHOT",
   explain_candidate      |-> "STOCK_CANDIDATES",
   build_target_portfolio |-> "PORTFOLIO_SNAPSHOT",
   check_portfolio_risk   |-> "TARGET_PORTFOLIO",
   create_order_draft     |-> "RISK_CHECK",
   get_order_draft        |-> "ORDER_DRAFT",
   submit_paper_orders    |-> "ORDER_DRAFT",
   submit_approved_orders |-> "ORDER_DRAFT",
   reconcile_account      |-> "EXECUTION_RECEIPT"]

HasPrerequisite(tool, artifacts) ==
  /\ tool \in DOMAIN Needs => Needs[tool] \in artifacts
  /\ tool = "get_market_snapshot" => "MARKET_SNAPSHOT" \notin artifacts

StageTools(state, goal) ==
  CASE state = "SNAPSHOT_READY"  -> {"get_market_snapshot", "validate_market_data"}
    [] state = "DATA_VALIDATED"  ->
         IF goal = "BACKTEST_REPORT" THEN {"run_backtest"} ELSE ResearchTools
    [] state = "ANALYZED"        ->
         {"explain_candidate"} \cup
         IF goal \in {"MARKET_RESEARCH", "BACKTEST_REPORT"}
         THEN {"generate_decision_report"}
         ELSE {"get_portfolio_snapshot", "build_target_portfolio"}
    [] state = "PORTFOLIO_READY" -> {"check_portfolio_risk"}
    [] state = "RISK_CHECKED"    ->
         IF goal = "PORTFOLIO_REPORT" THEN {"generate_decision_report"}
         ELSE {"create_order_draft"}
    [] state = "DRAFT_READY"     ->
         {"get_order_draft"} \cup
         (IF goal = "ORDER_DRAFT" THEN {"generate_decision_report"} ELSE {})
    [] state \in {"PENDING_APPROVAL", "APPROVED"} -> {"get_order_draft"}
    [] state = "EXECUTING"       ->
         IF goal = "PAPER_EXECUTION" THEN {"submit_paper_orders"}
         ELSE {"submit_approved_orders"}
    [] state = "RECONCILING"     -> {"reconcile_account"}
    [] OTHER                     -> {}
=============================================================================
