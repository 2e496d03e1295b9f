----------------------------- MODULE ToolRegistry -----------------------------
(***************************************************************************)
(* The registry between the agent runtime and the tool handlers            *)
(* (agent/tools/registry.py) and the fixed policy it enforces              *)
(* (agent/tools/policy.py).  A registry is sealed with one runtime mode    *)
(* and its grants; every invocation appends an authorization event to the  *)
(* audit log before it is refused or its handler runs, and is refused or   *)
(* given up when the event cannot be appended.                             *)
(*                                                                         *)
(* Arguments are abstract: an invocation may find its own refused by the   *)
(* parser, by the tool's schema or for want of an idempotency key.         *)
(***************************************************************************)

CONSTANTS
  Registered,       \* the tools a handler is registered for
  Granted,          \* the capabilities the principal is granted
  AccountGranted,   \* whether the decision's account is granted
  LiveAuthorizer    \* whether live executions can be authorized

-----------------------------------------------------------------------------
(* The policy.                                                             *)
RuntimeMode == {"RESEARCH", "BACKTEST", "PAPER", "LIVE_ASSISTED"}

CapabilityOf ==
  [get_market_snapshot      |-> "MARKET_DATA_READ",
   validate_market_data     |-> "MARKET_DATA_VALIDATE",
   detect_market_regime     |-> "RESEARCH_ANALYSIS",
   rank_market_themes       |-> "RESEARCH_ANALYSIS",
   rank_theme_leaders       |-> "RESEARCH_ANALYSIS",
   rank_stock_candidates    |-> "RESEARCH_ANALYSIS",
   explain_candidate        |-> "RESEARCH_ANALYSIS",
   run_backtest             |-> "BACKTEST_RUN",
   get_portfolio_snapshot   |-> "ACCOUNT_READ",
   build_target_portfolio   |-> "PORTFOLIO_BUILD",
   check_portfolio_risk     |-> "RISK_CHECK",
   create_order_draft       |-> "ORDER_DRAFT_CREATE",
   get_order_draft          |-> "ORDER_DRAFT_READ",
   submit_paper_orders      |-> "PAPER_ORDER_SUBMIT",
   submit_approved_orders   |-> "APPROVED_LIVE_ORDER_SUBMIT",
   reconcile_account        |-> "ACCOUNT_RECONCILE",
   generate_decision_report |-> "REPORT_READ"]

AllTools == DOMAIN CapabilityOf
Capability == {CapabilityOf[tool] : tool \in AllTools}

(* Tools only people may use: no handler can be registered for them.       *)
HumanOnly == {"approve_order_batch", "change_risk_limits", "change_runtime_mode",
              "deactivate_kill_switch", "disable_kill_switch", "recover_kill_switch"}

Submissions == {"PAPER_ORDER_SUBMIT", "APPROVED_LIVE_ORDER_SUBMIT"}
WriteCapabilities == Submissions \cup {"ORDER_DRAFT_CREATE"}

(* The tools that need an idempotency key. *)
WriteTools == {tool \in AllTools : CapabilityOf[tool] \in WriteCapabilities}

AccountCapabilities ==
  {"ACCOUNT_READ", "PORTFOLIO_BUILD", "RISK_CHECK", "ORDER_DRAFT_READ", "ACCOUNT_RECONCILE"}
    \cup WriteCapabilities
AccountScoped ==
  {tool \in AllTools : CapabilityOf[tool] \in AccountCapabilities}
    \cup {"rank_theme_leaders", "rank_stock_candidates", "explain_candidate"}

NeedsAuthorizer == {"submit_approved_orders"}

(* The modes whose registry offers a capability. *)
ModeCeiling(capability) ==
  CASE capability = "BACKTEST_RUN"               -> {"BACKTEST"}
    [] capability = "PAPER_ORDER_SUBMIT"         -> {"PAPER"}
    [] capability = "APPROVED_LIVE_ORDER_SUBMIT" -> {"LIVE_ASSISTED"}
    [] capability \in AccountCapabilities \ Submissions -> {"PAPER", "LIVE_ASSISTED"}
    [] OTHER                                     -> RuntimeMode

(* A backtest can trade nothing, research not even draft an order. *)
PolicyIsSafe ==
  /\ \A c \in Submissions : ModeCeiling(c) \cap {"RESEARCH", "BACKTEST"} = {}
  /\ "RESEARCH" \notin ModeCeiling("ORDER_DRAFT_CREATE")
  /\ HumanOnly \cap AllTools = {}

ASSUME RegistryAssumption ==
  /\ Registered \subseteq AllTools
  /\ Granted \subseteq Capability
  /\ {AccountGranted, LiveAuthorizer} \subseteq BOOLEAN
  /\ PolicyIsSafe

-----------------------------------------------------------------------------
(* One invocation: how it ends for the caller, and whether the handler ran. *)

(* A refusal reaches the caller as such only when it could be audited.     *)
Refused(kind) == {[kind |-> k, ran |-> FALSE] : k \in {kind, "raised"}}

(* Refused whatever decision it is for. *)
NotServed(mode, tool) ==
  \/ tool \notin Registered
  \/ mode \notin ModeCeiling(CapabilityOf[tool])
  \/ CapabilityOf[tool] \notin Granted
  \/ tool \in NeedsAuthorizer /\ ~LiveAuthorizer

OutOfScope(tool) == tool \in AccountScoped /\ ~AccountGranted

(* The handler runs once its permission is in the audit log, and may raise *)
(* or return what the output check refuses.                                *)
Executed == {[kind |-> "answered", ran |-> TRUE], [kind |-> "raised", ran |-> TRUE],
             [kind |-> "raised", ran |-> FALSE]}

(* A live execution is authorized for its whole duration. *)
Authorized(tool) ==
  Executed \cup IF tool \in NeedsAuthorizer THEN Refused("denied") ELSE {}

(* The decision of the call is looked up first, and may be missing.        *)
Invocation(mode, tool) ==
  Refused("denied") \cup
    IF NotServed(mode, tool) \/ OutOfScope(tool) THEN {}
    ELSE Refused("arguments") \cup Authorized(tool)
=============================================================================
