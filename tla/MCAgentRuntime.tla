---------------------------- MODULE MCAgentRuntime ----------------------------
(* Small instances of AgentRuntime for TLC: the tools a model asks for.    *)
EXTENDS AgentRuntime

(* The shortest way to a draft, submission and reconciliation.             *)
MCTrading ==
  {"get_market_snapshot", "validate_market_data", "rank_stock_candidates",
   "get_portfolio_snapshot", "build_target_portfolio", "check_portfolio_risk",
   "create_order_draft", "submit_paper_orders", "reconcile_account"}
MCLiveTrading ==
  (MCTrading \ {"submit_paper_orders"}) \cup {"submit_approved_orders", "get_order_draft"}

(* The ways to a report, with the optional stops on them.                  *)
MCReporting ==
  {"get_market_snapshot", "validate_market_data", "detect_market_regime",
   "rank_stock_candidates", "explain_candidate", "run_backtest",
   "get_portfolio_snapshot", "build_target_portfolio", "check_portfolio_risk",
   "create_order_draft", "get_order_draft", "generate_decision_report"}

(* A registry for each goal, which grants what its mode offers.            *)
MCModeOf == [goal \in Goal |-> CHOOSE mode \in GoalModes[goal] : TRUE]

(* Every way of every goal.                                                *)
MCEverything == MCTrading \cup MCLiveTrading \cup MCReporting
=============================================================================
