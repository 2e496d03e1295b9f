--------------------------- MODULE PortfolioProposal ---------------------------
(***************************************************************************)
(* From strategy targets to a target portfolio (portfolio/builder), and    *)
(* its risk check (risk/portfolio).                                        *)
(*                                                                         *)
(* The builder scales each strategy sleeve by its budget, caps single      *)
(* instruments and stock industries, and makes one line per instrument     *)
(* held or wanted.  The check compares the result with the limits of a     *)
(* policy and with the account facts of the moment: every breach is a      *)
(* finding, and the findings decide whether the proposal passes, passes    *)
(* with a warning, or is rejected.                                         *)
(*                                                                         *)
(* Weights are parts of Whole.  One sleeve carries one kind of instrument, *)
(* so a sleeve's targets are a function on the instruments of that kind.   *)
(***************************************************************************)
EXTENDS CnMarket, FiniteSetsExt

CONSTANTS
  Instruments,   \* instrument identifiers, numbered in their sorted order
  TypeOf,        \* "ETF" or "STOCK" for every instrument
  IndustryOf,    \* the point-in-time industry of every stock
  Builder,       \* PortfolioBuilderConfig
  Policy         \* PortfolioRiskPolicy

Whole == 10000
TotalOver(f, S) == MapThenSumSet(LAMBDA i : f[i], S)
OfType(type) == {i \in Instruments : TypeOf[i] = type}

(* PortfolioBuilderConfig: the budgets leave the minimum cash.             *)
ValidBuilder ==
  /\ \A w \in {Builder.etf, Builder.stock, Builder.cash, Builder.single, Builder.industry} :
       w \in 0..Whole
  /\ Builder.single > 0 /\ Builder.industry > 0
  /\ Builder.etf + Builder.stock + Builder.cash <= Whole

BudgetFor(i) == IF TypeOf[i] = "ETF" THEN Builder.etf ELSE Builder.stock

(* StrategySleeve: per cents of the sleeve, at most all of it.             *)
ValidSleeve(local) ==
  \A type \in {"ETF", "STOCK"} : TotalOver(local, OfType(type)) <= PerCent

Proposed(local) == [i \in Instruments |-> (local[i] * BudgetFor(i)) \div PerCent]

-----------------------------------------------------------------------------
(* _apply_constraints: the instrument cap, then every industry above its   *)
(* cap is reduced pro rata, the last member taking what rounding leaves.   *)

InstrumentCapped(w) == [i \in Instruments |-> Least(w[i], Builder.single)]

Members(w, industry) ==
  {i \in OfType("STOCK") : w[i] > 0 /\ IndustryOf[i] = industry}

ReducedMember(w, i) ==
  LET members == Members(w, IndustryOf[i])
      before  == TotalOver(w, members)
      share   == [m \in members |-> (w[m] * Builder.industry) \div before]
      rest    == {m \in members : m < i}
  IN  IF \A m \in members : m <= i THEN Builder.industry - TotalOver(share, rest) ELSE share[i]

IndustryCapped(w) ==
  [i \in Instruments |->
     IF /\ TypeOf[i] = "STOCK" /\ w[i] > 0
        /\ TotalOver(w, Members(w, IndustryOf[i])) > Builder.industry
     THEN ReducedMember(w, i) ELSE w[i]]

Targets(local) == IndustryCapped(InstrumentCapped(Proposed(local)))

-----------------------------------------------------------------------------
(* _current_weights: the last position takes what rounding leaves of the   *)
(* account's gross exposure.                                               *)

HeldIn(account) == {i \in Instruments : account.quantity[i] > 0}
Equity(account) == account.cash + TotalOver(account.value, Instruments)
GrossWeight(account) == (TotalOver(account.value, Instruments) * Whole) \div Equity(account)

CurrentWeights(account) ==
  LET held  == HeldIn(account)
      share == [i \in Instruments |-> (account.value[i] * Whole) \div Equity(account)]
  IN  [i \in Instruments |->
         IF i \notin held THEN 0
         ELSE IF \A j \in held : j <= i
              THEN GrossWeight(account) - TotalOver(share, held \ {i})
              ELSE share[i]]

Distance(a, b) == Largest(a - b, b - a)

(* _build_lines: a line for what is held and for what is wanted.           *)
LinesOf(account, proposed) == HeldIn(account) \cup {i \in Instruments : proposed[i] > 0}

(* Turnover counts instruments and cash, one way.                          *)
Turnover(lines, target, current, gross) ==
  LET moved == MapThenSumSet(LAMBDA i : Distance(target[i], current[i]), lines)
      cash  == Distance(Whole - TotalOver(target, lines), Whole - gross)
  IN  (moved + cash) \div 2

Portfolio(account, proposed, target, lines) ==
  LET current == CurrentWeights(account)
  IN  [account |-> account.id, lines |-> lines, proposed |-> proposed, target |-> target,
       current |-> current, equity |-> Equity(account), gross |-> GrossWeight(account),
       turnover |-> Turnover(lines, target, current, GrossWeight(account))]

(* _validate_constraint_projection: the targets are what the caps make of  *)
(* the proposed weights.                                                   *)
Projected(p) == p.target = IndustryCapped(InstrumentCapped(p.proposed))

(* TargetPortfolio: every weight is on a line, the caps only reduce, and   *)
(* no kind of instrument exceeds its own budget.                           *)
ValidPortfolio(p) ==
  /\ p.equity > 0
  /\ \A i \in Instruments : p.target[i] <= p.proposed[i] /\ p.proposed[i] <= Whole
  /\ p.gross = TotalOver(p.current, p.lines)
  /\ TotalOver(p.target, OfType("ETF")) <= Builder.etf
  /\ TotalOver(p.target, OfType("STOCK")) <= Builder.stock
  /\ Whole - TotalOver(p.target, p.lines) >= Builder.cash
  /\ Projected(p)

(* TargetPortfolioBuilder.build.                                           *)
Build(account, local) ==
  LET proposed == Proposed(local)
      p == Portfolio(account, proposed, Targets(local), LinesOf(account, proposed))
  IN  IF ValidSleeve(local) /\ ValidPortfolio(p) THEN p ELSE Failed

-----------------------------------------------------------------------------
(* PortfolioRiskPolicy: the caps are ordered, the warnings below the stops.*)
ValidPolicy ==
  /\ {Policy.singleEtf, Policy.singleStock} \subseteq 1..Whole
  /\ Policy.singleEtf <= Policy.etf /\ Policy.etf <= Policy.total
  /\ Policy.singleStock <= Policy.industry /\ Policy.industry <= Policy.stock
  /\ Policy.stock <= Policy.total
  /\ Policy.turnoverWarning < Policy.turnover
  /\ Policy.drawdownWarning < Policy.drawdownStop

Finding(code, scope, severity) == [code |-> code, scope |-> scope, severity |-> severity]

(* _append_limit_finding: above its limit, a weight that still shrinks is  *)
(* a warning and any other a violation.                                    *)
LimitFinding(code, scope, observed, current, limit) ==
  IF observed <= limit THEN {}
  ELSE {Finding(code, scope, IF observed < current THEN "WARNING" ELSE "HARD_VIOLATION")}

LineSum(proposal, weights, S) == TotalOver(weights, S \cap proposal.lines)

ExposureFindings(proposal, budget) ==
  LET all == proposal.lines
      target(S)  == LineSum(proposal, proposal.target, S)
      current(S) == LineSum(proposal, proposal.current, S)
  IN  LimitFinding("MAX_TOTAL_EXPOSURE", "TOTAL", target(all), proposal.gross, Policy.total)
      \cup LimitFinding("REGIME_RISK_BUDGET", "REGIME", target(all), proposal.gross, budget)
      \cup LimitFinding("MAX_ETF_EXPOSURE", "ETF", target(OfType("ETF")),
                        current(OfType("ETF")), Policy.etf)
      \cup LimitFinding("MAX_STOCK_EXPOSURE", "STOCK", target(OfType("STOCK")),
                        current(OfType("STOCK")), Policy.stock)

SingleLimit(i) == IF TypeOf[i] = "ETF" THEN Policy.singleEtf ELSE Policy.singleStock

InstrumentFindingsMutant(proposal) ==   \* a breach only warns
  {Finding("MAX_SINGLE_WEIGHT", i, "WARNING") :
     i \in {j \in proposal.lines : proposal.target[j] > SingleLimit(j)}}

InstrumentFindings(proposal) ==
  UNION {LimitFinding("MAX_SINGLE_WEIGHT", i, proposal.target[i], proposal.current[i],
                      SingleLimit(i)) : i \in proposal.lines}

IndustryFindings(proposal) ==
  LET stocks == OfType("STOCK") \cap proposal.lines
      of(industry) == {i \in stocks : IndustryOf[i] = industry}
  IN  UNION {LimitFinding("MAX_STOCK_INDUSTRY_WEIGHT", industry,
                          TotalOver(proposal.target, of(industry)),
                          TotalOver(proposal.current, of(industry)), Policy.industry)
             : industry \in {IndustryOf[i] : i \in stocks}}

AddsNewRisk(proposal) == \E i \in proposal.lines : proposal.target[i] > proposal.current[i]

TurnoverFindings(proposal) ==
  IF proposal.turnover > Policy.turnover
  THEN {Finding("MAX_ONE_WAY_TURNOVER", "TURNOVER",
                IF AddsNewRisk(proposal) THEN "HARD_VIOLATION" ELSE "WARNING")}
  ELSE IF proposal.turnover > Policy.turnoverWarning
       THEN {Finding("TURNOVER_WARNING", "TURNOVER", "WARNING")} ELSE {}

(* The drawdown from the highest equity known, in parts of Whole.          *)
Drawdown(equity, watermark) == ((watermark - equity) * Whole) \div watermark

DrawdownFindings(proposal, watermark) ==
  LET drawdown == Drawdown(proposal.equity, watermark)
  IN  IF drawdown >= Policy.drawdownStop /\ AddsNewRisk(proposal)
      THEN {Finding("DRAWDOWN_STOP_NEW_RISK", "DRAWDOWN", "HARD_VIOLATION")}
      ELSE IF drawdown >= Policy.drawdownWarning
           THEN {Finding("DRAWDOWN_WARNING", "DRAWDOWN", "WARNING")} ELSE {}

Findings(proposal, budget, watermark) ==
  ExposureFindings(proposal, budget) \cup InstrumentFindings(proposal)
    \cup IndustryFindings(proposal) \cup TurnoverFindings(proposal)
    \cup DrawdownFindings(proposal, watermark)

(* The outcome of a check follows from its findings; only a pass, with or  *)
(* without warnings, lets the proposal go on.                              *)
StatusOf(findings) ==
  IF \E f \in findings : f.severity = "HARD_VIOLATION" THEN "REJECT"
  ELSE IF findings # {} THEN "WARN" ELSE "PASS"

AllowsExecution(status) == status \in {"PASS", "WARN"}

(* PortfolioRiskContext: the highest equity is at least today's, and the   *)
(* regime's budget is a weight.                                            *)
ValidContext(equity, budget, watermark) ==
  equity > 0 /\ watermark >= equity /\ budget \in 0..Whole

(* _validate_inputs: the proposal, the account and the context are of one  *)
(* snapshot and name the same positions.                                   *)
InputsAlign(account, proposal) ==
  /\ proposal.account = account.id
  /\ proposal.equity = Equity(account) /\ proposal.gross = GrossWeight(account)
  /\ {i \in proposal.lines : account.value[i] > 0} = HeldIn(account)

(* PortfolioRiskEvaluator.check: inputs that do not belong together are a  *)
(* service error, never a pass.                                            *)
RiskStatus(account, proposal, budget, watermark) ==
  IF InputsAlign(account, proposal) /\ ValidContext(Equity(account), budget, watermark)
  THEN StatusOf(Findings(proposal, budget, watermark))
  ELSE "ERROR"
=============================================================================
