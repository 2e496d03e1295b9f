---------------------------- MODULE MarketRegime ----------------------------
(* The rule-based market classifier of packages/quant_agent/regime:        *)
(* classifier.py turns one aligned pair of trend and breadth snapshots     *)
(* into one of five market states with a score, the rules that support     *)
(* it and a risk budget, or refuses the pair.                              *)
(*                                                                         *)
(* Ratios and rule weights are in percent, trend scores in -100..100.      *)
(* Component scores are in half points (0..200), so that the averages the  *)
(* code takes stay whole; the weighted total is in 1/200 of a point.       *)
EXTENDS Integers, FiniteSets, FiniteSetsExt

CONSTANTS RegimePolicy, Missing, Refused

Regimes == {"UPTREND", "RANGE_STRONG", "DIVERGENT", "DOWNTREND",
            "BOTTOM_RECOVERY"}
Components == {"trend", "breadth", "turnover", "new_high_low",
               "downside_risk"}
CriticalCounts == {"returns", "averages", "high_low", "turnover", "downside"}
Metrics == {"advance_decline", "above_average", "new_high", "new_low",
            "turnover_percentile", "downside_volatility"}
Rules == 1 .. 5

Clamp(value) == IF value < 0 THEN 0 ELSE IF value > 200 THEN 200 ELSE value

Percent == 0 .. 100

\* RegimeClassifierConfig.__post_init__
ValidRegimePolicy(p) ==
    /\ \A c \in Components : p.weights[c] \in Nat
    /\ MapThenSumSet(LAMBDA c : p.weights[c], Components) = 100
    /\ 0 <= p.divergent_min /\ p.divergent_min < p.range_strong_min
    /\ p.range_strong_min < p.uptrend_min /\ p.uptrend_min <= 100
    /\ {p.neutral, p.minimum_coverage, p.divergence_above_average_max,
        p.bottom_advance_decline_min, p.bottom_above_average_min,
        p.bottom_new_low_max} \subseteq Percent
    /\ p.divergence_spread_max \in -100 .. 100
    /\ p.volatility_ceiling > 0
    /\ \A k \in CriticalCounts : p.minimum_counts[k] >= 1
    /\ p.divergence_weak_signals \in 1 .. 2
    /\ p.bottom_short_window >= 2
    /\ p.bottom_long_window > p.bottom_short_window
    /\ p.bottom_signals \in Rules
    /\ {p.divergence_trend_min, p.bottom_long_max, p.bottom_short_min}
          \subseteq -100 .. 100
    /\ \A r \in Regimes :
          /\ p.budgets[r] \in Percent
          /\ \A k \in Rules : p.evidence[r][k] > 0
          /\ MapThenSumSet(LAMBDA k : p.evidence[r][k], Rules) = 100

ASSUME MarketRegimeAssumption ==
    /\ ValidRegimePolicy(RegimePolicy)
    /\ Missing \notin Regimes \cup {Refused}

-----------------------------------------------------------------------------
(* A trend snapshot carries the instant, session and data version it was   *)
(* computed for, its aggregate score and, per window, the scores of the    *)
(* indices that have it; a breadth snapshot carries the same identity, its *)
(* coverages, counts and metrics.                                          *)

\* _validate_inputs
Aligned(trend, breadth) ==
    /\ trend.session = breadth.session
    /\ trend.version = breadth.version
SafeBreadth(breadth) ==
    /\ breadth.coverage >= RegimePolicy.minimum_coverage
    /\ breadth.historical_coverage >= RegimePolicy.minimum_coverage
    /\ \A k \in CriticalCounts :
          breadth.counts[k] >= RegimePolicy.minimum_counts[k]

\* _critical_breadth_metrics
CompleteBreadth(breadth) == \A m \in Metrics : breadth.metrics[m] # Missing

\* _component_scores
ComponentScore(trend, b) ==
    [trend         |-> Clamp(trend.aggregate + 100),
     breadth       |-> Clamp(b.advance_decline + b.above_average),
     turnover      |-> Clamp(2 * b.turnover_percentile),
     new_high_low  |-> Clamp(100 + b.new_high - b.new_low),
     downside_risk |->
        Clamp((200 * (RegimePolicy.volatility_ceiling - b.downside_volatility))
                 \div RegimePolicy.volatility_ceiling)]

\* RegimeComponentScores.total
Total(score) ==
    MapThenSumSet(LAMBDA c : score[c] * RegimePolicy.weights[c], Components)
AtLeast(total, points) == total >= 200 * points

\* _window_score: the average over the indices, or nothing
ScoresOf(trend, window) ==
    IF window \in DOMAIN trend.windows THEN trend.windows[window] ELSE << >>
SumOf(scores) == MapThenSumSet(LAMBDA k : scores[k], DOMAIN scores)
WindowAtMost(trend, window, bound) ==
    LET scores == ScoresOf(trend, window)
    IN  scores # << >> /\ SumOf(scores) <= bound * Cardinality(DOMAIN scores)
WindowAtLeast(trend, window, bound) ==
    LET scores == ScoresOf(trend, window)
    IN  scores # << >> /\ SumOf(scores) >= bound * Cardinality(DOMAIN scores)

\* _bottom_checks
BottomChecks(trend, b) ==
    << WindowAtMost(trend, RegimePolicy.bottom_long_window,
                    RegimePolicy.bottom_long_max),
       WindowAtLeast(trend, RegimePolicy.bottom_short_window,
                     RegimePolicy.bottom_short_min),
       b.advance_decline >= RegimePolicy.bottom_advance_decline_min,
       b.above_average >= RegimePolicy.bottom_above_average_min,
       b.new_low <= RegimePolicy.bottom_new_low_max >>

Holding(checks) == {k \in DOMAIN checks : checks[k]}

\* _select_regime
SelectRegime(trend, b, total) ==
    LET weak == << b.above_average <= RegimePolicy.divergence_above_average_max,
                   b.new_high - b.new_low <= RegimePolicy.divergence_spread_max >>
        diverges == /\ AtLeast(total, RegimePolicy.divergent_min)
                    /\ trend.aggregate >= RegimePolicy.divergence_trend_min
                    /\ Cardinality(Holding(weak))
                          >= RegimePolicy.divergence_weak_signals
    IN  IF Cardinality(Holding(BottomChecks(trend, b)))
              >= RegimePolicy.bottom_signals             THEN "BOTTOM_RECOVERY"
        ELSE IF diverges                                 THEN "DIVERGENT"
        ELSE IF AtLeast(total, RegimePolicy.uptrend_min) THEN "UPTREND"
        ELSE IF AtLeast(total, RegimePolicy.range_strong_min)
                                                         THEN "RANGE_STRONG"
        ELSE IF AtLeast(total, RegimePolicy.divergent_min)
                                                         THEN "DIVERGENT"
        ELSE "DOWNTREND"

\* _evidence_rules, one branch per state: which of its five rules hold
Neutral(half_points) == half_points >= 2 * RegimePolicy.neutral

UptrendRules(score, total) ==
    << AtLeast(total, RegimePolicy.uptrend_min), Neutral(score.trend),
       Neutral(score.breadth), Neutral(score.new_high_low),
       Neutral(score.downside_risk) >>
RangeStrongRules(score, total) ==
    << /\ AtLeast(total, RegimePolicy.range_strong_min)
       /\ ~AtLeast(total, RegimePolicy.uptrend_min),
       Neutral(score.trend), Neutral(score.breadth), Neutral(score.turnover),
       Neutral(score.downside_risk) >>
DivergentRules(trend, b, score, total) ==
    << AtLeast(total, RegimePolicy.divergent_min),
       trend.aggregate >= RegimePolicy.divergence_trend_min,
       b.above_average <= RegimePolicy.divergence_above_average_max,
       b.new_high - b.new_low <= RegimePolicy.divergence_spread_max,
       ~Neutral(score.downside_risk) >>
DowntrendRules(score, total) ==
    << ~AtLeast(total, RegimePolicy.divergent_min), ~Neutral(score.trend),
       ~Neutral(score.breadth), ~Neutral(score.new_high_low),
       ~Neutral(score.downside_risk) >>

EvidenceRules(regime, trend, b, score, total) ==
    CASE regime = "UPTREND"         -> UptrendRules(score, total)
      [] regime = "RANGE_STRONG"    -> RangeStrongRules(score, total)
      [] regime = "DIVERGENT"       -> DivergentRules(trend, b, score, total)
      [] regime = "DOWNTREND"       -> DowntrendRules(score, total)
      [] regime = "BOTTOM_RECOVERY" -> BottomChecks(trend, b)

\* the share of the rule weight that supports the state
Confidence(regime, supporting) ==
    MapThenSumSet(LAMBDA k : RegimePolicy.evidence[regime][k], supporting)

\* MarketRegimeResult.__post_init__
AcceptedResult(result) == result.supporting # {} /\ result.confidence \in Percent

\* classify: the result, or Refused when the pair is unsafe
Classify(trend, breadth) ==
    IF ~(/\ Aligned(trend, breadth)
         /\ SafeBreadth(breadth)
         /\ CompleteBreadth(breadth))
    THEN Refused
    ELSE LET b          == breadth.metrics
             score      == ComponentScore(trend, b)
             total      == Total(score)
             regime     == SelectRegime(trend, b, total)
             supporting == Holding(EvidenceRules(regime, trend, b, score, total))
             result     == [session    |-> breadth.session,
                            version    |-> trend.version,
                            regime     |-> regime,
                            score      |-> total,
                            confidence |-> Confidence(regime, supporting),
                            supporting |-> supporting,
                            budget     |-> RegimePolicy.budgets[regime]]
         IN  IF AcceptedResult(result) THEN result ELSE Refused

-----------------------------------------------------------------------------
(* The hysteresis over raw market states of regime/transitions.py: an      *)
(* engine that is given one classification per session, in order, and      *)
(* changes the effective state only after enough consecutive sessions      *)
(* named the same new one with enough confidence.                          *)
(*                                                                         *)
(* An engine is a value: Process answers with the next engine and the      *)
(* session's outcome, or Refused, which leaves the engine as it was.       *)
CONSTANT TransitionPolicy

\* RegimeTransitionConfig.__post_init__
ValidTransitionPolicy(p) ==
    /\ {p.confirmation, p.bottom_confirmation, p.severe_confirmation}
          \subseteq Nat \ {0}
    /\ p.severe_confirmation <= p.confirmation
    /\ {p.minimum_confidence, p.severe_confidence, p.severe_score_max}
          \subseteq Percent
    /\ p.severe_confidence >= p.minimum_confidence
    /\ p.severe_enabled \in BOOLEAN

ASSUME RegimeTransitionsAssumption == ValidTransitionPolicy(TransitionPolicy)

\* RegimeTransitionEngine.__init__
NewTransitionEngine ==
    [last |-> 0, version |-> Missing, current |-> Missing,
     candidate |-> Missing, count |-> 0, required |-> Missing]

\* _validate_next
NextInSequence(engine, result) ==
    /\ result.session > engine.last
    /\ engine.version \in {Missing, result.version}

\* _is_severe_downtrend
SevereDowntrend(result) ==
    /\ TransitionPolicy.severe_enabled
    /\ result.regime = "DOWNTREND"
    /\ result.score <= 200 * TransitionPolicy.severe_score_max
    /\ result.confidence >= TransitionPolicy.severe_confidence

\* _required_sessions
RequiredSessions(result) ==
    CASE SevereDowntrend(result) -> TransitionPolicy.severe_confirmation
      [] ~SevereDowntrend(result) /\ result.regime = "BOTTOM_RECOVERY" ->
            TransitionPolicy.bottom_confirmation
      [] OTHER -> TransitionPolicy.confirmation

Settled(regime, action) ==
    [final |-> regime, candidate |-> Missing, count |-> 0, required |-> Missing,
     action |-> action]

\* the last branch of process: a confident result that names another state
\* (CountedMutant: a candidate that another one interrupted keeps its count)
CountedMutant(engine, result) == engine.count + 1
Counted(engine, result) ==
    IF engine.candidate = result.regime THEN engine.count + 1 ELSE 1

AdvancedTo(engine, result) ==
    LET count    == Counted(engine, result)
        required == RequiredSessions(result)
    IN  IF count >= required
        THEN Settled(result.regime, "TRANSITION_CONFIRMED")
        ELSE [final |-> engine.current, candidate |-> result.regime,
              count |-> count, required |-> required,
              action |-> IF engine.candidate = result.regime
                         THEN "CANDIDATE_ADVANCED" ELSE "CANDIDATE_STARTED"]

Decision(engine, result) ==
    CASE engine.current = Missing -> Settled(result.regime, "INITIALIZED")
      [] engine.current = result.regime ->
            Settled(engine.current, IF engine.candidate = Missing
                                    THEN "STABLE" ELSE "CANDIDATE_CANCELLED")
      [] OTHER ->
            IF result.confidence < TransitionPolicy.minimum_confidence
            THEN Settled(engine.current, "CANDIDATE_REJECTED")
            ELSE AdvancedTo(engine, result)

\* RegimeTransitionResult.__post_init__
AcceptedDecision(d) ==
    IF d.candidate = Missing THEN d.count = 0 /\ d.required = Missing
    ELSE d.count >= 1 /\ d.count < d.required

\* RegimeTransitionResult: what the consumers of a session read
Stabilized(result, d) ==
    [session |-> result.session, version |-> result.version, raw |-> result,
     final |-> d.final, action |-> d.action]

\* process
Process(engine, result) ==
    LET d == Decision(engine, result)
    IN  IF ~NextInSequence(engine, result) \/ ~AcceptedDecision(d) THEN Refused
        ELSE [engine  |-> [last |-> result.session, version |-> result.version,
                           current |-> d.final, candidate |-> d.candidate,
                           count |-> d.count, required |-> d.required],
              outcome |-> Stabilized(result, d)]
=============================================================================
