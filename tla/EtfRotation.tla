----------------------------- MODULE EtfRotation -----------------------------
(* The ETF rotation of packages/quant_agent/strategies/etf_rotation: from  *)
(* what was known of the universe and of the closes at one instant, and    *)
(* from the stabilized market state of that instant, the complete target   *)
(* weights of the day.                                                     *)
(*                                                                         *)
(* A bar or a universe revision is known from its availability on; a later *)
(* one of the same day, or of the same effective day, replaces it.         *)
(* Weights are in units of 1/WeightUnit, returns in units of 1/Point.      *)
EXTENDS CnMarket, SequencesExt, Decimals

CONSTANTS RotationPolicy, WeightUnit, Point

Regimes == {"UPTREND", "RANGE_STRONG", "DIVERGENT", "DOWNTREND", "BOTTOM_RECOVERY"}

\* ETFRotationConfig.__post_init__
ValidRotationPolicy(p) ==
    /\ p.weights \in [DOMAIN p.weights -> 0 .. 100]
    /\ DOMAIN p.weights # {} /\ DOMAIN p.weights \subseteq Nat \ {0, 1}
    /\ SumWeights(p.weights) = 100
    /\ {p.volatility_window, p.trend_window} \subseteq Nat \ {0, 1}
    /\ {p.annualization, p.frequency, p.top_n, p.volatility_floor} \subseteq Nat \ {0}
    /\ p.minimum_momentum \in Int
    /\ p.maximum_weight \in 1 .. WeightUnit
    /\ p.exposure \in [Regimes -> 0 .. WeightUnit]
    /\ p.force_cash \in BOOLEAN

ASSUME EtfRotationAssumption ==
    /\ {WeightUnit, Point} \subseteq Nat \ {0}
    /\ ValidRotationPolicy(RotationPolicy)

\* required_price_observations
Required == Max({Max(DOMAIN RotationPolicy.weights) + 1,
                 RotationPolicy.volatility_window + 1,
                 RotationPolicy.trend_window})

\* ETFRotationRequest: the session's number decides whether it rebalances
RotationRequest(day, asOf, index, version) ==
    [day |-> day, asOf |-> asOf, index |-> index, version |-> version]

-----------------------------------------------------------------------------
(* What was known at an instant.                                           *)

\* (KnownMutant: rows published later are known too)
KnownMutant(rows, asOf) == rows
Known(rows, asOf) == {r \in rows : r.available <= asOf}

BarKey == {"instrument", "day"}
IntervalKey == {"instrument", "from"}
SameKey(a, b, key) == \A field \in key : a[field] = b[field]

\* the engines take rows in the order they were published, so two rows of one
\* key and one availability meet, also when a later one replaces both
Ambiguous(rows, key) ==
    \E a, b \in rows : a # b /\ SameKey(a, b, key) /\ a.available = b.available
Newest(rows, key) ==
    {a \in rows : \A b \in rows : SameKey(a, b, key) => b.available <= a.available}

-----------------------------------------------------------------------------
(* The universe: the status, on the signal's day, of every instrument a    *)
(* known revision names.                                                   *)

Eligibility(revision, day) ==
    IF day < revision.listed THEN "NOT_LISTED"
    ELSE IF revision.delisted # Absent /\ day > revision.delisted THEN "DELISTED"
    ELSE IF revision.enabled THEN "ELIGIBLE" ELSE "DISABLED"

\* _select_universe
Universe(request, revisions) ==
    LET known  == Known(revisions, request.asOf)
        latest == Newest(known, IntervalKey)
        applicable(i) ==
            {r \in latest : r.instrument = i /\ AppliesOn(r, request.day)}
        members == {r.instrument : r \in latest}
    IN  IF \/ Ambiguous(known, IntervalKey)
           \/ \E r \in known : r.version # request.version
           \/ \E i \in members : Cardinality(applicable(i)) > 1
        THEN Failed
        ELSE [i \in members |->
                IF applicable(i) = {} THEN "NO_EFFECTIVE_REVISION"
                ELSE Eligibility(CHOOSE r \in applicable(i) : TRUE, request.day)]

Eligible(universe) == {i \in DOMAIN universe : universe[i] = "ELIGIBLE"}

-----------------------------------------------------------------------------
(* The closes an instrument is ranked by.                                  *)

\* _select_prices: the bars it refuses
PricesAccepted(request, bars, eligible) ==
    LET known == Known(bars, request.asOf)
    IN  /\ \A b \in known : b.version = request.version /\ b.day <= request.day
        /\ ~Ambiguous({b \in known : b.instrument \in eligible}, BarKey)

\* _select_prices: closes by day
History(request, bars, i) ==
    LET rows == {b \in Newest(Known(bars, request.asOf), BarKey) : b.instrument = i}
    IN  [d \in {b.day : b \in rows} |-> (CHOOSE b \in rows : b.day = d).close]

\* _metrics: the last days of a history that has enough of them and is current
Recent(days) ==
    {d \in days : Cardinality({e \in days : e > d}) < Required}
Rankable(request, days) == request.day \in days /\ Cardinality(days) >= Required
Closes(history) ==
    LET days == SetToSortSeq(Recent(DOMAIN history), LAMBDA d, e : d < e)
    IN  [k \in 1 .. Required |-> history[days[k]]]

-----------------------------------------------------------------------------
(* _calculate_metrics and the ranking.                                     *)

ReturnBetween(now, before) == Fraction(now - before, Point, before)
LastOf(closes, count) == SubSeq(closes, Required - count + 1, Required)
SumSeq(numbers) == FoldLeft(LAMBDA a, b : a + b, 0, numbers)

\* in units of 1/(100 Point)
Momentum(closes) ==
    MapThenSumSet(LAMBDA h : RotationPolicy.weights[h]
                               * ReturnBetween(closes[Required], closes[Required - h]),
                  DOMAIN RotationPolicy.weights)

\* _annualized_volatility
Volatility(closes) ==
    LET window  == RotationPolicy.volatility_window
        taken   == LastOf(closes, window + 1)
        returns == [k \in 1 .. window |-> ReturnBetween(taken[k + 1], taken[k])]
        mean    == Fraction(SumSeq(returns), 1, window)
        squares == [k \in 1 .. window |-> (returns[k] - mean) * (returns[k] - mean)]
    IN  Root(Rounded(SumSeq(squares), window) * RotationPolicy.annualization)

Denominator(closes) == Max({Volatility(closes), RotationPolicy.volatility_floor})
RiskAdjusted(closes) == Fraction(Momentum(closes), Point, Denominator(closes))
AboveTrend(closes) ==
    closes[Required] * RotationPolicy.trend_window
      > SumSeq(LastOf(closes, RotationPolicy.trend_window))
Qualifies(closes) ==
    AboveTrend(closes) /\ Momentum(closes) > RotationPolicy.minimum_momentum * 100

\* the first top_n of the qualifying, by risk-adjusted momentum
TopOf(strength) ==
    LET Ahead(a, b) == strength[a] > strength[b] \/ (strength[a] = strength[b] /\ a < b)
    IN  {i \in DOMAIN strength :
           Cardinality({j \in DOMAIN strength : Ahead(j, i)}) < RotationPolicy.top_n}
Selected(closes) ==
    TopOf([i \in {j \in DOMAIN closes : Qualifies(closes[j])} |-> RiskAdjusted(closes[i])])

\* _allocate: the exposure in inverse proportion to the volatility
Shared(selected, closes, exposure) ==
    LET basis == [i \in selected |-> Rounded(Point * Point, Denominator(closes[i]))]
    IN  IF selected = {} \/ exposure <= 0 THEN [i \in {} |-> 0]
        ELSE CappedAllocation(basis, exposure, RotationPolicy.maximum_weight)
Allocated(closes, exposure) == Shared(Selected(closes), closes, exposure)

-----------------------------------------------------------------------------
(* decide.  The market state regime is of one session and one instant and  *)
(* carries the raw risk budget.                                            *)

\* _validate_regime
RegimeAligned(request, regime) ==
    /\ regime.day = request.day /\ regime.asOf = request.asOf
    /\ regime.version = request.version

Exposure(regime) == Min({RotationPolicy.exposure[regime.final], regime.budget})

Targets(status, universe, weights) ==
    [status |-> status,
     weights |-> [i \in DOMAIN universe |->
                    IF i \in DOMAIN weights THEN weights[i] ELSE 0]]

\* ETFRotationDecision.__post_init__
AcceptedDecision(decision, regime) ==
    LET gross == SumWeights(decision.weights)
    IN  /\ \A i \in DOMAIN decision.weights : decision.weights[i] \in 0 .. WeightUnit
        /\ gross <= Exposure(regime)
        /\ decision.status = "CASH" => gross = 0
        /\ decision.status = "REBALANCE" => gross > 0

Weighted(universe, weights, regime) ==
    LET decision == IF DOMAIN weights = {} THEN Targets("CASH", universe, weights)
                    ELSE Targets("REBALANCE", universe, weights)
    IN  IF AcceptedDecision(decision, regime) THEN decision ELSE Failed
Ranked(request, universe, histories, regime) ==
    LET rankable == {i \in DOMAIN histories : Rankable(request, DOMAIN histories[i])}
        aligned  == \A i, j \in rankable :
                       Recent(DOMAIN histories[i]) = Recent(DOMAIN histories[j])
    IN  IF ~aligned THEN Failed
        ELSE Weighted(universe,
                      Allocated([i \in rankable |-> Closes(histories[i])], Exposure(regime)),
                      regime)
Decided(request, universe, bars, regime) ==
    LET scheduled == request.index % RotationPolicy.frequency = 0
        forced    == RotationPolicy.force_cash /\ regime.final = "DOWNTREND"
    IN  IF universe = Failed THEN Failed
        ELSE IF ~scheduled /\ ~forced
        THEN [status |-> "NO_REBALANCE", weights |-> [i \in {} |-> 0]]
        ELSE IF forced THEN Targets("CASH", universe, [i \in {} |-> 0])
        ELSE IF ~PricesAccepted(request, bars, Eligible(universe)) THEN Failed
        ELSE Ranked(request, universe,
                    [i \in Eligible(universe) |-> History(request, bars, i)], regime)
Decide(request, revisions, bars, regime) ==
    IF ~RegimeAligned(request, regime) THEN Failed
    ELSE Decided(request, Universe(request, revisions), bars, regime)

\* to_weight_signals: the targets as signals for the next session
SignalsOf(request, decision) ==
    {[instrument |-> i, day |-> request.day, asOf |-> request.asOf,
      weight |-> decision.weights[i], version |-> request.version] :
       i \in DOMAIN decision.weights}
=============================================================================
