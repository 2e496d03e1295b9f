---------------------------- MODULE StockLeaders ----------------------------
(* The cross-sectional ranking of packages/quant_agent/leaders: which      *)
(* stocks lead an industry that is CONFIRMED or CROWDED today, of which    *)
(* type, with which score and penalty, and whether they may be traded.     *)
(*                                                                         *)
(* A component score is in units of 1/MainlinePoint of a point, a weighted *)
(* score in units of 1/LeaderPoint.                                        *)
EXTENDS MainlineStates

CONSTANT LeaderPolicy

LeaderComponents == {"within_theme", "trend", "liquidity", "theme_leadership",
                     "downside", "logic", "fundamental"}
ActiveStates == {"CONFIRMED", "CROWDED"}

\* LeaderConfig.__post_init__
ValidLeaderPolicy(p) ==
    /\ \A c \in LeaderComponents : p.weights[c] \in Nat
    /\ MapThenSumSet(LAMBDA c : p.weights[c], LeaderComponents) = Whole
    /\ {p.liquidity_percentile, p.theme_return_rank, p.downside_relative}
          \subseteq 0 .. Whole
    /\ {p.capacity_liquidity_min, p.capacity_leadership_min,
        p.capacity_trend_min, p.trend_quality_min, p.trend_within_min,
        p.trend_downside_min, p.elasticity_min, p.minimum_score,
        p.maximum_penalty} \subseteq Percent
    /\ {p.capacity_full, p.pullback_tolerance} \subseteq Nat \ {0}
    /\ p.degraded_penalty \in Nat
    /\ p.crowded_rate \in 0 .. Whole
    /\ p.risk_multiplier \in Nat

ASSUME StockLeadersAssumption == ValidLeaderPolicy(LeaderPolicy)

LeaderPoint == MainlinePoint * Whole
Points(n) == n * MainlinePoint

\* _clamp and _signed_score, in points of 0..100
InPoints(value) == Max({0, Min({100, value})})
HalfPoints(signed) == Max({0, Min({200, signed + 100})})
Signed(score) ==
    IF score = Missing THEN 0 ELSE (MainlinePoint * HalfPoints(score)) \div 2

\* a component of two parts, the first with a weight out of Whole
Blend(first, weight, second) == (first * weight + second * (Whole - weight)) \div Whole

-----------------------------------------------------------------------------
(* The day's features: one record per stock with its industry, strength    *)
(* (status, shortest return, relative scores, trend, pullback, volume),    *)
(* tradeability (eligible, blocking, percentile, capacity) and fundamental *)
(* quality, all of one session and data version.                           *)

\* _validate_alignment
FeaturesAlign(mainline, features) ==
    /\ features.session = mainline.session
    /\ features.version = mainline.version

\* rank: the stocks with a usable strength in an active industry
Leading(mainline, features) ==
    {s \in DOMAIN features.stocks :
        /\ features.stocks[s].status \in {"READY", "DEGRADED"}
        /\ features.stocks[s].industry \in DOMAIN mainline.industries
        /\ mainline.industries[features.stocks[s].industry].state \in ActiveStates}

\* _theme_return_rank_scores: the average percentile among the leaders of a theme
ThemePeers(stocks, leading, s) ==
    {t \in leading : stocks[t].industry = stocks[s].industry} \ {s}
ThemeReturnRank(stocks, leading, s) ==
    LET peers == ThemePeers(stocks, leading, s)
        below == {t \in peers : stocks[t].return < stocks[s].return}
        equal == {t \in peers : stocks[t].return = stocks[s].return}
    IN  IF peers = {} THEN 0
        ELSE (50 * (2 * Cardinality(below) + Cardinality(equal)))
                \div Cardinality(peers)

\* _score: the seven components
LeaderComponent(mainline, stocks, leading, s) ==
    LET f == stocks[s]
        p == LeaderPolicy
    IN  [within_theme     |-> Signed(f.industry_relative),
         trend            |-> Signed(f.trend),
         liquidity        |->
            Blend(Points(IF f.percentile = Missing THEN 0 ELSE f.percentile),
                  p.liquidity_percentile,
                  Points(InPoints((100 * f.capacity) \div p.capacity_full))),
         theme_leadership |->
            Blend(Points(ThemeReturnRank(stocks, leading, s)),
                  p.theme_return_rank, Signed(f.volume)),
         downside         |->
            Blend(Signed(f.benchmark_relative), p.downside_relative,
                  Points(InPoints(100 - (100 * (IF f.trend = Missing THEN 100
                                                ELSE f.pullback))
                                           \div p.pullback_tolerance))),
         logic            |-> mainline.industries[f.industry].score,
         fundamental      |-> Points(f.quality)]

LeaderGross(component) ==
    MapThenSumSet(LAMBDA c : component[c] * LeaderPolicy.weights[c],
                  LeaderComponents)

\* _risks: the penalties, taken in order until the maximum is used up
LeaderPenalty(mainline, f) ==
    LET industry == mainline.industries[f.industry]
        fundamental == f.penalty * LeaderPolicy.risk_multiplier * LeaderPoint
        crowding == IF industry.state = "CROWDED"
                    THEN (100 * industry.crowding * LeaderPolicy.crowded_rate
                             * MainlinePoint) \div 3
                    ELSE 0
        degraded == IF f.status = "DEGRADED"
                    THEN LeaderPolicy.degraded_penalty * LeaderPoint ELSE 0
    IN  Min({LeaderPolicy.maximum_penalty * LeaderPoint,
             fundamental + crowding + degraded})

\* _classify
LeaderType(c) ==
    LET p == LeaderPolicy
    IN  IF /\ c.liquidity >= Points(p.capacity_liquidity_min)
           /\ c.theme_leadership >= Points(p.capacity_leadership_min)
           /\ c.trend >= Points(p.capacity_trend_min)          THEN "CAPACITY"
        ELSE IF /\ c.trend >= Points(p.trend_quality_min)
                /\ c.within_theme >= Points(p.trend_within_min)
                /\ c.downside >= Points(p.trend_downside_min)  THEN "TREND"
        ELSE IF Max({c.within_theme, c.theme_leadership})
                   >= Points(p.elasticity_min)                 THEN "ELASTICITY"
        ELSE "OBSERVATION"

\* _ineligibility_reasons: none of them applies
Tradeable(f, type, score) ==
    /\ f.eligible /\ ~f.blocked
    /\ type \in {"TREND", "CAPACITY"}
    /\ score >= LeaderPolicy.minimum_score * LeaderPoint

\* LeaderResult
Leader(mainline, stocks, leading, s) ==
    LET f         == stocks[s]
        component == LeaderComponent(mainline, stocks, leading, s)
        gross     == LeaderGross(component)
        penalty   == LeaderPenalty(mainline, f)
        score     == Max({0, gross - penalty})
    IN  [industry |-> f.industry, type |-> LeaderType(component),
         gross |-> gross, penalty |-> penalty, score |-> score,
         eligible |-> Tradeable(f, LeaderType(component), score)]

\* rank
RankLeaders(mainline, features) ==
    IF ~FeaturesAlign(mainline, features) THEN Refused
    ELSE LET leading == Leading(mainline, features)
         IN  [session |-> mainline.session, version |-> mainline.version,
              mainline |-> mainline,
              leaders |-> [s \in leading |->
                              Leader(mainline, features.stocks, leading, s)]]

-----------------------------------------------------------------------------
(* The candidate pool of packages/quant_agent/leaders/candidates: every    *)
(* ranked leader gets a score from the market state, its industry, its     *)
(* leadership and its own features, a penalty, and a tier, or is EXCLUDED  *)
(* by a hard filter.  A score is in units of 1/CandidatePoint of a point.  *)
CONSTANT CandidatePolicy

CandidateComponents == {"regime", "theme", "leader", "trend", "volume",
                        "fundamental_or_event", "valuation"}

\* CandidateConfig.__post_init__
ValidCandidatePolicy(p) ==
    /\ \A c \in CandidateComponents : p.weights[c] \in Nat
    /\ MapThenSumSet(LAMBDA c : p.weights[c], CandidateComponents) = Whole
    /\ \A r \in Regimes : p.regime_scores[r] \in Percent
    /\ 0 <= p.tier_b_min /\ p.tier_b_min < p.tier_a_min /\ p.tier_a_min <= 100
    /\ p.maximum_penalty \in Percent
    /\ p.allow_downtrend \in BOOLEAN

ASSUME StockCandidatesAssumption == ValidCandidatePolicy(CandidatePolicy)

CandidatePoint == LeaderPoint * Whole

(* An event or valuation signal is Missing or a score and a penalty, both  *)
(* in points, published for the session the candidates are ranked in.      *)

\* _validate_top_level and _validate_candidate_alignment: the snapshots bind
\* the same session and each other
CandidatesAlign(outcome, mainline, ranking, features) ==
    /\ outcome.session = mainline.session
    /\ outcome.version = mainline.version
    /\ mainline.outcome = outcome
    /\ ranking.mainline = mainline
    /\ FeaturesAlign(mainline, features)
    /\ DOMAIN ranking.leaders \subseteq DOMAIN features.stocks

SignalScore(signal) == IF signal = Missing THEN 0 ELSE signal.score
SignalPenalty(signal) == IF signal = Missing THEN 0 ELSE signal.penalty

\* _score: the seven components, in units of 1/LeaderPoint
CandidateComponent(outcome, mainline, leader, f) ==
    [regime   |-> CandidatePolicy.regime_scores[outcome.final] * LeaderPoint,
     theme    |-> mainline.industries[leader.industry].score * Whole,
     leader   |-> leader.gross,
     trend    |-> Signed(f.trend) * Whole,
     volume   |-> Signed(f.volume) * Whole,
     fundamental_or_event |->
        LeaderPoint * Max({f.adjusted_quality, SignalScore(f.event)}),
     valuation |-> LeaderPoint * SignalScore(f.valuation)]

CandidateGross(component) ==
    MapThenSumSet(LAMBDA c : component[c] * CandidatePolicy.weights[c],
                  CandidateComponents)

\* _risks
CandidatePenalty(leader, f) ==
    Min({CandidatePolicy.maximum_penalty * CandidatePoint,
         leader.penalty * Whole
           + (SignalPenalty(f.event) + SignalPenalty(f.valuation)) * CandidatePoint})

\* _hard_filters: neither the leader's own filter nor the market excludes it
Unfiltered(outcome, leader) ==
    /\ leader.eligible
    /\ outcome.final # "DOWNTREND" \/ CandidatePolicy.allow_downtrend

Tier(unfiltered, score) ==
    IF ~unfiltered THEN "EXCLUDED"
    ELSE IF score >= CandidatePolicy.tier_a_min * CandidatePoint THEN "A"
    ELSE IF score >= CandidatePolicy.tier_b_min * CandidatePoint THEN "B"
    ELSE "WATCH"

Scored(outcome, mainline, leader, f) ==
    LET gross   == CandidateGross(CandidateComponent(outcome, mainline, leader, f))
        penalty == CandidatePenalty(leader, f)
        score   == Max({0, gross - penalty})
    IN  [industry |-> leader.industry, score |-> score, penalty |-> penalty,
         tier |-> Tier(Unfiltered(outcome, leader), score)]

\* _assign_ranks: by descending score, then by identifier (stocks are numbers,
\* ordered as their identifiers are)
Precedes(pool, s, t) ==
    \/ pool[s].score > pool[t].score
    \/ pool[s].score = pool[t].score /\ s < t
EligibleRank(pool, s) ==
    IF pool[s].tier = "EXCLUDED" THEN Missing
    ELSE 1 + Cardinality({t \in DOMAIN pool :
                             pool[t].tier # "EXCLUDED" /\ Precedes(pool, t, s)})

\* rank
RankCandidates(outcome, mainline, ranking, features) ==
    IF ~CandidatesAlign(outcome, mainline, ranking, features) THEN Refused
    ELSE LET pool == [s \in DOMAIN ranking.leaders |->
                        Scored(outcome, mainline, ranking.leaders[s],
                               features.stocks[s])]
         IN  [outcome |-> outcome, mainline |-> mainline, ranking |-> ranking,
              session |-> mainline.session, version |-> mainline.version,
              candidates |-> [s \in DOMAIN pool |->
                  [industry |-> pool[s].industry, score |-> pool[s].score,
                   penalty |-> pool[s].penalty, tier |-> pool[s].tier,
                   rank |-> EligibleRank(pool, s)]]]
=============================================================================
