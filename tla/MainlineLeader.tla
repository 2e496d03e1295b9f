--------------------------- MODULE MainlineLeader ---------------------------
(* The target portfolio of packages/quant_agent/strategies/mainline_leader:*)
(* stocks that qualify today share the exposure the market allows; what no *)
(* longer qualifies is sold at once, what the market no longer allows is   *)
(* scaled down at once, and everything else moves only on rebalance        *)
(* sessions and by no more than the discretionary turnover.                *)
(*                                                                         *)
(* A weight is in units of 1/WeightUnit: Decimal keeps a fixed number of   *)
(* digits and rounds half to even, and WeightUnit stands for them.         *)
EXTENDS StockLeaders, Decimals

CONSTANTS StrategyPolicy, WeightUnit

\* what decide answers when it raises over its own result
Failed == [status |-> "FAILED"]

\* MainlineLeaderConfig.__post_init__
ValidStrategyPolicy(p) ==
    /\ {p.maximum_positions, p.frequency} \subseteq Nat \ {0}
    /\ p.minimum_score \in Percent
    /\ p.maximum_weight \in 1 .. WeightUnit
    /\ p.maximum_turnover \in 0 .. 2 * WeightUnit
    /\ p.crowded_multiplier \in 0 .. Whole
    /\ \A r \in Regimes : p.exposure[r] \in 0 .. WeightUnit
    /\ p.tiers # {} /\ p.tiers \subseteq {"A", "B", "WATCH"}
    /\ p.states # {} /\ p.states \subseteq ActiveStates
    /\ p.types # {} /\ p.types \subseteq {"TREND", "CAPACITY"}
    /\ p.weighting \in {"EQUAL", "RISK_ADJUSTED"}
    /\ p.force_cash \in BOOLEAN

ASSUME MainlineLeaderAssumption ==
    /\ WeightUnit \in Nat /\ WeightUnit % 100 = 0 /\ WeightUnit > 0
    /\ ValidStrategyPolicy(StrategyPolicy)
    /\ Failed \notin {Missing, Refused}

Distance(a, b) == IF a < b THEN b - a ELSE a - b

-----------------------------------------------------------------------------
(* The prior portfolio: session, data version and, per stock, a positive   *)
(* target weight with the industry the stock was bought for.               *)

\* _validate_alignment
StrategyAligned(session, version, pool, prior) ==
    /\ pool.session = session /\ pool.version = version
    /\ prior.session <= session
    /\ prior.version = version
    /\ \A s \in DOMAIN prior.positions :
          prior.positions[s].weight <= StrategyPolicy.maximum_weight

\* decide: the exposure cap, and when all stocks must go
ExposureCap(outcome) ==
    Min({StrategyPolicy.exposure[outcome.final],
         (outcome.raw.budget * WeightUnit) \div 100})
MarketRiskOff(outcome) ==
    \/ StrategyPolicy.force_cash /\ outcome.final = "DOWNTREND"
    \/ ExposureCap(outcome) = 0

Universe(pool, prior) == DOMAIN pool.candidates \cup DOMAIN prior.positions
PriorWeight(prior, s) ==
    IF s \in DOMAIN prior.positions THEN prior.positions[s].weight ELSE 0
IndustryOf(pool, prior, s) ==
    IF s \in DOMAIN pool.candidates THEN pool.candidates[s].industry
    ELSE prior.positions[s].industry

\* decide: nothing speaks against holding the stock today
Qualified(pool, s) ==
    /\ ~MarketRiskOff(pool.outcome)
    /\ s \in DOMAIN pool.candidates
    /\ LET candidate == pool.candidates[s]
           leader    == pool.ranking.leaders[s]
       IN  /\ candidate.tier \in StrategyPolicy.tiers
           /\ candidate.score >= StrategyPolicy.minimum_score * CandidatePoint
           /\ leader.eligible
           /\ leader.type \in StrategyPolicy.types
           /\ candidate.industry \in DOMAIN pool.mainline.industries
           /\ pool.mainline.industries[candidate.industry].state
                 \in StrategyPolicy.states

\* the first maximum_positions of the qualified, by eligible rank
Selected(pool) ==
    LET qualified == {s \in DOMAIN pool.candidates : Qualified(pool, s)}
        ahead(s)  == {t \in qualified :
                        pool.candidates[t].rank < pool.candidates[s].rank}
    IN  {s \in qualified : Cardinality(ahead(s)) < StrategyPolicy.maximum_positions}

\* _allocate: what a stock's share of the exposure is measured by
Basis(pool, s) ==
    IF StrategyPolicy.weighting = "EQUAL" THEN 1
    ELSE pool.candidates[s].score
           * (100 * CandidatePoint - pool.candidates[s].penalty)

\* _allocate, over the whole universe
Allotted(pool, prior, selected, shares) ==
    LET crowded == {s \in selected :
                      pool.mainline.industries[pool.candidates[s].industry].state
                         = "CROWDED"}
    IN  [s \in Universe(pool, prior) |->
            IF s \notin selected \/ ExposureCap(pool.outcome) <= 0 THEN 0
            ELSE IF s \in crowded
            THEN Rounded(shares[s] * StrategyPolicy.crowded_multiplier, Whole)
            ELSE shares[s]]
Desired(pool, prior) ==
    Allotted(pool, prior, Selected(pool),
             CappedAllocation([s \in Selected(pool) |-> Basis(pool, s)],
                              ExposureCap(pool.outcome), StrategyPolicy.maximum_weight))

\* decide: the prior weights after the forced exits and the scaling to the cap
\* (ForcedMutant: exits are forced by the market only)
ForcedMutant(pool, prior) ==
    {s \in DOMAIN prior.positions : MarketRiskOff(pool.outcome)}
Forced(pool, prior) == {s \in DOMAIN prior.positions : ~Qualified(pool, s)}

Kept(pool, prior) ==
    [s \in Universe(pool, prior) |->
        IF s \in Forced(pool, prior) THEN 0 ELSE PriorWeight(prior, s)]
Scaled(kept, cap) == SumWeights(kept) > cap
Base(pool, prior) ==
    LET kept == Kept(pool, prior)
        cap  == ExposureCap(pool.outcome)
    IN  IF ~Scaled(kept, cap) THEN kept
        ELSE [s \in DOMAIN kept |-> Fraction(kept[s], cap, SumWeights(kept))]

\* decide: moves from the base towards the desired weights
Scheduled(day) == day % StrategyPolicy.frequency = 0
Interpolated(base, desired) ==
    LET raw == MapThenSumSet(LAMBDA s : Distance(desired[s], base[s]), DOMAIN base)
    IN  IF raw <= StrategyPolicy.maximum_turnover THEN desired
        ELSE [s \in DOMAIN base |->
                base[s] + Fraction(desired[s] - base[s],
                                   StrategyPolicy.maximum_turnover, raw)]
Target(day, pool, prior) ==
    IF Scheduled(day) /\ ~MarketRiskOff(pool.outcome)
    THEN Interpolated(Base(pool, prior), Desired(pool, prior))
    ELSE Base(pool, prior)

\* decide: forced exits and reductions to the cap are not discretionary
\* (ExemptMutant: a reduction to the cap counts against the turnover)
ExemptMutant(pool, prior, target) == Forced(pool, prior)
Exempt(pool, prior, target) ==
    Forced(pool, prior)
      \cup {s \in DOMAIN target :
              /\ Scaled(Kept(pool, prior), ExposureCap(pool.outcome))
              /\ Kept(pool, prior)[s] > 0
              /\ target[s] < PriorWeight(prior, s)}
Turnover(prior, target, stocks) ==
    MapThenSumSet(LAMBDA s : Distance(target[s], PriorWeight(prior, s)), stocks)
Discretionary(pool, prior, target) ==
    Turnover(prior, target, DOMAIN target \ Exempt(pool, prior, target))

\* MainlineLeaderSelection.__post_init__: no weight is short, none above one
LongOnly(weights) == \A s \in DOMAIN weights : weights[s] \in 0 .. WeightUnit

\* the assertion in decide, and MainlineLeaderDecision.__post_init__
AcceptedTarget(pool, prior, target) ==
    /\ LongOnly(Desired(pool, prior)) /\ LongOnly(target)
    /\ Discretionary(pool, prior, target) <= StrategyPolicy.maximum_turnover
    /\ SumWeights(target) <= ExposureCap(pool.outcome)

\* decide: a decision, Refused for misaligned inputs, Failed for its own result
Judged(pool, prior, target) ==
    IF ~AcceptedTarget(pool, prior, target) THEN Failed
    ELSE [status |->
            IF SumWeights(target) = 0 THEN "CASH"
            ELSE IF Turnover(prior, target, DOMAIN target) = 0 THEN "HOLD"
            ELSE "REBALANCE",
          target |-> target]
Decide(session, day, version, pool, prior) ==
    IF ~StrategyAligned(session, version, pool, prior) THEN Refused
    ELSE Judged(pool, prior, Target(day, pool, prior))

\* the portfolio the next session starts from: the positive targets
Portfolio(session, version, pool, prior, target) ==
    [session |-> session, version |-> version,
     positions |-> [s \in {t \in DOMAIN target : target[t] > 0} |->
                       [weight |-> target[s],
                        industry |-> IndustryOf(pool, prior, s)]]]
=============================================================================
