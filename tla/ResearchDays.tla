---------------------------- MODULE ResearchDays ----------------------------
(* The research pipeline over consecutive sessions: the market state is    *)
(* classified and stabilized, the industries' lifecycle is advanced, the   *)
(* leaders and candidates of the session are ranked, and the strategy      *)
(* turns them and the portfolio it holds into the next portfolio.  Two     *)
(* engines remember earlier sessions; everything else is handed from step  *)
(* to step, and a step refuses what is not of its own session.             *)
EXTENDS MainlineLeader

CONSTANTS Version,        \* the data version of the whole series
          LastSession,    \* bound: the number of sessions
          Markets,        \* trend and breadth pairs a session may show
          IndustryTables, \* rows of ranked industries a session may show
          CrossSections,  \* stock features a session may show
          Opening         \* the positions held before the first session

VARIABLES session,    \* the session the inputs are of
          regimes,    \* the RegimeTransitionEngine
          outcome,    \* the latest stabilized market state
          mainlines,  \* the MainlineEngine
          mainline,   \* the session's snapshot of tracked industries
          features,   \* the features the candidates were ranked from
          pool,       \* the session's candidates
          portfolio,  \* the portfolio held
          answer,     \* what the strategy answered this session
          streak,     \* history: the state named by the latest confident
                      \* classifications in a row, and by how many of them
          leading     \* history: the Top-K industries of the latest sessions
                      \* the mainline engine took

\* what the contracts of the feature snapshots and signals allow of a stock
ValidFeatures(f) ==
    /\ {f.industry_relative, f.benchmark_relative, f.trend, f.volume}
          \subseteq -100 .. 100 \cup {Missing}
    /\ f.percentile \in Percent \cup {Missing}
    /\ f.trend # Missing => f.pullback \in Nat
    /\ f.capacity \in Nat
    /\ {f.quality, f.adjusted_quality, f.penalty} \subseteq Percent
    /\ \A signal \in {f.event, f.valuation} \ {Missing} :
          {signal.score, signal.penalty} \subseteq Percent

ASSUME ResearchDaysAssumption ==
    /\ \A rows \in IndustryTables :
          /\ IsFiniteSet(DOMAIN rows)
          /\ \A id \in ReadyRows(rows) : rows[id].strength \in Int
    /\ \A stocks \in CrossSections :
          /\ IsFiniteSet(DOMAIN stocks) /\ DOMAIN stocks \subseteq Nat
          /\ \A s \in DOMAIN stocks : ValidFeatures(stocks[s])
    /\ IsFiniteSet(DOMAIN Opening) /\ DOMAIN Opening \subseteq Nat
    /\ \A s \in DOMAIN Opening : Opening[s].weight \in 1 .. WeightUnit

engines == << regimes, mainlines >>
researchVars == << session, regimes, outcome, mainlines, mainline, features,
                   pool, portfolio, answer, streak, leading >>

\* the history needs no more than the longest memory of an engine
Memory == MainlinePolicy.window + MainlinePolicy.retention
LongestStreak == Max({TransitionPolicy.confirmation,
                      TransitionPolicy.bottom_confirmation})

ResearchInit ==
    /\ session = 1
    /\ regimes = NewTransitionEngine
    /\ mainlines = NewMainlineEngine
    /\ portfolio = [session |-> 0, version |-> Version, positions |-> Opening]
    /\ outcome = Missing /\ mainline = Missing /\ features = Missing
    /\ pool = Missing /\ answer = Missing
    /\ streak = [regime |-> Missing, length |-> 0]
    /\ leading = << >>

Lengthened(result) ==
    IF result.confidence < TransitionPolicy.minimum_confidence
    THEN [regime |-> Missing, length |-> 0]
    ELSE [regime |-> result.regime,
          length |-> IF streak.regime = result.regime
                     THEN Min({streak.length + 1, LongestStreak}) ELSE 1]

\* MarketRegimeClassifier.classify, then RegimeTransitionEngine.process: a pair
\* of snapshots that is refused leaves the session without a market state
ClassifyMarket(market) ==
    LET trend   == [session |-> session, version |-> Version,
                    aggregate |-> market.trend.aggregate,
                    windows |-> market.trend.windows]
        breadth == [session |-> session, version |-> Version,
                    coverage |-> market.breadth.coverage,
                    historical_coverage |-> market.breadth.historical_coverage,
                    counts |-> market.breadth.counts,
                    metrics |-> market.breadth.metrics]
    IN  /\ \E result \in {Classify(trend, breadth)} \ {Refused} :
             \E taken \in {Process(regimes, result)} \ {Refused} :
               /\ regimes' = taken.engine
               /\ outcome' = taken.outcome
               /\ streak' = Lengthened(result)
        /\ UNCHANGED << session, mainlines, mainline, features, pool, portfolio,
                        answer, leading >>

\* MainlineEngine.process
UpdateMainlines(rows) ==
    LET snapshot == [session |-> session, version |-> Version, rows |-> rows]
    IN  /\ outcome # Missing
        /\ \E taken \in {ProcessMainlines(mainlines, snapshot, outcome)} \ {Refused} :
             /\ mainlines' = taken.engine
             /\ mainline' = taken.mainline
        /\ leading' = Latest(Append(leading, {id \in DOMAIN rows :
                                                InTopK(Rank(rows, id))}), Memory)
        /\ UNCHANGED << session, regimes, outcome, features, pool, portfolio,
                        answer, streak >>

\* LeaderEngine.rank, then CandidateEngine.rank
RankStocks(stocks) ==
    LET today == [session |-> session, version |-> Version, stocks |-> stocks]
    IN  /\ mainline # Missing
        /\ \E ranking \in {RankLeaders(mainline, today)} \ {Refused} :
             pool' = RankCandidates(outcome, mainline, ranking, today)
        /\ pool' # Refused
        /\ features' = today
        /\ answer' = Missing
        /\ UNCHANGED << session, engines, outcome, mainline, portfolio, streak,
                        leading >>

\* MainlineLeaderStrategy.decide; the portfolio follows a decision
DecidePortfolio ==
    /\ pool # Missing /\ portfolio.session < session
    /\ answer' = Decide(session, session, Version, pool, portfolio)
    /\ answer' # Refused
    /\ portfolio' = IF answer' = Failed THEN portfolio
                    ELSE Portfolio(session, Version, pool, portfolio, answer'.target)
    /\ UNCHANGED << session, engines, outcome, mainline, features, pool, streak,
                    leading >>

\* the next session begins: the engines, the portfolio and the latest market
\* state are what is left of the last one
NextSession ==
    /\ session < LastSession
    /\ session' = session + 1
    /\ mainline' = Missing /\ features' = Missing
    /\ pool' = Missing /\ answer' = Missing
    /\ UNCHANGED << engines, outcome, portfolio, streak, leading >>

ResearchNext ==
    \/ \E market \in Markets : ClassifyMarket(market)
    \/ \E rows \in IndustryTables : UpdateMainlines(rows)
    \/ \E stocks \in CrossSections : RankStocks(stocks)
    \/ DecidePortfolio
    \/ NextSession

ResearchSpec == ResearchInit /\ [][ResearchNext]_researchVars

-----------------------------------------------------------------------------
(* The effective market state changes exactly when enough consecutive      *)
(* sessions named the new one, each with enough confidence: an interrupted *)
(* or doubtful series never adds up, and a complete one is never ignored   *)
(* (RegimeTransitionEngine.process counts in the engine; the history       *)
(* counts what the sessions showed).                                       *)
ChangesAreConfirmed ==
    [][regimes' # regimes /\ regimes.current # Missing
       => regimes'.current =
             IF streak'.length >= RequiredSessions(outcome'.raw)
             THEN streak'.regime ELSE regimes.current]_researchVars

HitsOf(id, sessions) ==
    Cardinality({k \in DOMAIN Latest(leading, sessions) :
                    id \in Latest(leading, sessions)[k]})

(* An industry that stayed out of the first ranks for as long as its hits  *)
(* can confirm it and its retention can keep it has been absent too long.  *)
LongestAbsence ==
    MainlinePolicy.window - MainlinePolicy.minimum_hits
        + MainlinePolicy.retention + 1

(* A CONFIRMED or CROWDED industry was among the first in enough of the    *)
(* latest sessions of the window, whenever it was first listed, and an     *)
(* industry absent too long is no longer tracked, whatever the market did  *)
(* meanwhile (MainlineEngine keeps one rank history per industry,          *)
(* back-fills the sessions before it was listed, and counts the sessions   *)
(* a faded one has left).                                                  *)
LeadersFollowTheirHistory ==
    \A id \in DOMAIN mainlines.tracked :
        /\ mainlines.tracked[id].state \in ActiveStates
           => HitsOf(id, MainlinePolicy.window) >= MainlinePolicy.minimum_hits
        /\ Len(leading) >= LongestAbsence => HitsOf(id, LongestAbsence) > 0

Decided == answer \notin {Missing, Refused, Failed}

(* After a decision every stock held may be traded today, leads an         *)
(* industry the engine still counts as CONFIRMED or CROWDED, and together  *)
(* they stay within the exposure of the effective market state - also on   *)
(* sessions that are not rebalance sessions, and whatever was held before  *)
(* (MainlineLeaderStrategy.decide: forced exits and scaling).              *)
HoldingsFollowLeadership ==
    Decided =>
        /\ \A s \in DOMAIN portfolio.positions :
              /\ features.stocks[s].eligible /\ ~features.stocks[s].blocked
              /\ portfolio.positions[s].industry \in DOMAIN mainlines.tracked
              /\ mainlines.tracked[portfolio.positions[s].industry].state
                    \in ActiveStates
        /\ MapThenSumSet(LAMBDA s : portfolio.positions[s].weight,
                         DOMAIN portfolio.positions)
              <= StrategyPolicy.exposure[regimes.current]

(* The strategy fails its own decision only by rounding: what it proposes  *)
(* exceeds the exposure or the discretionary turnover, or falls short of   *)
(* zero, by at most one unit per stock (the assertion at the end of        *)
(* MainlineLeaderStrategy.decide, the exposure check of                    *)
(* MainlineLeaderDecision and the weights of MainlineLeaderSelection).     *)
FailuresAreRounding ==
    answer = Failed =>
      \A target \in {Target(session, pool, portfolio)},
         desired \in {Desired(pool, portfolio)} :
        LET units  == Cardinality(DOMAIN target)
            kept   == Kept(pool, portfolio)
            reduced == {s \in DOMAIN target :
                          /\ target[s] < PriorWeight(portfolio, s)
                          /\ \/ kept[s] = 0
                             \/ SumWeights(kept) > ExposureCap(pool.outcome)}
            moved  == MapThenSumSet(
                        LAMBDA s : Distance(target[s], PriorWeight(portfolio, s)),
                        DOMAIN target \ reduced)
        IN  /\ SumWeights(target) <= ExposureCap(pool.outcome) + units
            /\ moved <= StrategyPolicy.maximum_turnover + units
            /\ \A s \in DOMAIN desired : desired[s] >= -units
            /\ \/ SumWeights(target) > ExposureCap(pool.outcome)
               \/ moved > StrategyPolicy.maximum_turnover
               \/ \E s \in DOMAIN desired : desired[s] < 0
=============================================================================
