--------------------------- MODULE MCResearchDays ---------------------------
(***************************************************************************)
(* TLC instance of ResearchDays: two industries, three stocks, a window of *)
(* three sessions with two hits, and markets that name every state, some   *)
(* without confidence, one severe and one that is refused.                 *)
(***************************************************************************)
EXTENDS ResearchDays

MCRegimePolicy ==
  [weights |-> [trend |-> 30, breadth |-> 25, turnover |-> 15, new_high_low |-> 20,
                downside_risk |-> 10],
   divergent_min |-> 40, range_strong_min |-> 55, uptrend_min |-> 70, neutral |-> 50,
   minimum_coverage |-> 95, divergence_above_average_max |-> 45,
   bottom_advance_decline_min |-> 52, bottom_above_average_min |-> 45,
   bottom_new_low_max |-> 8, divergence_spread_max |-> 0, volatility_ceiling |-> 40,
   minimum_counts |-> [k \in CriticalCounts |-> 1], divergence_weak_signals |-> 1,
   bottom_short_window |-> 20, bottom_long_window |-> 120, bottom_signals |-> 5,
   divergence_trend_min |-> 20, bottom_long_max |-> -15, bottom_short_min |-> 5,
   budgets |-> [r \in Regimes |->
                  CASE r = "UPTREND" -> 80 [] r = "RANGE_STRONG" -> 50
                    [] r = "DIVERGENT" -> 35 [] r = "DOWNTREND" -> 15
                    [] r = "BOTTOM_RECOVERY" -> 25],
   evidence |-> [r \in Regimes |-> << 40, 15, 15, 15, 15 >>]]

MCTransitionPolicy ==
  [confirmation |-> 2, bottom_confirmation |-> 2, severe_confirmation |-> 1,
   minimum_confidence |-> 75, severe_enabled |-> TRUE, severe_confidence |-> 90,
   severe_score_max |-> 20]

MCMainlinePolicy ==
  [top_k |-> 1, window |-> 3, minimum_hits |-> 2, retention |-> 1,
   regimes |-> {"UPTREND", "RANGE_STRONG"}, crowding_signals |-> 2,
   minimum_strength |-> 0, growth_min |-> 50, new_high_min |-> 30, share_min |-> 20,
   strength_weight |-> 4, rank_weight |-> 3, persistence_weight |-> 3]

MCLeaderPolicy ==
  [weights |-> [within_theme |-> 2, trend |-> 2, liquidity |-> 1, theme_leadership |-> 2,
                downside |-> 1, logic |-> 1, fundamental |-> 1],
   liquidity_percentile |-> 5, theme_return_rank |-> 5, downside_relative |-> 5,
   capacity_liquidity_min |-> 70, capacity_leadership_min |-> 50,
   capacity_trend_min |-> 50, trend_quality_min |-> 60, trend_within_min |-> 50,
   trend_downside_min |-> 40, elasticity_min |-> 80, minimum_score |-> 40,
   maximum_penalty |-> 30, degraded_penalty |-> 5, capacity_full |-> 100,
   pullback_tolerance |-> 20, crowded_rate |-> 5, risk_multiplier |-> 1]

MCCandidatePolicy ==
  [weights |-> [regime |-> 2, theme |-> 2, leader |-> 2, trend |-> 1, volume |-> 1,
                fundamental_or_event |-> 1, valuation |-> 1],
   regime_scores |-> [r \in Regimes |-> IF r = "UPTREND" THEN 90 ELSE 50],
   tier_b_min |-> 40, tier_a_min |-> 65, maximum_penalty |-> 40,
   allow_downtrend |-> FALSE]

MCOpening == << [weight |-> 27, industry |-> "chips"], [weight |-> 23, industry |-> "chips"] >>

MCStrategyPolicy ==
  [maximum_positions |-> 2, frequency |-> 2, minimum_score |-> 30,
   maximum_weight |-> 40, maximum_turnover |-> 20, crowded_multiplier |-> 5,
   exposure |-> [r \in Regimes |->
                   CASE r = "UPTREND" -> 75 [] r = "RANGE_STRONG" -> 50
                     [] r = "DIVERGENT" -> 25 [] r = "DOWNTREND" -> 10
                     [] r = "BOTTOM_RECOVERY" -> 30],
   tiers |-> {"A", "B"}, states |-> ActiveStates, types |-> {"TREND", "CAPACITY"},
   weighting |-> "EQUAL", force_cash |-> TRUE]

Market(aggregate, short, long, ad, above, high, low, turnover, volatility) ==
  [trend |-> [aggregate |-> aggregate,
              windows |-> [w \in {20, 120} |-> IF w = 20 THEN << short >> ELSE << long >>]],
   breadth |-> [coverage |-> 96, historical_coverage |-> 96,
                counts |-> [k \in CriticalCounts |-> 20],
                metrics |-> [advance_decline |-> ad, above_average |-> above,
                             new_high |-> high, new_low |-> low,
                             turnover_percentile |-> turnover,
                             downside_volatility |-> volatility]]]

Rising     == Market(80, 60, 40, 80, 80, 30, 0, 70, 10)
Doubtful   == Market(100, 60, 0, 45, 46, 80, 0, 100, 40)
Crash      == Market(-95, -90, -60, 5, 5, 0, 80, 20, 40)
Turning    == Market(-30, 30, -40, 70, 48, 10, 5, 60, 25)
MCMarkets == {Rising, Doubtful, Crash, Turning}

Row(rank, strength, hot) ==
  [ready |-> TRUE, rank |-> rank, strength |-> strength,
   growth |-> IF hot THEN 80 ELSE 10, new_high |-> IF hot THEN 40 ELSE Missing,
   shares |-> {10}]
Unready == [ready |-> FALSE, rank |-> Missing, strength |-> Missing, growth |-> Missing,
            new_high |-> Missing, shares |-> {}]
Table(a, b) == [id \in {"chips", "wine"} |-> IF id = "chips" THEN a ELSE b]
MCIndustryTables ==
  {Table(Row(1, 60, FALSE), Row(2, 20, FALSE)), Table(Row(1, 60, TRUE), Row(2, 20, FALSE)),
   [id \in {"wine"} |-> Row(1, 50, FALSE)], Table(Row(1, -10, FALSE), Unready)}

Stock(industry, return, relative, trend, eligible) ==
  [trend |-> trend, volume |-> 40, valuation |-> Missing, industry |-> industry,
   return |-> return, eligible |-> eligible, status |-> "READY",
   industry_relative |-> relative, benchmark_relative |-> relative, pullback |-> 5,
   blocked |-> FALSE, percentile |-> 80, capacity |-> 90, quality |-> 60,
   adjusted_quality |-> 55, penalty |-> 5, event |-> [penalty |-> 2, score |-> 70]]
MCCrossSections ==
  {<< Stock("chips", 10, 60, 70, TRUE), Stock("chips", 5, 30, 60, TRUE),
      Stock("wine", 8, 50, 50, TRUE) >>,
   << Stock("chips", 10, 60, 70, FALSE), Stock("wine", 5, 30, 60, TRUE),
      [Stock("wine", 8, 50, 50, TRUE) EXCEPT !.status = "MISSING"] >>}
=============================================================================
