--------------------------- MODULE MCRotationDays ---------------------------
(* TLC instance of RotationDays: two funds, three sessions of history and  *)
(* two more, one late publication, two backtests.                          *)
EXTENDS RotationDays

MCRotationPolicy ==
  [weights |-> (2 :> 100), volatility_window |-> 2, trend_window |-> 2,
   annualization |-> 4, volatility_floor |-> 50, minimum_momentum |-> 0,
   frequency |-> 1, top_n |-> 2, maximum_weight |-> 60,
   exposure |-> [r \in Regimes |-> IF r = "DOWNTREND" THEN 0 ELSE 90],
   force_cash |-> TRUE]

MCFee == [from |-> 1, to |-> Absent, commission |-> 1, minimum |-> 2, stamp |-> 1,
          transfer |-> 0, other |-> 0, unit |-> 1]
MCFeeRules == [side \in Sides |->
                 {IF side = "BUY" THEN [MCFee EXCEPT !.stamp = 0] ELSE MCFee}]

Up   == [open |-> 10, close |-> 12]
Down == [open |-> 9, close |-> 7]
MCTables == {<< Up, Down >>, << Down, Up >>, << Up >>}
MCLateBars == {{Down}, {Up, Down}}

PastClose(i, d) == << << 10, 9, 11 >>, << 6, 7, 8 >> >>[i][d]
MCPastBars ==
  {[instrument |-> i, day |-> d, open |-> PastClose(i, d), close |-> PastClose(i, d),
    available |-> 0, version |-> Version] : i \in 1 .. 2, d \in 1 .. 3}

Listing(i) == [instrument |-> i, listed |-> 1, delisted |-> Absent, from |-> 1,
               to |-> Absent, enabled |-> TRUE, available |-> 0, version |-> Version]
MCListings == {Listing(1), Listing(2)}
MCRelistings ==
  {[Listing(1) EXCEPT !.enabled = FALSE],
   [Listing(2) EXCEPT !.from = 4, !.delisted = 4]}

MCMarketStates == {[final |-> "UPTREND", budget |-> 100], [final |-> "DOWNTREND", budget |-> 20]}
=============================================================================
