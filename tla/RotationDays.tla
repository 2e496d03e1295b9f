---------------------------- MODULE RotationDays ----------------------------
(* ETF rotation over consecutive sessions: bars, benchmark closes and      *)
(* universe revisions are published over time, some late, some replacing   *)
(* earlier ones, some contradicting each other; the strategy decides once  *)
(* a session on what is known; and the vectorised backtest replays the     *)
(* decisions over the days so far.                                         *)
EXTENDS VectorBacktest

CONSTANTS
  Instruments, Benchmark, Version,
  FirstDay, LastDay,    \* bound: the sessions; FirstDay's bars are known at once
  MaxPublications,      \* bound: how often something is published late
  MaxRuns,              \* bound: how many backtests are kept
  Tables,               \* the bars a day may show, by instrument
  LateBars,             \* the sets of bars that may be published late at once
  PastBars,             \* the bars known on FirstDay
  Listings,             \* the universe revisions known on FirstDay
  Relistings,           \* the revisions that may be published later
  MarketStates,         \* final state and raw budget of a session
  InitialNav

\* ResearchPriceBar, ETFUniverseRevision: what their constructors admit
BarShown == [open : Nat \ {0}, close : Nat \ {0}]
RevisionRecord ==
    [instrument : Instruments, listed : Nat, delisted : Nat \cup {Absent},
     from : Nat, to : Nat \cup {Absent}, enabled : BOOLEAN, available : Nat,
     version : {Version}]

ASSUME RotationDaysAssumption ==
    /\ FirstDay \in Nat /\ LastDay \in Nat
    /\ Instruments \subseteq Nat /\ IsFiniteSet(Instruments)
    /\ \A shown \in Tables :
          DOMAIN shown \subseteq Instruments /\ \A i \in DOMAIN shown : shown[i] \in BarShown
    /\ \A rows \in LateBars : rows \subseteq BarShown /\ IsFiniteSet(rows)
    /\ IsFiniteSet(PastBars)
    /\ PastBars \subseteq [instrument : Instruments, day : Nat, open : Nat \ {0},
                          close : Nat \ {0}, available : Nat, version : {Version}]
    /\ Listings \cup Relistings \subseteq RevisionRecord
    /\ InitialNav \in Nat

VARIABLES
  now, day, opened,     \* the instant, the session and the session's first instant
  bars, benchmark, revisions,
  published,            \* how many publications came late
  regime,               \* the latest stabilized market state, if any
  decisions,            \* by session: what was asked and answered
  runs                  \* the backtests made: what was asked and answered

external == << bars, benchmark, revisions >>
vars == << now, day, opened, bars, benchmark, revisions, published, regime,
           decisions, runs >>

Row(i, d, bar, at) ==
    [instrument |-> i, day |-> d, open |-> bar.open, close |-> bar.close,
     available |-> at, version |-> Version]
MarkOf(d, at) == [instrument |-> Benchmark, day |-> d, available |-> at, version |-> Version]

Init ==
    /\ now = 0 /\ day = FirstDay /\ opened = 0
    /\ bars = PastBars /\ revisions = Listings
    /\ benchmark = {MarkOf(d, 0) : d \in 1 .. FirstDay}
    /\ published = 0
    /\ regime = Absent
    /\ decisions = [d \in {} |-> Absent]
    /\ runs = {}

\* A session begins; its bars and its benchmark close are published in it.
NextDay ==
    /\ day < LastDay
    /\ \E shown \in Tables :
          bars' = bars \cup {Row(i, day + 1, shown[i], now + 2) : i \in DOMAIN shown}
    /\ benchmark' = benchmark \cup {MarkOf(day + 1, now + 2)}
    /\ day' = day + 1 /\ now' = now + 2 /\ opened' = now + 1
    /\ UNCHANGED << revisions, published, regime, decisions, runs >>

\* A bar is replaced by a later row, or by two that contradict each other.
ReviseBars ==
    /\ published < MaxPublications
    /\ \E i \in Instruments, d \in Max({FirstDay, day - 1}) .. day, rows \in LateBars :
          bars' = bars \cup {Row(i, d, bar, now + 1) : bar \in rows}
    /\ now' = now + 1 /\ published' = published + 1
    /\ UNCHANGED << day, opened, benchmark, revisions, regime, decisions, runs >>

\* A universe revision becomes known.
ReviseUniverse ==
    /\ published < MaxPublications
    /\ \E listing \in Relistings :
          revisions' = revisions \cup {[listing EXCEPT !.available = now + 1]}
    /\ now' = now + 1 /\ published' = published + 1
    /\ UNCHANGED << day, opened, bars, benchmark, regime, decisions, runs >>

\* RegimeTransitionEngine.process, for the session as it is known now
StabilizeRegime ==
    /\ regime # Absent => regime.asOf # now
    /\ \E market \in MarketStates :
          regime' = [final |-> market.final, budget |-> market.budget,
                     day |-> day, asOf |-> now, version |-> Version]
    /\ UNCHANGED << now, day, opened, bars, benchmark, revisions, published,
                    decisions, runs >>

\* ETFRotationStrategy.decide, for now or for the instant of the market state; a
\* refusal leaves nothing
DecideRotation ==
    /\ regime # Absent /\ day \notin DOMAIN decisions
    /\ \E asOf \in {now, regime.asOf} \cap opened .. now :
         LET request == RotationRequest(day, asOf, day, Version)
         IN  \E answer \in {Decide(request, revisions, bars, regime)} \ {Failed} :
               decisions' =
                 [d \in DOMAIN decisions \cup {day} |->
                    IF d = day
                    THEN [request |-> request, regime |-> regime, answer |-> answer]
                    ELSE decisions[d]]
    /\ UNCHANGED << now, day, opened, bars, benchmark, revisions, published,
                    regime, runs >>

Signals ==
    UNION {SignalsOf(decisions[d].request, decisions[d].answer) : d \in DOMAIN decisions}

\* VectorizedBacktestEngine.run, up to today or to an earlier session; a refusal
\* leaves nothing
RunBacktest ==
    /\ Cardinality(runs) < MaxRuns
    /\ \E last \in FirstDay + 1 .. day :
         LET request == BacktestRequest([k \in 1 .. last - FirstDay + 1 |-> FirstDay + k - 1],
                                        now, InitialNav, Version)
         IN  /\ ValidBacktestRequest(request, day)
             /\ \E answer \in {Run(request, Signals, bars, benchmark)} \ {Failed} :
                  runs' = runs \cup
                    {[request |-> request, signals |-> Signals, answer |-> answer]}
             /\ runs' # runs
    /\ UNCHANGED << now, day, opened, bars, benchmark, revisions, published,
                    regime, decisions >>

Next ==
    \/ NextDay \/ ReviseBars \/ ReviseUniverse
    \/ StabilizeRegime \/ DecideRotation \/ RunBacktest

Spec == Init /\ [][Next]_vars

-----------------------------------------------------------------------------
(* Properties.                                                             *)

\* A decision and a backtest can be made again later: whatever has been
\* published since, the same request gets the same answer.
\* (strategy.py decide, "One replayable target decision without using future
\* revisions"; vectorized.py _select_*)
AnswersReplay ==
    /\ \A d \in DOMAIN decisions :
          Decide(decisions[d].request, revisions, bars, decisions[d].regime)
             = decisions[d].answer
    /\ \A run \in runs : run.answer = Run(run.request, run.signals, bars, benchmark)

\* A later day does not reach back: two finished backtests that knew the same
\* bars of the days they share value the portfolio alike on every such day.
SameDays(a, b, days) ==
    {r \in Newest(KnownBars(a.request, bars), BarKey) : r.day \in days}
      = {r \in Newest(KnownBars(b.request, bars), BarKey) : r.day \in days}
NoDayReachesBack ==
    \A a, b \in {r \in runs : r.answer.state = "DONE"} :
       LET count == Min({Len(a.answer.points), Len(b.answer.points)})
           shared == DaysOf(a.request) \cap DaysOf(b.request)
       IN  SameDays(a, b, shared) =>
             SubSeq(a.answer.points, 1, count) = SubSeq(b.answer.points, 1, count)

\* When a rebalance does not balance, only rounding is missing: for every
\* instrument no more than the value of the quantity that was rounded away and
\* the roundings of its value before and after.
\* (vectorized.py, "rebalance cash flows do not conserve NAV")
ImbalanceIsRounding ==
    \A run \in {r \in runs : r.answer.state = "UNBALANCED"} :
       LET gap    == run.answer.gap
           prices == {r \in Newest(KnownBars(run.request, bars), BarKey) :
                        r.day = gap.day /\ r.instrument \in gap.traded}
           bound  == MapThenSumSet(LAMBDA r : r.open + 2 * QuantityUnit, prices)
       IN  2 * QuantityUnit * gap.amount \in -bound .. bound
=============================================================================
