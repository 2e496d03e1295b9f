--------------------------- MODULE RotationDaysProofs ---------------------------
(***************************************************************************)
(* Proofs about RotationDays, for any publications, policies, fees and     *)
(* numbers of sessions and backtests.  The first part shows what decisions *)
(* and backtests depend on, and from it that both can be made again later, *)
(* the second that no day reaches back, and the third follows one          *)
(* rebalance trade by trade to what its roundings can miss.                *)
(***************************************************************************)
EXTENDS RotationDays, SumTheorems, SequenceTheorems, TLAPS

-----------------------------------------------------------------------------
(* What a decision depends on.                                             *)

(* Rows that become known later change nothing of what is known now.       *)
LEMMA LaterIsUnknown ==
  ASSUME NEW rows, NEW more, rows \subseteq more, NEW asOf \in Nat,
         \A r \in more \ rows : r.available \in Nat /\ r.available > asOf
  PROVE  Known(more, asOf) = Known(rows, asOf)
<1>1. ASSUME NEW r \in more, r.available <= asOf PROVE r \in rows
  BY <1>1
<1> QED
  BY <1>1 DEF Known

(* A decision reads the revisions and the bars known at its instant only.  *)
LEMMA DecisionReadsKnown ==
  ASSUME NEW request, NEW regime0, NEW listed, NEW relisted, NEW rows, NEW more,
         Known(relisted, request.asOf) = Known(listed, request.asOf),
         Known(more, request.asOf) = Known(rows, request.asOf)
  PROVE  Decide(request, relisted, more, regime0) = Decide(request, listed, rows, regime0)
<1>1. Universe(request, relisted) = Universe(request, listed)
  BY DEF Universe
<1>2. PICK universe : universe = Universe(request, listed)
  OBVIOUS
<1>3. PricesAccepted(request, more, Eligible(universe))
        = PricesAccepted(request, rows, Eligible(universe))
  BY DEF PricesAccepted
<1>4. \A i : History(request, more, i) = History(request, rows, i)
  BY DEF History
<1>5. PICK old : old = [i \in Eligible(universe) |-> History(request, rows, i)]
  OBVIOUS
<1>6. [i \in Eligible(universe) |-> History(request, more, i)] = old
  BY <1>4, <1>5
<1>7. Decided(request, universe, more, regime0) = Decided(request, universe, rows, regime0)
  BY <1>3, <1>5, <1>6 DEF Decided
<1> QED
  BY <1>1, <1>2, <1>7 DEF Decide

(* The fold of a backtest, and what it is made of: the signals and the     *)
(* newest bars known to its request.                                       *)
Start(request) ==
  [state |-> "RUNNING", cash |-> request.nav, units |-> [i \in {} |-> 0],
   points |-> << >>, gap |-> Absent]

End(request, signals, rows) ==
  FoldLeft(LAMBDA run, k : Simulated(request, signals, rows, run, k),
           Start(request), [k \in DOMAIN request.calendar |-> k])

RunOn(request, signals, rows, marks) ==
  IF \/ ~SignalsAccepted(request, signals)
     \/ ~RowsAccepted(request, rows)
     \/ ~BenchmarkAligned(request, marks)
  THEN Failed
  ELSE Outcome(End(request, signals, Newest(rows, BarKey)))

LEMMA RunIs ==
  ASSUME NEW request, NEW signals, NEW rows, NEW marks
  PROVE  Run(request, signals, rows, marks)
           = RunOn(request, KnownSignals(request, signals), KnownBars(request, rows),
                   KnownBars(request, marks))
BY DEF Run, RunOn, End, Start

(* A backtest reads the bars and benchmark closes known at its instant.    *)
LEMMA RunReadsKnown ==
  ASSUME NEW request, NEW signals, NEW rows, NEW more, NEW marks, NEW moreMarks,
         Known(more, request.asOf) = Known(rows, request.asOf),
         Known(moreMarks, request.asOf) = Known(marks, request.asOf)
  PROVE  Run(request, signals, more, moreMarks) = Run(request, signals, rows, marks)
<1>1. /\ KnownBars(request, more) = KnownBars(request, rows)
      /\ KnownBars(request, moreMarks) = KnownBars(request, marks)
  BY DEF KnownBars
<1> QED
  BY <1>1, RunIs

-----------------------------------------------------------------------------
(* What has been asked so far.                                             *)

DecisionOf(e, d, today, at) ==
  d <= today /\ e.request.day = d /\ e.request.asOf \in Nat /\ e.request.asOf <= at

DecisionsInv ==
  /\ DOMAIN decisions \subseteq Nat
  /\ \A d \in DOMAIN decisions : DecisionOf(decisions[d], d, day, now)

(* The days a backtest replays, and the decisions it executes on them:     *)
(* those of all its days but the last are final.                           *)
CalendarTo(last) == [k \in 1 .. last - FirstDay + 1 |-> FirstDay + k - 1]

ReplaysTo(run, last) ==
  /\ last \in FirstDay + 1 .. day
  /\ run.request.calendar = CalendarTo(last)
  /\ \A d \in Nat : d < last => Batch(run.signals, d) = Batch(Signals, d)

RunInv(run) ==
  /\ run.request.asOf \in Nat /\ run.request.asOf <= now
  /\ run.request.nav = InitialNav
  /\ \A s \in run.signals : s.asOf <= run.request.asOf
  /\ run.answer # Failed
  /\ \E last \in Nat : ReplaysTo(run, last)

RotationInv ==
  /\ now \in Nat /\ opened \in Nat /\ day \in Nat /\ FirstDay <= day
  /\ DecisionsInv
  /\ \A run \in runs : RunInv(run)
  /\ AnswersReplay

(* The signals of one day are those of its decision.                       *)
SignalsFrom(e) == SignalsOf(e.request, e.answer)
SignalsIn(made) == UNION {SignalsFrom(made[d]) : d \in DOMAIN made}

LEMMA BatchIs ==
  ASSUME NEW made, \A d \in DOMAIN made : made[d].request.day = d, NEW d
  PROVE  Batch(SignalsIn(made), d) = IF d \in DOMAIN made THEN SignalsFrom(made[d]) ELSE {}
<1>1. ASSUME NEW e \in DOMAIN made, NEW s \in SignalsFrom(made[e]) PROVE s.day = e
  BY <1>1 DEF SignalsFrom, SignalsOf
<1>2. CASE d \in DOMAIN made
  BY <1>1, <1>2 DEF Batch, SignalsIn
<1>3. CASE d \notin DOMAIN made
  BY <1>1, <1>3 DEF Batch, SignalsIn
<1> QED
  BY <1>2, <1>3

LEMMA SignalsAreKnown ==
  ASSUME DecisionsInv, NEW s \in Signals
  PROVE  s.asOf <= now
<1>1. PICK d \in DOMAIN decisions : s \in SignalsOf(decisions[d].request, decisions[d].answer)
  BY DEF Signals
<1> QED
  BY <1>1 DEF DecisionsInv, DecisionOf, SignalsOf

(* Rows published in a step are known after every instant asked about.     *)
Published ==
  /\ now \in Nat /\ now' \in Nat /\ now <= now'
  /\ bars \subseteq bars' /\ benchmark \subseteq benchmark' /\ revisions \subseteq revisions'
  /\ \A r \in bars' \ bars : r.available \in Nat /\ r.available > now
  /\ \A r \in benchmark' \ benchmark : r.available \in Nat /\ r.available > now
  /\ \A r \in revisions' \ revisions : r.available \in Nat /\ r.available > now

LEMMA KnownStays ==
  ASSUME Published, NEW at \in Nat, at <= now
  PROVE  /\ Known(bars', at) = Known(bars, at)
         /\ Known(benchmark', at) = Known(benchmark, at)
         /\ Known(revisions', at) = Known(revisions, at)
<1>1. \A r \in (bars' \ bars) \cup (benchmark' \ benchmark) \cup (revisions' \ revisions) :
        r.available \in Nat /\ r.available > at
  BY DEF Published
<1> QED
  BY <1>1, LaterIsUnknown DEF Published

LEMMA NextPublishes ==
  ASSUME now \in Nat, [Next]_vars
  PROVE  Published
<1>1. CASE NextDay
  BY <1>1 DEF NextDay, Published, Row, MarkOf
<1>2. CASE ReviseBars
  BY <1>2 DEF ReviseBars, Published, Row
<1>3. CASE ReviseUniverse
  <2>1. PICK listing \in Relistings :
          revisions' = revisions \cup {[listing EXCEPT !.available = now + 1]}
    BY <1>3 DEF ReviseUniverse
  <2>2. listing \in RevisionRecord
    BY RotationDaysAssumption
  <2>3. PICK row : row = [listing EXCEPT !.available = now + 1]
    OBVIOUS
  <2>4. row.available = now + 1
    BY <2>2, <2>3 DEF RevisionRecord
  <2>5. revisions' = revisions \cup {row}
    BY <2>1, <2>3
  <2>6. /\ now' = now + 1 /\ bars' = bars /\ benchmark' = benchmark
    BY <1>3 DEF ReviseUniverse
  <2> QED
    BY <2>4, <2>5, <2>6 DEF Published
<1>4. CASE StabilizeRegime \/ DecideRotation \/ RunBacktest \/ UNCHANGED vars
  <2>1. /\ now' = now /\ bars' = bars /\ benchmark' = benchmark /\ revisions' = revisions
    BY <1>4 DEF StabilizeRegime, DecideRotation, RunBacktest, vars
  <2> QED
    BY <2>1 DEF Published
<1> QED
  BY <1>1, <1>2, <1>3, <1>4 DEF Next

(* What was answered stays the answer.                                     *)
LEMMA DecisionAnswersStay ==
  ASSUME Published, NEW e, e.request.asOf \in Nat, e.request.asOf <= now
  PROVE  Decide(e.request, revisions', bars', e.regime) = Decide(e.request, revisions, bars, e.regime)
BY KnownStays, DecisionReadsKnown

LEMMA RunAnswersStay ==
  ASSUME Published, NEW r, r.request.asOf \in Nat, r.request.asOf <= now
  PROVE  Run(r.request, r.signals, bars', benchmark') = Run(r.request, r.signals, bars, benchmark)
BY KnownStays, RunReadsKnown

LEMMA InitRotation == Init => RotationInv
<1> SUFFICES ASSUME Init PROVE RotationInv
  OBVIOUS
<1>1. /\ now = 0 /\ opened = 0 /\ day = FirstDay /\ DOMAIN decisions = {} /\ runs = {}
  BY DEF Init
<1>2. DecisionsInv /\ AnswersReplay
  BY <1>1 DEF DecisionsInv, AnswersReplay
<1> QED
  BY <1>1, <1>2, RotationDaysAssumption DEF RotationInv

(* A step that decides nothing and makes no backtest.                      *)
LEMMA QuietKeeps ==
  ASSUME RotationInv, Published, decisions' = decisions, runs' = runs,
         opened' \in Nat, day' \in Nat, day <= day'
  PROVE  RotationInv'
<1>1. ASSUME NEW d \in DOMAIN decisions
      PROVE  /\ d \in Nat /\ DecisionOf(decisions[d], d, day, now)
             /\ Decide(decisions[d].request, revisions, bars, decisions[d].regime)
                  = decisions[d].answer
  BY DEF RotationInv, DecisionsInv, AnswersReplay
<1>2. DecisionsInv'
  <2>1. ASSUME NEW d \in DOMAIN decisions PROVE DecisionOf(decisions[d], d, day', now')
    BY <1>1 DEF DecisionOf, Published, RotationInv
  <2> QED
    BY <1>1, <2>1 DEF DecisionsInv
<1>3. ASSUME NEW run \in runs
      PROVE  RunInv(run) /\ Run(run.request, run.signals, bars, benchmark) = run.answer
  BY DEF RotationInv, AnswersReplay
<1>4. ASSUME NEW run \in runs PROVE RunInv(run)'
  <2>1. PICK last \in Nat : ReplaysTo(run, last)
    BY <1>3 DEF RunInv
  <2>2. Signals' = Signals
    BY DEF Signals
  <2>3. ReplaysTo(run, last)'
    <3>1. last \in FirstDay + 1 .. day'
      BY <2>1, RotationDaysAssumption DEF ReplaysTo, RotationInv
    <3> QED
      BY <2>1, <2>2, <3>1 DEF ReplaysTo
  <2> QED
    BY <1>3, <2>1, <2>3 DEF RunInv, Published, RotationInv
<1>5. AnswersReplay'
  <2>1. ASSUME NEW d \in DOMAIN decisions
        PROVE  Decide(decisions[d].request, revisions', bars', decisions[d].regime)
                 = decisions[d].answer
    BY <1>1, DecisionAnswersStay DEF DecisionOf
  <2>2. ASSUME NEW run \in runs
        PROVE  run.answer = Run(run.request, run.signals, bars', benchmark')
    BY <1>3, RunAnswersStay DEF RunInv
  <2> QED
    BY <2>1, <2>2 DEF AnswersReplay
<1> QED
  BY <1>2, <1>4, <1>5, RotationDaysAssumption DEF RotationInv, Published

(* A decision of today changes no signals of an earlier day.               *)
LEMMA DecideKeeps == RotationInv /\ DecideRotation => RotationInv'
<1> SUFFICES ASSUME RotationInv, DecideRotation PROVE RotationInv'
  OBVIOUS
<1>1. /\ day \notin DOMAIN decisions /\ now' = now /\ day' = day /\ opened' = opened
      /\ bars' = bars /\ benchmark' = benchmark /\ revisions' = revisions /\ runs' = runs
      /\ now \in Nat /\ opened \in Nat /\ day \in Nat
  BY DEF DecideRotation, RotationInv
<1>2. PICK asOf \in {now, regime.asOf} \cap opened .. now :
        \E answer \in {Decide(RotationRequest(day, asOf, day, Version), revisions, bars, regime)}
                        \ {Failed} :
          decisions' =
            [d \in DOMAIN decisions \cup {day} |->
               IF d = day
               THEN [request |-> RotationRequest(day, asOf, day, Version), regime |-> regime,
                     answer |-> answer]
               ELSE decisions[d]]
  BY DEF DecideRotation
<1>3. PICK request : request = RotationRequest(day, asOf, day, Version)
  OBVIOUS
<1>4. PICK answer : /\ answer = Decide(request, revisions, bars, regime)
                    /\ decisions' =
                         [d \in DOMAIN decisions \cup {day} |->
                            IF d = day
                            THEN [request |-> request, regime |-> regime, answer |-> answer]
                            ELSE decisions[d]]
  BY <1>2, <1>3
<1>5. PICK e : e = [request |-> request, regime |-> regime, answer |-> answer]
  OBVIOUS
<1>6. e.request = request /\ e.regime = regime /\ e.answer = answer
  BY <1>5
<1>7. /\ DOMAIN decisions' = DOMAIN decisions \cup {day}
      /\ decisions'[day] = e
      /\ \A d \in DOMAIN decisions : decisions'[d] = decisions[d]
  <2>1. decisions' = [d \in DOMAIN decisions \cup {day} |->
                        IF d = day THEN e ELSE decisions[d]]
    BY <1>4, <1>5
  <2> QED
    BY <1>1, <2>1
<1>8. request.day = day /\ request.asOf = asOf /\ asOf \in Nat /\ asOf <= now
  <2>1. asOf \in opened .. now
    BY <1>2
  <2> QED
    BY <1>1, <1>3, <2>1 DEF RotationRequest
<1>9. DecisionsInv /\ DecisionsInv'
  <2>1. DecisionsInv
    BY DEF RotationInv
  <2>2. DecisionOf(e, day, day', now')
    BY <1>1, <1>6, <1>8 DEF DecisionOf
  <2>3. \A d \in DOMAIN decisions : DecisionOf(decisions[d], d, day', now')
    BY <1>1, <2>1 DEF DecisionsInv
  <2> QED
    BY <1>1, <1>7, <2>1, <2>2, <2>3 DEF DecisionsInv
<1>10. ASSUME NEW d \in Nat, d < day PROVE Batch(Signals', d) = Batch(Signals, d)
  <2>1. Signals = SignalsIn(decisions) /\ Signals' = SignalsIn(decisions')
    BY DEF Signals, SignalsIn, SignalsFrom
  <2>2. /\ \A j \in DOMAIN decisions : decisions[j].request.day = j
        /\ \A j \in DOMAIN decisions' : decisions'[j].request.day = j
    BY <1>9 DEF DecisionsInv, DecisionOf
  <2>3. Batch(SignalsIn(decisions), d)
          = IF d \in DOMAIN decisions THEN SignalsFrom(decisions[d]) ELSE {}
    BY <2>2, BatchIs
  <2>4. Batch(SignalsIn(decisions'), d)
          = IF d \in DOMAIN decisions' THEN SignalsFrom(decisions'[d]) ELSE {}
    BY <2>2, BatchIs
  <2> QED
    BY <1>1, <1>7, <1>10, <2>1, <2>3, <2>4
<1>11. ASSUME NEW run \in runs PROVE RunInv(run)'
  <2>1. RunInv(run)
    BY DEF RotationInv
  <2>2. PICK last \in Nat : ReplaysTo(run, last)
    BY <2>1 DEF RunInv
  <2>3. \A d \in Nat : d < last => d < day
    BY <1>1, <2>2, RotationDaysAssumption DEF ReplaysTo
  <2>4. ReplaysTo(run, last)'
    BY <1>1, <1>10, <2>2, <2>3 DEF ReplaysTo
  <2> QED
    BY <1>1, <2>1, <2>4 DEF RunInv
<1>12. AnswersReplay'
  BY <1>1, <1>4, <1>6, <1>7 DEF RotationInv, AnswersReplay
<1> QED
  BY <1>1, <1>9, <1>11, <1>12 DEF RotationInv

LEMMA RunKeeps == RotationInv /\ RunBacktest => RotationInv'
<1> SUFFICES ASSUME RotationInv, RunBacktest PROVE RotationInv'
  OBVIOUS
<1>1. /\ now' = now /\ day' = day /\ opened' = opened /\ decisions' = decisions
      /\ bars' = bars /\ benchmark' = benchmark /\ revisions' = revisions
      /\ now \in Nat /\ day \in Nat /\ DecisionsInv
  BY DEF RunBacktest, RotationInv
<1>2. PICK last \in FirstDay + 1 .. day :
        \E answer \in {Run(BacktestRequest(CalendarTo(last), now, InitialNav, Version),
                           Signals, bars, benchmark)} \ {Failed} :
          runs' = runs \cup {[request |-> BacktestRequest(CalendarTo(last), now, InitialNav, Version),
                              signals |-> Signals, answer |-> answer]}
  BY DEF RunBacktest, CalendarTo
<1>3. PICK request : request = BacktestRequest(CalendarTo(last), now, InitialNav, Version)
  OBVIOUS
<1>4. PICK answer : /\ answer = Run(request, Signals, bars, benchmark) /\ answer # Failed
                    /\ runs' = runs \cup {[request |-> request, signals |-> Signals,
                                           answer |-> answer]}
  BY <1>2, <1>3
<1>5. PICK new : new = [request |-> request, signals |-> Signals, answer |-> answer]
  OBVIOUS
<1>6. new.request = request /\ new.signals = Signals /\ new.answer = answer
  BY <1>5
<1>7. request.calendar = CalendarTo(last) /\ request.asOf = now /\ request.nav = InitialNav
  BY <1>3 DEF BacktestRequest
<1>8. last \in Nat
  BY <1>1, RotationDaysAssumption
<1>9. Signals' = Signals
  BY <1>1 DEF Signals
<1>10. RunInv(new)
  <2>1. ReplaysTo(new, last)
    BY <1>6, <1>7 DEF ReplaysTo
  <2>2. \A s \in new.signals : s.asOf <= new.request.asOf
    BY <1>1, <1>6, <1>7, SignalsAreKnown
  <2> QED
    BY <1>1, <1>4, <1>6, <1>7, <1>8, <2>1, <2>2 DEF RunInv
<1>11. runs' = runs \cup {new}
  BY <1>4, <1>5
<1>12. \A run \in runs' : RunInv(run)
  BY <1>10, <1>11 DEF RotationInv
<1>13. \A run \in runs' : RunInv(run)'
  BY <1>1, <1>9, <1>12 DEF RunInv, ReplaysTo
<1>14. AnswersReplay'
  BY <1>1, <1>4, <1>6, <1>11 DEF RotationInv, AnswersReplay
<1>15. DecisionsInv'
  BY <1>1 DEF DecisionsInv
<1> QED
  BY <1>1, <1>13, <1>14, <1>15 DEF RotationInv

LEMMA RotationKept == RotationInv /\ [Next]_vars => RotationInv'
<1> SUFFICES ASSUME RotationInv, [Next]_vars PROVE RotationInv'
  OBVIOUS
<1>1. Published /\ day \in Nat /\ opened \in Nat /\ now \in Nat
  BY NextPublishes DEF RotationInv
<1>2. CASE NextDay \/ ReviseBars \/ ReviseUniverse \/ StabilizeRegime \/ UNCHANGED vars
  <2>1. /\ decisions' = decisions /\ runs' = runs /\ opened' \in Nat /\ day' \in Nat /\ day <= day'
    BY <1>1, <1>2 DEF NextDay, ReviseBars, ReviseUniverse, StabilizeRegime, vars
  <2> QED
    BY <1>1, <2>1, QuietKeeps
<1>3. CASE DecideRotation
  BY <1>3, DecideKeeps
<1>4. CASE RunBacktest
  BY <1>4, RunKeeps
<1> QED
  BY <1>2, <1>3, <1>4 DEF Next

(***************************************************************************)
(* Every decision and every backtest made so far is about days up to today *)
(* and about instants up to now, a backtest executes the final decisions   *)
(* of the days it replays, and each gives again, for the same request, the *)
(* answer it gave (EtfRotation.decide, VectorizedBacktestEngine.run).      *)
(***************************************************************************)
THEOREM RotationStaysSound == Spec => []RotationInv
<1>1. RotationInv /\ [Next]_vars => RotationInv'
  BY RotationKept
<1> QED
  BY InitRotation, <1>1, PTL DEF Spec

(***************************************************************************)
(* Nothing published later changes an answer: a decision and a backtest    *)
(* made at one instant can be made again at any later one, and give the    *)
(* same targets and the same points (strategy.py decide, "without using    *)
(* future revisions"; vectorized.py _select_price_revisions).              *)
(***************************************************************************)
THEOREM AnswersAlwaysReplay == Spec => []AnswersReplay
<1>1. RotationInv => AnswersReplay
  BY DEF RotationInv
<1> QED
  BY RotationStaysSound, <1>1, PTL

-----------------------------------------------------------------------------
(* What a backtest does day by day.  A fold over a sequence is a recursive *)
(* function on the subsets of its positions; it is taken apart once, into  *)
(* the portfolios after 0, 1, .. n days.                                   *)

(* d is the portfolio after 0, 1, .. n days.                               *)
DayByDay(d, n, request, signals, rows) ==
  /\ d[0] = Start(request)
  /\ \A k \in 1..n : d[k] = Simulated(request, signals, rows, d[k - 1], k)
  /\ End(request, signals, rows) = d[n]

LEMMA DaysSteps ==
  ASSUME NEW n \in Nat, NEW request, DOMAIN request.calendar = 1..n, NEW signals, NEW rows
  PROVE  \E d : DayByDay(d, n, request, signals, rows)
<1> DEFINE ord == [k \in 1..n |-> k]
           Top(s) == Max(s)
           Step(s, h) == Simulated(request, signals, rows, h[s \ {Top(s)}], ord[Top(s)])
           D(m) == {T \in SUBSET (1..n) : Cardinality(T) \in 0..m}
           Good(m) == \E h : h = [s \in D(m) |-> IF s = {} THEN Start(request) ELSE Step(s, h)]
           Bad == {m \in Nat : ~Good(m)}
           g == CHOOSE h : h = [s \in SUBSET (1..n) |->
                  IF s = {} THEN Start(request)
                  ELSE Simulated(request, signals, rows, h[s \ {Top(s)}], ord[Top(s)])]
<1>1. n \in Nat /\ DOMAIN request.calendar = 1..n /\ IsFiniteSet(1..n) /\ Cardinality(1..n) \in Nat
  BY FS_Interval, FS_CardinalityType
<1>2. ASSUME NEW s \in SUBSET (1..n), s # {}
      PROVE  Top(s) \in s /\ Cardinality(s \ {Top(s)}) = Cardinality(s) - 1 /\ Cardinality(s) \in Nat
  <2>1. Top(s) \in s
    BY <1>1, <1>2, GreatestIn
  <2>2. IsFiniteSet(s)
    BY <1>1, FS_Subset
  <2> HIDE DEF Top
  <2> QED
    BY <2>1, <2>2, FS_RemoveElement, FS_CardinalityType
<1> HIDE DEF Top
<1>3. Good(0)
  <2> DEFINE h == [s \in D(0) |-> Start(request)]
  <2>1. ASSUME NEW s \in D(0) PROVE s = {}
    <3>1. s \in SUBSET (1..n) /\ Cardinality(s) = 0
      OBVIOUS
    <3>2. IsFiniteSet(s)
      BY <1>1, <3>1, FS_Subset
    <3> QED
      BY <3>1, <3>2, FS_EmptySet
  <2>2. h = [s \in D(0) |-> IF s = {} THEN Start(request) ELSE Step(s, h)]
    BY <2>1
  <2> QED
    BY <2>2
<1>4. ASSUME NEW m \in Nat, Good(m) PROVE Good(m + 1)
  <2>1. PICK u : u = [s \in D(m) |-> IF s = {} THEN Start(request) ELSE Step(s, u)]
    BY <1>4
  <2> DEFINE h == [s \in D(m + 1) |-> IF s = {} THEN Start(request) ELSE Step(s, u)]
  <2>2. ASSUME NEW s \in D(m) PROVE s \in D(m + 1) /\ h[s] = u[s]
    <3>1. s \in D(m + 1)
      OBVIOUS
    <3> QED
      BY <2>1, <3>1
  <2>3. ASSUME NEW s \in D(m + 1), s # {} PROVE s \ {Top(s)} \in D(m)
    <3>1. s \in SUBSET (1..n) /\ Cardinality(s) \in 0..(m + 1)
      OBVIOUS
    <3> DEFINE rest == s \ {Top(s)}
    <3>2. Top(s) \in s /\ Cardinality(rest) = Cardinality(s) - 1 /\ Cardinality(s) \in Nat
      BY <1>2, <2>3, <3>1
    <3>3. IsFiniteSet(rest) /\ rest \in SUBSET (1..n)
      BY <1>1, <3>1, FS_Subset
    <3>4. Cardinality(rest) \in Nat
      BY <3>3, FS_CardinalityType
    <3> HIDE DEF rest
    <3>5. Cardinality(rest) \in 0..m
      BY <3>1, <3>2, <3>4
    <3> QED
      BY <3>3, <3>5 DEF rest
  <2> HIDE DEF D
  <2>4. ASSUME NEW s \in D(m + 1), s # {} PROVE Step(s, u) = Step(s, h)
    <3>1. u[s \ {Top(s)}] = h[s \ {Top(s)}]
      BY <2>2, <2>3, <2>4
    <3> HIDE DEF h
    <3> QED
      BY <3>1
  <2>5. h = [s \in D(m + 1) |-> IF s = {} THEN Start(request) ELSE Step(s, h)]
    <3> HIDE DEF Step
    <3> QED
      BY <2>4
  <2> QED
    BY <2>5
<1> HIDE DEF Good
<1>5. Bad = {}
  <2> SUFFICES ASSUME Bad # {} PROVE FALSE
    OBVIOUS
  <2>1. PICK m \in Bad : \A j \in Bad : m <= j
    BY LeastNat
  <2>2. m # 0
    BY <1>3, <2>1
  <2>3. m - 1 \in Nat /\ Good(m - 1)
    BY <2>1, <2>2
  <2>4. Good((m - 1) + 1)
    BY <1>4, <2>3
  <2> QED
    BY <2>1, <2>4
<1>6. D(Cardinality(1..n)) = SUBSET (1..n)
  BY <1>1, FS_Subset, FS_CardinalityType
<1>7. \E h : h = [s \in SUBSET (1..n) |-> IF s = {} THEN Start(request) ELSE Step(s, h)]
  <2>1. Good(Cardinality(1..n))
    BY <1>1, <1>5
  <2> QED
    BY <1>6, <2>1 DEF Good
<1>8. g = [s \in SUBSET (1..n) |-> IF s = {} THEN Start(request) ELSE Step(s, g)]
  BY <1>7
<1>9. End(request, signals, rows) = g[1..n]
  BY <1>1 DEF End, FoldLeft, MapThenFoldSet, Top
<1> HIDE DEF g
<1> DEFINE d == [k \in 0..n |-> g[1..k]]
<1>10. d[0] = Start(request)
  <2>1. 1..0 = {} /\ 0 \in 0..n
    BY <1>1
  <2> QED
    BY <1>8, <2>1
<1>11. ASSUME NEW k \in 1..n
       PROVE  d[k] = Simulated(request, signals, rows, d[k - 1], k)
  <2>1. /\ 1..k \in SUBSET (1..n) /\ 1..k # {}
        /\ (1..k) \ {k} = 1..(k - 1)
        /\ k - 1 \in 0..n /\ k \in 0..n
    <3>1. 1..k \in SUBSET (1..n) /\ 1..k # {}
      <4>1. n \in Nat /\ k \in Nat /\ 1 <= k /\ k <= n
        BY <1>1
      <4>2. 1 \in 1..k
        BY <4>1
      <4>3. \A j \in 1..k : j \in 1..n
        BY <4>1
      <4> QED
        BY <4>2, <4>3
    <3>2. (1..k) \ {k} = 1..(k - 1)
      <4>1. k \in Nat /\ \A j \in Int : j <= k /\ j # k <=> j <= k - 1
        BY <1>1
      <4> QED
        BY <4>1
    <3>3. k - 1 \in 0..n /\ k \in 0..n
      BY <1>1
    <3> QED
      BY <3>1, <3>2, <3>3
  <2>2. Top(1..k) = k
    <3>1. Max(1..k) \in 1..k /\ \A m \in 1..k : m <= Max(1..k)
      BY <1>1, <2>1, GreatestIn
    <3> QED
      BY <3>1 DEF Top
  <2>3. g[1..k] = Step(1..k, g)
    BY <1>8, <2>1
  <2>4. d[k] = g[1..k] /\ d[k - 1] = g[1..(k - 1)]
    BY <2>1
  <2>5. ord[k] = k
    BY <1>11
  <2> QED
    BY <2>1, <2>2, <2>3, <2>4, <2>5
<1>12. End(request, signals, rows) = d[n]
  BY <1>1, <1>9
<1> HIDE DEF d
<1> QED
  BY <1>10, <1>11, <1>12 DEF DayByDay

(* A day reads the bars of that day only.                                  *)
OnlyDays(rows, days) == {r \in rows : r.day \in days}

BarOf(rows, i, day0) == CHOOSE b \in rows : b.instrument = i /\ b.day = day0
ShownOn(rows, day0) == {b.instrument : b \in {c \in rows : c.day = day0}}
PricesOf(rows, day0, field) == [i \in ShownOn(rows, day0) |-> BarOf(rows, i, day0)[field]]

LEMMA PriceIs ==
  ASSUME NEW rows, NEW day0, NEW field
  PROVE  PriceOf(rows, day0, field) = PricesOf(rows, day0, field)
BY DEF PriceOf, PricesOf, ShownOn, BarOf

LEMMA PriceReadsDay ==
  ASSUME NEW rows, NEW more, NEW days, OnlyDays(rows, days) = OnlyDays(more, days),
         NEW day0 \in days, NEW field
  PROVE  PriceOf(rows, day0, field) = PriceOf(more, day0, field)
<1>1. ASSUME NEW r PROVE r \in rows /\ r.day = day0 <=> r \in more /\ r.day = day0
  <2>1. r \in OnlyDays(rows, days) <=> r \in OnlyDays(more, days)
    OBVIOUS
  <2> QED
    BY <2>1 DEF OnlyDays
<1>2. {c \in rows : c.day = day0} = {c \in more : c.day = day0}
  BY <1>1
<1>3. ASSUME NEW i PROVE BarOf(rows, i, day0) = BarOf(more, i, day0)
  <2>1. \A b : b \in rows /\ b.instrument = i /\ b.day = day0
                 <=> b \in more /\ b.instrument = i /\ b.day = day0
    BY <1>1
  <2> QED
    BY <2>1 DEF BarOf
<1>4. ShownOn(rows, day0) = ShownOn(more, day0)
  BY <1>2 DEF ShownOn
<1>5. PricesOf(rows, day0, field) = PricesOf(more, day0, field)
  BY <1>3, <1>4 DEF PricesOf
<1> QED
  BY <1>5, PriceIs

(* A day does the same with the same account when it is the same day, with *)
(* the same targets and prices.                                            *)
LEMMA SameDay ==
  ASSUME NEW a, NEW b, NEW signals, NEW others, NEW rows, NEW more, NEW run, NEW k,
         a.calendar[k] = b.calendar[k],
         TargetOn(a, signals, k) = TargetOn(b, others, k),
         PriceOf(rows, a.calendar[k], "open") = PriceOf(more, a.calendar[k], "open"),
         PriceOf(rows, a.calendar[k], "close") = PriceOf(more, a.calendar[k], "close")
  PROVE  Simulated(a, signals, rows, run, k) = Simulated(b, others, more, run, k)
BY DEF Simulated

(* What a day leaves of the points made before it: all of them.            *)
LEMMA DayAppends ==
  ASSUME NEW request, NEW signals, NEW rows, NEW run, NEW k,
         "points" \in DOMAIN run
  PROVE  /\ "points" \in DOMAIN Simulated(request, signals, rows, run, k)
         /\ \E e : Simulated(request, signals, rows, run, k).points
                     \in {run.points, Append(run.points, e)}
<1> DEFINE Kept(after) == /\ "points" \in DOMAIN after
                          /\ \E e : after.points \in {run.points, Append(run.points, e)}
<1>1. ASSUME NEW day0, NEW traded, NEW nav PROVE Kept(Valued(run, day0, traded, nav))
  BY DEF Valued
<1>2. ASSUME NEW day0, NEW traded, NEW close PROVE Kept(Marked(run, day0, traded, close))
  BY <1>1 DEF Marked
<1>3. ASSUME NEW day0, NEW target, NEW open, NEW close
      PROVE  Kept(Followed(run, day0, target, open, close))
  BY <1>2 DEF Followed
<1> QED
  BY <1>3 DEF Simulated

(* A day executes the decisions of the day before.                         *)
BatchOn(request, signals, k) ==
  IF k = 1 THEN {} ELSE Batch(signals, request.calendar[k - 1])
TargetIn(batch) ==
  [i \in {s.instrument : s \in batch} |-> (CHOOSE s \in batch : s.instrument = i).weight]

LEMMA TargetIs ==
  ASSUME NEW request, NEW signals, NEW k
  PROVE  TargetOn(request, signals, k) = TargetIn(BatchOn(request, signals, k))
BY DEF TargetOn, TargetIn, BatchOn

(* The points after some days begin with the points after fewer.           *)
Begins(s, t) == Len(s) <= Len(t) /\ \A i \in 1..Len(s) : s[i] = t[i]

LEMMA PointsGrow ==
  ASSUME NEW n \in Nat, NEW request, NEW signals, NEW rows, NEW d,
         DayByDay(d, n, request, signals, rows)
  PROVE  \E S : /\ \A k \in 0..n : d[k].points \in Seq(S)
                /\ \A j \in 0..n : \A k \in j..n : Begins(d[j].points, d[k].points)
<1> DEFINE Added(k, e) == d[k].points \in {d[k - 1].points, Append(d[k - 1].points, e)}
           pt == [k \in 1..n |-> CHOOSE e : Added(k, e)]
           S == {pt[k] : k \in 1..n}
           Ok(k) == "points" \in DOMAIN d[k] /\ d[k].points \in Seq(S)
           Bad == {k \in 0..n : ~Ok(k)}
<1>1. Ok(0)
  BY DEF DayByDay, Start
<1>2. ASSUME NEW k \in 1..n, Ok(k - 1)
      PROVE  /\ Ok(k)
             /\ Begins(d[k - 1].points, d[k].points)
  <2>1. /\ "points" \in DOMAIN d[k]
        /\ \E e : Added(k, e)
    <3>1. PICK run : run = d[k - 1]
      OBVIOUS
    <3>2. "points" \in DOMAIN run
      BY <1>2, <3>1
    <3>3. PICK after : after = Simulated(request, signals, rows, run, k)
      OBVIOUS
    <3>4. d[k] = after
      BY <3>1, <3>3 DEF DayByDay
    <3>5. "points" \in DOMAIN after /\ \E e : after.points \in {run.points, Append(run.points, e)}
      BY <3>2, <3>3, DayAppends
    <3> QED
      BY <3>1, <3>4, <3>5
  <2>2. Added(k, pt[k])
    BY <2>1
  <2>3. pt[k] \in S
    OBVIOUS
  <2> HIDE DEF pt, S
  <2>4. d[k - 1].points \in Seq(S)
    BY <1>2
  <2>5. /\ Append(d[k - 1].points, pt[k]) \in Seq(S)
        /\ Begins(d[k - 1].points, Append(d[k - 1].points, pt[k]))
        /\ Begins(d[k - 1].points, d[k - 1].points)
    BY <2>3, <2>4 DEF Begins
  <2> QED
    BY <2>1, <2>2, <2>4, <2>5
<1> HIDE DEF pt, S
<1>3. Bad = {}
  <2> SUFFICES ASSUME Bad # {} PROVE FALSE
    OBVIOUS
  <2>1. PICK k \in Bad : \A j \in Bad : k <= j
    <3>1. Bad \subseteq Nat
      OBVIOUS
    <3> HIDE DEF Bad
    <3> QED
      BY <3>1, LeastNat
  <2>2. k # 0
    BY <1>1, <2>1
  <2>3. k \in 1..n /\ Ok(k - 1)
    <3>1. k \in 1..n /\ k - 1 \in 0..n /\ ~(k <= k - 1)
      BY <2>1, <2>2
    <3> QED
      BY <2>1, <3>1
  <2> QED
    BY <1>2, <2>1, <2>3
<1>4. ASSUME NEW k \in 0..n PROVE Ok(k)
  BY <1>3
<1> HIDE DEF Ok
<1>5. ASSUME NEW k \in 1..n PROVE Begins(d[k - 1].points, d[k].points)
  <2>1. Ok(k - 1)
    BY <1>4
  <2> QED
    BY <1>2, <2>1
<1>6. ASSUME NEW k \in 0..n PROVE d[k].points \in Seq(S)
  BY <1>4 DEF Ok
<1>7. ASSUME NEW j \in 0..n PROVE \A k \in j..n : Begins(d[j].points, d[k].points)
  <2> DEFINE Later(k) == Begins(d[j].points, d[k].points)
             Wrong == {k \in j..n : ~Later(k)}
  <2>1. Later(j)
    BY <1>6 DEF Begins
  <2>2. ASSUME NEW k \in j..n, k # j, Later(k - 1) PROVE Later(k)
    <3>1. k \in 1..n /\ j \in 0..n /\ k - 1 \in 0..n /\ k \in 0..n
      BY <2>2
    <3>2. PICK u : u = d[j].points
      OBVIOUS
    <3>3. PICK v : v = d[k - 1].points
      OBVIOUS
    <3>4. PICK w : w = d[k].points
      OBVIOUS
    <3>5. u \in Seq(S) /\ v \in Seq(S) /\ w \in Seq(S) /\ Begins(u, v) /\ Begins(v, w)
      BY <1>5, <1>6, <2>2, <3>1, <3>2, <3>3, <3>4
    <3>6. Begins(u, w)
      BY <3>5 DEF Begins
    <3> QED
      BY <3>2, <3>4, <3>6
  <2>3. Wrong = {}
    <3> SUFFICES ASSUME Wrong # {} PROVE FALSE
      OBVIOUS
    <3>1. PICK k \in Wrong : \A m \in Wrong : k <= m
      <4>1. Wrong \subseteq Nat
        OBVIOUS
      <4> HIDE DEF Wrong
      <4> QED
        BY <4>1, LeastNat
    <3>2. k \in j..n /\ ~Later(k) /\ k # j
      BY <2>1, <3>1
    <3>3. k - 1 \in j..n /\ ~(k <= k - 1)
      BY <3>2
    <3>4. Later(k - 1)
      BY <3>1, <3>3
    <3> QED
      BY <2>2, <3>2, <3>4
  <2> QED
    BY <2>3
<1> QED
  BY <1>6, <1>7

(* The newest bars a backtest knew, and what it made of them.              *)
NewestOf(run) == Newest(KnownBars(run.request, bars), BarKey)

LEMMA AnswerIs ==
  ASSUME RotationInv, NEW run \in runs, NEW last \in Nat, ReplaysTo(run, last)
  PROVE  /\ last - FirstDay + 1 \in Nat
         /\ DOMAIN run.request.calendar = 1 .. last - FirstDay + 1
         /\ \A k \in 1 .. last - FirstDay + 1 : run.request.calendar[k] = FirstDay + k - 1
         /\ run.answer.points = End(run.request, run.signals, NewestOf(run)).points
         /\ run.answer = Outcome(End(run.request, run.signals, NewestOf(run)))
<1>1. /\ FirstDay \in Nat /\ last >= FirstDay
      /\ run.request.calendar = CalendarTo(last)
  BY RotationDaysAssumption DEF ReplaysTo, RotationInv
<1>2. /\ run.answer # Failed /\ run.answer = Run(run.request, run.signals, bars, benchmark)
      /\ \A s \in run.signals : s.asOf <= run.request.asOf
  BY DEF RotationInv, RunInv, AnswersReplay
<1>3. KnownSignals(run.request, run.signals) = run.signals
  BY <1>2 DEF KnownSignals
<1>4. run.answer = Outcome(End(run.request, run.signals, NewestOf(run)))
  BY <1>2, <1>3, RunIs DEF RunOn, NewestOf
<1>5. PICK end : end = End(run.request, run.signals, NewestOf(run))
  OBVIOUS
<1>6. run.answer.points = end.points
  BY <1>2, <1>4, <1>5 DEF Outcome
<1> QED
  BY <1>1, <1>4, <1>5, <1>6 DEF CalendarTo

(* The targets of a day both backtests replay are the same.                *)
LEMMA SharedTargets ==
  ASSUME NEW a, NEW b, NEW lastA \in Nat, NEW lastB \in Nat,
         ReplaysTo(a, lastA), ReplaysTo(b, lastB),
         NEW k \in Nat, 1 <= k, k <= lastA - FirstDay + 1, k <= lastB - FirstDay + 1,
         day \in Nat
  PROVE  TargetOn(a.request, a.signals, k) = TargetOn(b.request, b.signals, k)
<1>1. /\ FirstDay \in Nat
      /\ a.request.calendar = CalendarTo(lastA) /\ b.request.calendar = CalendarTo(lastB)
  BY RotationDaysAssumption DEF ReplaysTo
<1>2. CASE k = 1
  BY <1>2, TargetIs DEF BatchOn
<1>3. CASE k # 1
  <2>1. PICK d \in Nat : d = FirstDay + (k - 1) - 1
    BY <1>1, <1>3
  <2>2. d < lastA /\ d < lastB
    BY <1>1, <2>1
  <2>3. a.request.calendar[k - 1] = d /\ b.request.calendar[k - 1] = d
    <3>1. k - 1 \in 1 .. lastA - FirstDay + 1 /\ k - 1 \in 1 .. lastB - FirstDay + 1
      BY <1>1, <1>3
    <3> QED
      BY <1>1, <2>1, <3>1 DEF CalendarTo
  <2>4. Batch(a.signals, d) = Batch(b.signals, d)
    BY <2>2 DEF ReplaysTo
  <2>5. BatchOn(a.request, a.signals, k) = BatchOn(b.request, b.signals, k)
    BY <1>3, <2>3, <2>4 DEF BatchOn
  <2> QED
    BY <2>5, TargetIs
<1> QED
  BY <1>2, <1>3

(* The shorter of two backtests that knew the same of their shared days is *)
(* the beginning of the longer one.                                        *)
LEMMA ShorterBegins ==
  ASSUME RotationInv, NEW a \in runs, NEW b \in runs,
         NEW lastA \in Nat, NEW lastB \in Nat, lastA <= lastB,
         ReplaysTo(a, lastA), ReplaysTo(b, lastB),
         SameDays(a, b, DaysOf(a.request) \cap DaysOf(b.request))
  PROVE  \E S, T : /\ a.answer.points \in Seq(S) /\ b.answer.points \in Seq(T)
                   /\ Begins(a.answer.points, b.answer.points)
<1> DEFINE n == lastA - FirstDay + 1
           m == lastB - FirstDay + 1
<1>1. /\ n \in Nat /\ DOMAIN a.request.calendar = 1..n
      /\ \A k \in 1..n : a.request.calendar[k] = FirstDay + k - 1
      /\ a.answer.points = End(a.request, a.signals, NewestOf(a)).points
  BY AnswerIs
<1>2. /\ m \in Nat /\ DOMAIN b.request.calendar = 1..m
      /\ \A k \in 1..m : b.request.calendar[k] = FirstDay + k - 1
      /\ b.answer.points = End(b.request, b.signals, NewestOf(b)).points
  BY AnswerIs
<1>3. n <= m /\ FirstDay \in Nat /\ day \in Nat
  BY RotationDaysAssumption DEF RotationInv
<1>4. PICK d : DayByDay(d, n, a.request, a.signals, NewestOf(a))
  BY <1>1, DaysSteps
<1>5. PICK e : DayByDay(e, m, b.request, b.signals, NewestOf(b))
  BY <1>2, DaysSteps
<1> DEFINE shared == DaysOf(a.request) \cap DaysOf(b.request)
<1>6. OnlyDays(NewestOf(a), shared) = OnlyDays(NewestOf(b), shared)
  BY DEF SameDays, OnlyDays, NewestOf
<1>7. ASSUME NEW k \in 1..n, NEW run
      PROVE  Simulated(a.request, a.signals, NewestOf(a), run, k)
               = Simulated(b.request, b.signals, NewestOf(b), run, k)
  <2>1. PICK c : c = a.request.calendar[k]
    OBVIOUS
  <2>2. k \in 1..m /\ b.request.calendar[k] = c
    <3>1. k \in 1..m
      BY <1>1, <1>2, <1>3
    <3>2. a.request.calendar[k] = FirstDay + k - 1
      BY <1>1
    <3>3. b.request.calendar[k] = FirstDay + k - 1
      BY <1>2, <3>1
    <3> QED
      BY <2>1, <3>1, <3>2, <3>3
  <2>3. c \in shared
    BY <1>1, <1>2, <2>1, <2>2 DEF DaysOf, ToSet
  <2> HIDE DEF shared
  <2>4. \A field : PriceOf(NewestOf(a), c, field) = PriceOf(NewestOf(b), c, field)
    BY <1>6, <2>3, PriceReadsDay
  <2>5. TargetOn(a.request, a.signals, k) = TargetOn(b.request, b.signals, k)
    BY <1>3, <2>2, SharedTargets
  <2> QED
    BY <2>1, <2>2, <2>4, <2>5, SameDay
<1> DEFINE Bad == {k \in 0..n : d[k] # e[k]}
<1>8. Bad = {}
  <2>1. Bad \subseteq Nat
    OBVIOUS
  <2> SUFFICES ASSUME Bad # {} PROVE FALSE
    OBVIOUS
  <2>2. PICK k \in Bad : \A j \in Bad : k <= j
    <3> HIDE DEF Bad
    <3> QED
      BY <2>1, LeastNat
  <2>3. d[0] = e[0]
    <3>1. a.request.nav = b.request.nav
      BY DEF RotationInv, RunInv
    <3> QED
      BY <1>4, <1>5, <3>1 DEF DayByDay, Start
  <2>4. k \in 1..n /\ k \in 1..m /\ d[k - 1] = e[k - 1]
    <3>1. k \in 1..n /\ k - 1 \in 0..n /\ ~(k <= k - 1)
      BY <1>1, <2>2, <2>3
    <3> QED
      BY <1>1, <1>2, <1>3, <2>2, <3>1
  <2>5. /\ d[k] = Simulated(a.request, a.signals, NewestOf(a), d[k - 1], k)
        /\ e[k] = Simulated(b.request, b.signals, NewestOf(b), e[k - 1], k)
    BY <1>4, <1>5, <2>4 DEF DayByDay
  <2> QED
    BY <1>7, <2>2, <2>4, <2>5
<1>9. d[n] = e[n]
  BY <1>1, <1>8
<1>10. PICK S : \A k \in 0..n : d[k].points \in Seq(S)
  BY <1>1, <1>4, PointsGrow
<1>11. PICK T : /\ \A k \in 0..m : e[k].points \in Seq(T)
                /\ \A j \in 0..m : \A k \in j..m : Begins(e[j].points, e[k].points)
  BY <1>2, <1>5, PointsGrow
<1>12. a.answer.points = d[n].points /\ b.answer.points = e[m].points
  BY <1>1, <1>2, <1>4, <1>5 DEF DayByDay
<1>13. n \in 0..n /\ n \in 0..m /\ m \in n..m /\ m \in 0..m
  BY <1>1, <1>2, <1>3
<1> HIDE DEF n, m
<1>14. a.answer.points \in Seq(S) /\ b.answer.points \in Seq(T)
  BY <1>10, <1>11, <1>12, <1>13
<1>15. Begins(e[n].points, e[m].points)
  BY <1>11, <1>13
<1>16. Begins(a.answer.points, b.answer.points)
  BY <1>9, <1>12, <1>15
<1> QED
  BY <1>14, <1>16

Agree(s, t) ==
  LET count == Min({Len(s), Len(t)})
  IN  SubSeq(s, 1, count) = SubSeq(t, 1, count)

LEMMA BeginningsAgree ==
  ASSUME NEW S, NEW T, NEW s \in Seq(S), NEW t \in Seq(T), Begins(s, t)
  PROVE  Agree(s, t) /\ Agree(t, s)
<1>1. Len(s) \in Nat /\ Len(t) \in Nat /\ Len(s) <= Len(t)
  BY DEF Begins
<1>2. {Len(t), Len(s)} = {Len(s), Len(t)}
  OBVIOUS
<1>3. Min({Len(s), Len(t)}) = Len(s)
  <2>1. PICK least : least = Min({Len(s), Len(t)})
    OBVIOUS
  <2>2. \E x \in {Len(s), Len(t)} : \A y \in {Len(s), Len(t)} : x <= y
    BY <1>1
  <2>3. least \in {Len(s), Len(t)} /\ \A y \in {Len(s), Len(t)} : least <= y
    BY <2>1, <2>2 DEF Min
  <2> QED
    BY <1>1, <2>1, <2>3
<1>4. SubSeq(s, 1, Len(s)) = SubSeq(t, 1, Len(s))
  BY <1>1 DEF Begins
<1> QED
  BY <1>2, <1>3, <1>4 DEF Agree

LEMMA NothingReachesBack == RotationInv => NoDayReachesBack
<1> SUFFICES ASSUME RotationInv, NEW a \in runs, NEW b \in runs,
                    SameDays(a, b, DaysOf(a.request) \cap DaysOf(b.request))
             PROVE  Agree(a.answer.points, b.answer.points)
  BY DEF NoDayReachesBack, Agree
<1>1. PICK lastA \in Nat : ReplaysTo(a, lastA)
  BY DEF RotationInv, RunInv
<1>2. PICK lastB \in Nat : ReplaysTo(b, lastB)
  BY DEF RotationInv, RunInv
<1>3. CASE lastA <= lastB
  <2>1. PICK S, T : /\ a.answer.points \in Seq(S) /\ b.answer.points \in Seq(T)
                    /\ Begins(a.answer.points, b.answer.points)
    BY <1>1, <1>2, <1>3, ShorterBegins
  <2> QED
    BY <2>1, BeginningsAgree
<1>4. CASE lastB <= lastA
  <2>1. SameDays(b, a, DaysOf(b.request) \cap DaysOf(a.request))
    <3>1. DaysOf(b.request) \cap DaysOf(a.request) = DaysOf(a.request) \cap DaysOf(b.request)
      OBVIOUS
    <3> QED
      BY <3>1 DEF SameDays
  <2>2. PICK S, T : /\ b.answer.points \in Seq(S) /\ a.answer.points \in Seq(T)
                    /\ Begins(b.answer.points, a.answer.points)
    BY <1>1, <1>2, <1>4, <2>1, ShorterBegins
  <2> QED
    BY <2>2, BeginningsAgree
<1> QED
  BY <1>3, <1>4

(***************************************************************************)
(* No look-ahead: of two finished backtests of this strategy that knew the *)
(* same bars of the days they share, the shorter one's points are the      *)
(* first points of the longer one: what happens on later days changes no   *)
(* value of an earlier day (vectorized.py, "a signal can only execute at   *)
(* the next session's open").                                              *)
(***************************************************************************)
THEOREM NoDayEverReachesBack == Spec => []NoDayReachesBack
BY RotationStaysSound, NothingReachesBack, PTL

-----------------------------------------------------------------------------
(* The arithmetic of a rebalance.                                          *)

LEMMA DivInt == ASSUME NEW a \in Int, NEW b \in Nat \ {0} PROVE a \div b \in Int
OBVIOUS

LEMMA DivRest ==
  ASSUME NEW a \in Int, NEW b \in Nat \ {0}
  PROVE  a % b \in 0 .. b - 1 /\ a = (a \div b) * b + (a % b)
OBVIOUS

(* x is n / d up to half a unit.                                           *)
Near(x, n, d) == x \in Int /\ -d <= 2 * (x * d - n) /\ 2 * (x * d - n) <= d

LEMMA RoundedNear ==
  ASSUME NEW n \in Int, NEW d \in Nat \ {0}
  PROVE  Near(Rounded(n, d), n, d) /\ (n >= 0 => Rounded(n, d) >= 0)
<1> DEFINE q == n \div d
           r == n % d
<1>1. q \in Int /\ r \in 0 .. d - 1 /\ n = q * d + r
  BY DivInt, DivRest
<1>2. \/ Rounded(n, d) = q /\ 2 * r <= d
      \/ Rounded(n, d) = q + 1 /\ 2 * r >= d
  <2>1. Rounded(n, d) = IF 2 * r > d \/ (2 * r = d /\ q % 2 = 1) THEN q + 1 ELSE q
    BY DEF Rounded
  <2> HIDE DEF q, r
  <2> QED
    BY <1>1, <2>1
<1>3. n >= 0 => q >= 0
  <2> SUFFICES ASSUME n >= 0, q <= -1 PROVE FALSE
    BY <1>1
  <2> HIDE DEF q, r
  <2>1. (q + 1) * d = q * d + d
    BY <1>1
  <2>2. (q + 1) * d <= 0
    BY <1>1
  <2>3. q * d \in Int
    BY <1>1
  <2> QED
    BY <1>1, <2>1, <2>2, <2>3
<1> HIDE DEF q, r
<1>4. (q + 1) * d = q * d + d /\ q * d \in Int
  BY <1>1
<1> QED
  BY <1>1, <1>2, <1>3, <1>4 DEF Near

(* What a purchase loses in value: the notional is rounded to a quantity   *)
(* and the holding's value is rounded before and after.                    *)
LEMMA LotsRound ==
  ASSUME NEW u \in Int, NEW n \in Int, NEW p \in Nat \ {0}
  PROVE  /\ Quantity(n, p) \in Int /\ Value(u, p) \in Int
         /\ Value(u + Quantity(n, p), p) \in Int
         /\ LET e == Value(u, p) - Value(u + Quantity(n, p), p) + n
            IN  /\ -(p + 2 * QuantityUnit) <= 2 * QuantityUnit * e
                /\ 2 * QuantityUnit * e <= p + 2 * QuantityUnit
<1>1. PICK unit \in Nat \ {0} : unit = QuantityUnit
  BY VectorBacktestAssumption
<1>2. PICK q : q = Quantity(n, p)
  OBVIOUS
<1>3. n * unit \in Int /\ Near(q, n * unit, p)
  BY <1>1, <1>2, RoundedNear DEF Quantity
<1>4. q \in Int
  BY <1>3 DEF Near
<1>5. PICK a : a = Value(u, p)
  OBVIOUS
<1>6. u * p \in Int /\ Near(a, u * p, unit)
  BY <1>1, <1>5, RoundedNear DEF Value
<1>7. PICK b : b = Value(u + q, p)
  OBVIOUS
<1>8. (u + q) * p \in Int /\ Near(b, (u + q) * p, unit)
  <2>1. u + q \in Int /\ (u + q) * p \in Int
    BY <1>4
  <2> QED
    BY <1>1, <1>7, <2>1, RoundedNear DEF Value
<1>9. a \in Int /\ b \in Int /\ (u + q) * p = u * p + q * p /\ q * p \in Int
  BY <1>4, <1>6, <1>8 DEF Near
<1>10. /\ -unit <= 2 * (a * unit - u * p) /\ 2 * (a * unit - u * p) <= unit
       /\ -unit <= 2 * (b * unit - (u * p + q * p)) /\ 2 * (b * unit - (u * p + q * p)) <= unit
       /\ -p <= 2 * (q * p - n * unit) /\ 2 * (q * p - n * unit) <= p
  BY <1>3, <1>6, <1>8, <1>9 DEF Near
<1>11. 2 * unit * (a - b + n) = 2 * (a * unit) - 2 * (b * unit) + 2 * (n * unit)
  <2>1. (a - b + n) * unit = a * unit - b * unit + n * unit
    BY <1>9
  <2>2. 2 * unit * (a - b + n) = 2 * ((a - b + n) * unit)
    BY <1>9
  <2>3. a * unit \in Int /\ b * unit \in Int /\ n * unit \in Int
    BY <1>9
  <2> QED
    BY <2>1, <2>2, <2>3
<1>12. /\ -(p + 2 * unit) <= 2 * unit * (a - b + n)
       /\ 2 * unit * (a - b + n) <= p + 2 * unit
  <2>1. PICK x \in Int : x = a * unit
    BY <1>9
  <2>2. PICK y \in Int : y = b * unit
    BY <1>9
  <2>3. PICK z \in Int : z = n * unit
    BY <1>9
  <2>4. PICK v \in Int : v = u * p
    BY <1>6
  <2>5. PICK w \in Int : w = q * p
    BY <1>9
  <2>6. /\ -unit <= 2 * (x - v) /\ 2 * (x - v) <= unit
        /\ -unit <= 2 * (y - (v + w)) /\ 2 * (y - (v + w)) <= unit
        /\ -p <= 2 * (w - z) /\ 2 * (w - z) <= p
    BY <1>10, <2>1, <2>2, <2>3, <2>4, <2>5
  <2>7. /\ -(p + 2 * unit) <= 2 * x - 2 * y + 2 * z
        /\ 2 * x - 2 * y + 2 * z <= p + 2 * unit
    BY <2>6
  <2> QED
    BY <1>11, <2>1, <2>2, <2>3, <2>7
<1> QED
  BY <1>1, <1>2, <1>4, <1>5, <1>7, <1>9, <1>12

LEMMA NothingIsWorthNothing ==
  ASSUME NEW p \in Nat \ {0}
  PROVE  Value(0, p) = 0
<1>1. PICK unit \in Nat \ {0} : unit = QuantityUnit
  BY VectorBacktestAssumption
<1>2. 0 * p = 0 /\ 0 \div unit = 0 /\ 0 % unit = 0
  BY <1>1
<1> QED
  BY <1>1, <1>2 DEF Value, Rounded

-----------------------------------------------------------------------------
(* What a rebalance makes of an account, for the prices of its day.        *)

Prices(price) ==
  /\ IsFiniteSet(DOMAIN price) /\ DOMAIN price \subseteq Nat
  /\ \A i \in DOMAIN price : price[i] \in Nat \ {0}

Account(at, price) ==
  /\ at.cash \in Int /\ at.fees \in Int
  /\ DOMAIN at.units \subseteq DOMAIN price
  /\ \A i \in DOMAIN at.units : at.units[i] \in Int

(* The value of every priced instrument in an account; its sum and the     *)
(* cash are what the account is worth.                                     *)
ValuesIn(at, price) == [i \in DOMAIN price |-> Value(Held(at, i), price[i])]

LEMMA HeldInt ==
  ASSUME NEW price, NEW at, Account(at, price), NEW i
  PROVE  Held(at, i) \in Int
BY DEF Account, Held

LEMMA ValuesInt ==
  ASSUME NEW price, Prices(price), NEW at, Account(at, price), NEW i \in DOMAIN price
  PROVE  /\ ValuesIn(at, price)[i] = Value(Held(at, i), price[i])
         /\ ValuesIn(at, price)[i] \in Int
<1>1. Held(at, i) \in Int /\ price[i] \in Nat \ {0} /\ 0 \in Int
  BY HeldInt DEF Prices
<1> QED
  BY <1>1, LotsRound DEF ValuesIn

LEMMA WorthSums ==
  ASSUME NEW at, NEW price, IsFiniteSet(DOMAIN at.units),
         NEW v, \A i \in DOMAIN at.units : v[i] = Value(at.units[i], price[i])
  PROVE  Worth(at, price) = at.cash + SumOver(v, DOMAIN at.units)
<1> DEFINE X == DOMAIN at.units
           h == CHOOSE g : g = [s \in SUBSET X |-> IF s = {} THEN 0 ELSE
                                  Value(at.units[Pick(s)], price[Pick(s)]) + g[s \ {Pick(s)}]]
<1>1. PICK g : Sums(v, X, g)
  BY IterExists
<1>2. \A s \in SUBSET X : s # {} => v[Pick(s)] = Value(at.units[Pick(s)], price[Pick(s)])
  BY DEF Pick
<1>3. g = [s \in SUBSET X |-> IF s = {} THEN 0 ELSE
             Value(at.units[Pick(s)], price[Pick(s)]) + g[s \ {Pick(s)}]]
  BY <1>1, <1>2 DEF Sums
<1>4. h = [s \in SUBSET X |-> IF s = {} THEN 0 ELSE
             Value(at.units[Pick(s)], price[Pick(s)]) + h[s \ {Pick(s)}]]
  BY <1>3
<1>5. Worth(at, price) = at.cash + h[X]
  BY DEF Worth, MapThenSumSet, MapThenFoldSet, Pick
<1> HIDE DEF h
<1>6. Sums(v, X, h)
  BY <1>4, <1>2 DEF Sums
<1> QED
  BY <1>5, <1>6, SumOverIs

LEMMA WorthIs ==
  ASSUME NEW price, Prices(price), NEW at, Account(at, price)
  PROVE  /\ Worth(at, price) = at.cash + SumOver(ValuesIn(at, price), DOMAIN price)
         /\ SumOver(ValuesIn(at, price), DOMAIN price) \in Int
         /\ Worth(at, price) \in Int
<1> DEFINE P == DOMAIN price
           U == DOMAIN at.units
           v == ValuesIn(at, price)
<1>1. IsFiniteSet(P) /\ U \subseteq P /\ \A i \in P : v[i] \in Int
  BY ValuesInt DEF Prices, Account
<1>2. \A i \in U : v[i] = Value(at.units[i], price[i])
  BY <1>1 DEF ValuesIn, Held
<1>3. \A i \in P \ U : v[i] = 0
  BY <1>1, NothingIsWorthNothing DEF ValuesIn, Held, Prices
<1>4. IsFiniteSet(U)
  BY <1>1, FS_Subset
<1> HIDE DEF P, v
<1>5. Worth(at, price) = at.cash + SumOver(v, U)
  BY <1>2, <1>4, WorthSums
<1> HIDE DEF U
<1>6. SumOver(v, P) = SumOver(v, U)
  BY <1>1, <1>3, SumRestrict
<1>7. SumOver(v, P) \in Int
  BY <1>1, SumType
<1>8. at.cash \in Int
  BY DEF Account
<1> QED
  BY <1>5, <1>6, <1>7, <1>8 DEF P, v

(* What may be missing between two accounts of one rebalance: as much for  *)
(* each instrument it touched as the roundings of LotsRound account for.   *)
Full(at, price) == Worth(at, price) + at.fees
Room(i, price) == price[i] + 2 * QuantityUnit
Within(x, most) == -most <= x /\ x <= most

Missing(e, touched, price) ==
  /\ e \in [DOMAIN price -> Int]
  /\ \A i \in DOMAIN price : i \in touched => Within(e[i], Room(i, price))
  /\ \A i \in DOMAIN price : i \notin touched => e[i] = 0

Drift(at, to, touched, price) ==
  \E e : /\ Missing(e, touched, price)
         /\ 2 * QuantityUnit * (Full(at, price) - Full(to, price)) = SumOver(e, DOMAIN price)

(* n is what flows from the cash into each instrument.                     *)
LEMMA FlowDrifts ==
  ASSUME NEW price, Prices(price), NEW at, Account(at, price), NEW to, Account(to, price),
         NEW n \in [DOMAIN price -> Int], NEW touched,
         to.cash + to.fees = at.cash + at.fees - SumOver(n, DOMAIN price),
         \A i \in DOMAIN price \cap touched :
            Within(2 * QuantityUnit * (ValuesIn(at, price)[i] - ValuesIn(to, price)[i] + n[i]),
                   Room(i, price)),
         \A i \in DOMAIN price \ touched :
            ValuesIn(at, price)[i] - ValuesIn(to, price)[i] + n[i] = 0
  PROVE  Drift(at, to, touched, price)
<1> DEFINE P == DOMAIN price
           c == 2 * QuantityUnit
<1>1. PICK v : v = ValuesIn(at, price)
  OBVIOUS
<1>2. PICK w : w = ValuesIn(to, price)
  OBVIOUS
<1> DEFINE g == [i \in P |-> v[i] - w[i] + n[i]]
           x == [i \in P |-> v[i] + n[i]]
           e == [i \in P |-> c * g[i]]
<1>3. IsFiniteSet(P) /\ c \in Int
  BY VectorBacktestAssumption DEF Prices
<1>4. \A i \in P : v[i] \in Int /\ w[i] \in Int /\ n[i] \in Int
  BY <1>1, <1>2, ValuesInt
<1>5. \A i \in P : x[i] = v[i] + n[i] /\ x[i] = w[i] + g[i] /\ g[i] \in Int
  BY <1>4
<1>6. \A i \in P : e[i] = c * g[i] /\ e[i] \in Int
  BY <1>3, <1>5
<1>7. e \in [P -> Int]
  BY <1>6
<1>8. \A i \in P : i \in touched => Within(e[i], Room(i, price))
  BY <1>1, <1>2
<1>9. \A i \in P : i \notin touched => e[i] = 0
  <2>1. \A i \in P : i \notin touched => g[i] = 0
    BY <1>1, <1>2
  <2> QED
    BY <1>3, <2>1
<1> HIDE DEF g, x, e
<1>10. SumOver(x, P) = SumOver(v, P) + SumOver(n, P)
  BY <1>3, <1>4, <1>5, SumPlus
<1>11. SumOver(x, P) = SumOver(w, P) + SumOver(g, P)
  BY <1>3, <1>4, <1>5, SumPlus
<1>12. SumOver(e, P) = c * SumOver(g, P)
  BY <1>3, <1>5, <1>6, SumTimes
<1>13. SumOver(v, P) \in Int /\ SumOver(w, P) \in Int /\ SumOver(n, P) \in Int /\ SumOver(g, P) \in Int
  BY <1>3, <1>4, <1>5, SumType
<1>14. Worth(at, price) = at.cash + SumOver(v, P) /\ Worth(to, price) = to.cash + SumOver(w, P)
  BY <1>1, <1>2, WorthIs
<1>15. at.cash \in Int /\ to.cash \in Int /\ at.fees \in Int /\ to.fees \in Int
  BY DEF Account
<1>16. Full(at, price) - Full(to, price) = SumOver(g, P)
  BY <1>10, <1>11, <1>13, <1>14, <1>15 DEF Full
<1>17. c * (Full(at, price) - Full(to, price)) = SumOver(e, P)
  BY <1>12, <1>16
<1>18. Missing(e, touched, price)
  BY <1>7, <1>8, <1>9 DEF Missing
<1> QED
  BY <1>17, <1>18 DEF Drift

(* Two steps that touch different instruments.                             *)
LEMMA DriftsAdd ==
  ASSUME NEW price, Prices(price), NEW at, NEW to, NEW then,
         Account(at, price), Account(to, price), Account(then, price),
         NEW S, NEW T, S \cap T = {}, Drift(at, to, S, price), Drift(to, then, T, price)
  PROVE  Drift(at, then, S \cup T, price)
<1> DEFINE P == DOMAIN price
           c == 2 * QuantityUnit
<1>1. PICK d : Missing(d, S, price) /\ c * (Full(at, price) - Full(to, price)) = SumOver(d, P)
  BY DEF Drift
<1>2. PICK e : Missing(e, T, price) /\ c * (Full(to, price) - Full(then, price)) = SumOver(e, P)
  BY DEF Drift
<1> DEFINE f == [i \in P |-> d[i] + e[i]]
<1>3. \A i \in P : d[i] \in Int /\ e[i] \in Int /\ f[i] = d[i] + e[i] /\ f[i] \in Int
  BY <1>1, <1>2 DEF Missing
<1>4. Missing(f, S \cup T, price)
  <2>1. f \in [P -> Int]
    BY <1>3
  <2>2. ASSUME NEW i \in P, i \in S PROVE f[i] = d[i] /\ Within(d[i], Room(i, price))
    BY <1>1, <1>2, <1>3, <2>2 DEF Missing
  <2>3. ASSUME NEW i \in P, i \in T PROVE f[i] = e[i] /\ Within(e[i], Room(i, price))
    BY <1>1, <1>2, <1>3, <2>3 DEF Missing
  <2>4. ASSUME NEW i \in P, i \notin S, i \notin T PROVE f[i] = 0
    BY <1>1, <1>2, <1>3, <2>4 DEF Missing
  <2> HIDE DEF f
  <2> QED
    BY <2>1, <2>2, <2>3, <2>4 DEF Missing
<1> HIDE DEF f
<1>5. SumOver(f, P) = SumOver(d, P) + SumOver(e, P)
  BY <1>3, SumPlus DEF Prices
<1>6. Full(at, price) \in Int /\ Full(to, price) \in Int /\ Full(then, price) \in Int /\ c \in Int
  BY WorthIs, VectorBacktestAssumption DEF Full, Account
<1>7. c * (Full(at, price) - Full(then, price)) = SumOver(f, P)
  <2>1. \A k, l \in Int : c * (k + l) = c * k + c * l
    BY <1>6
  <2>2. PICK k \in Int : k = Full(at, price) - Full(to, price)
    BY <1>6
  <2>3. PICK l \in Int : l = Full(to, price) - Full(then, price)
    BY <1>6
  <2>4. Full(at, price) - Full(then, price) = k + l
    BY <1>6, <2>2, <2>3
  <2> HIDE DEF c
  <2> QED
    BY <1>1, <1>2, <1>5, <2>1, <2>2, <2>3, <2>4
<1> QED
  BY <1>4, <1>7 DEF Drift

(* Nothing is missing of an account itself.                                *)
LEMMA NoDrift ==
  ASSUME NEW price, Prices(price), NEW at, Account(at, price)
  PROVE  Drift(at, at, {}, price)
<1> DEFINE e == [i \in DOMAIN price |-> 0]
<1>1. Missing(e, {}, price) /\ \A i \in DOMAIN price : e[i] = 0
  BY DEF Missing
<1> HIDE DEF e
<1>2. SumOver(e, DOMAIN price) = 0
  BY <1>1, SumZero DEF Prices
<1>3. Full(at, price) \in Int /\ 2 * QuantityUnit \in Int
  BY WorthIs, VectorBacktestAssumption DEF Full, Account
<1>4. 2 * QuantityUnit * (Full(at, price) - Full(at, price)) = 0
  BY <1>3
<1> QED
  BY <1>1, <1>2, <1>4 DEF Drift

(* So much may be missing in all.                                          *)
LEMMA DriftBound ==
  ASSUME NEW price, Prices(price), NEW at, NEW to, NEW S, S \subseteq DOMAIN price,
         Drift(at, to, S, price), NEW room, \A i \in S : room[i] = Room(i, price)
  PROVE  /\ SumOver(room, S) \in Nat
         /\ Within(2 * QuantityUnit * (Full(at, price) - Full(to, price)), SumOver(room, S))
<1> DEFINE P == DOMAIN price
<1>1. PICK e : /\ Missing(e, S, price)
               /\ 2 * QuantityUnit * (Full(at, price) - Full(to, price)) = SumOver(e, P)
  BY DEF Drift
<1>2. IsFiniteSet(P) /\ IsFiniteSet(S) /\ \A i \in P : e[i] \in Int
  BY <1>1, FS_Subset DEF Prices, Missing
<1>3. SumOver(e, P) = SumOver(e, S)
  <2>1. \A i \in P \ S : e[i] = 0
    BY <1>1 DEF Missing
  <2> QED
    BY <1>2, <2>1, SumRestrict
<1>4. \A i \in S : room[i] \in Nat /\ room[i] \in Int
  BY VectorBacktestAssumption DEF Prices, Room
<1>5. \A i \in S : -room[i] <= e[i] /\ e[i] <= room[i]
  BY <1>1 DEF Missing, Within
<1> DEFINE low == [i \in S |-> (-1) * room[i]]
<1>6. \A i \in S : low[i] = (-1) * room[i] /\ low[i] \in Int /\ low[i] <= e[i]
  BY <1>4, <1>5
<1> HIDE DEF low
<1>7. SumOver(low, S) = (-1) * SumOver(room, S)
  <2>1. -1 \in Int
    OBVIOUS
  <2> QED
    BY <1>2, <1>4, <1>6, <2>1, SumTimes
<1>8. SumOver(low, S) <= SumOver(e, S)
  BY <1>2, <1>6, SumBelow
<1>9. SumOver(e, S) <= SumOver(room, S)
  BY <1>2, <1>4, <1>5, SumBelow
<1>10. SumOver(room, S) \in Nat /\ SumOver(e, S) \in Int
  BY <1>2, <1>4, SumNat, SumType
<1>11. Within(SumOver(e, S), SumOver(room, S))
  BY <1>7, <1>8, <1>9, <1>10 DEF Within
<1> QED
  BY <1>1, <1>3, <1>10, <1>11

(* The fees of a day, where a rule is in force.                            *)
LEMMA LatestIn ==
  ASSUME NEW items, IsFiniteSet(items), \A i \in items : i.from \in Nat, NEW d,
         Latest(items, d) # Failed
  PROVE  Latest(items, d) \in items
<1> DEFINE known == {i \in items : AppliesOn(i, d)}
           v == [i \in known |-> i.from]
<1>1. known # {} /\ Latest(items, d) = CHOOSE i \in known : \A j \in known : j.from <= i.from
  BY DEF Latest
<1>2. IsFiniteSet(known) /\ known \subseteq items
  BY FS_Subset
<1>3. \A i \in known : v[i] = i.from /\ v[i] \in Nat
  BY <1>2
<1> HIDE DEF known, v
<1>4. \E i \in known : \A j \in known : v[j] <= v[i]
  BY <1>1, <1>2, <1>3, GreatestOf
<1>5. \E i \in known : \A j \in known : j.from <= i.from
  BY <1>3, <1>4
<1> QED
  BY <1>1, <1>2, <1>5

LEMMA HalfUpInt ==
  ASSUME NEW n \in Int, NEW u \in Nat \ {0}
  PROVE  HalfUp(n, PerCent * u) * u \in Int
<1>1. PerCent * u \in Nat \ {0}
  BY DEF PerCent
<1>2. PICK d \in Nat \ {0} : d = PerCent * u
  BY <1>1
<1>3. 2 * n + d \in Int /\ 2 * d \in Nat \ {0}
  BY <1>2
<1>4. HalfUp(n, d) \in Int
  BY <1>3, DivInt DEF HalfUp
<1> QED
  BY <1>2, <1>4

LEMMA FeeInt ==
  ASSUME NEW side \in Sides, NEW d, FeeKnown(side, d), NEW n \in Int
  PROVE  FeeFor(side, d, n) \in Int
<1>1. CASE FeeRules = Absent
  BY <1>1 DEF FeeFor
<1>2. CASE FeeRules # Absent
  <2>1. /\ FeeRules[side] \subseteq FeeRuleRecord /\ IsFiniteSet(FeeRules[side])
        /\ Latest(FeeRules[side], d) # Failed
    BY <1>2, VectorBacktestAssumption DEF FeeKnown
  <2>2. \A i \in FeeRules[side] : i.from \in Nat
    BY <2>1 DEF FeeRuleRecord
  <2>3. PICK rule : rule = Latest(FeeRules[side], d)
    OBVIOUS
  <2>4. rule \in FeeRuleRecord
    BY <2>1, <2>2, <2>3, LatestIn
  <2>5. /\ rule.unit \in Nat \ {0} /\ rule.commission \in Nat /\ rule.minimum \in Nat
        /\ rule.stamp \in Nat /\ rule.transfer \in Nat /\ rule.other \in Nat
    BY <2>4 DEF FeeRuleRecord
  <2>6. /\ n * rule.stamp \in Int /\ n * rule.transfer \in Int /\ n * rule.other \in Int
        /\ n * rule.commission \in Int /\ rule.minimum * PerCent \in Int
    BY <2>5 DEF PerCent
  <2>7. PICK most \in Int : most = Largest(n * rule.commission, rule.minimum * PerCent)
    BY <2>6 DEF Largest
  <2>8. /\ HalfUp(n * rule.stamp, PerCent * rule.unit) * rule.unit \in Int
        /\ HalfUp(n * rule.transfer, PerCent * rule.unit) * rule.unit \in Int
        /\ HalfUp(n * rule.other, PerCent * rule.unit) * rule.unit \in Int
        /\ HalfUp(most, PerCent * rule.unit) * rule.unit \in Int
    BY <2>5, <2>6, HalfUpInt
  <2>9. FeeOf(rule, n) \in Int
    BY <2>7, <2>8 DEF FeeOf
  <2> QED
    BY <1>2, <2>3, <2>9 DEF FeeFor
<1> QED
  BY <1>1, <1>2

-----------------------------------------------------------------------------
(* The sales.                                                              *)

Sells(change) == {i \in DOMAIN change : change[i] < 0}
SellFee(change, d, i) == FeeFor("SELL", d, -change[i])

LEMMA SoldUnits ==
  ASSUME NEW account, NEW change, NEW wanted, NEW price, NEW d,
         NEW sold, sold = Sold(account, change, wanted, price, d)
  PROVE  sold.units = [i \in DOMAIN account.units |->
                         IF i \in Sells(change) THEN Quantity(wanted[i], price[i])
                         ELSE account.units[i]]
BY DEF Sold, Sells

LEMMA SoldCash ==
  ASSUME NEW account, NEW change, NEW wanted, NEW price, NEW d, IsFiniteSet(Sells(change)),
         NEW sold, sold = Sold(account, change, wanted, price, d),
         NEW v, \A i \in Sells(change) : v[i] = -change[i] - SellFee(change, d, i)
  PROVE  sold.cash = account.cash + SumOver(v, Sells(change))
<1> DEFINE X == Sells(change)
           val(i) == -change[i] - FeeFor("SELL", d, -change[i])
           h == CHOOSE g : g = [s \in SUBSET X |-> IF s = {} THEN 0 ELSE
                                  val(Pick(s)) + g[s \ {Pick(s)}]]
<1>1. PICK g : Sums(v, X, g)
  BY IterExists
<1>2. \A s \in SUBSET X : s # {} => v[Pick(s)] = val(Pick(s))
  BY DEF Pick, SellFee
<1>3. sold.cash = account.cash + h[X]
  BY DEF Sold, Sells, MapThenSumSet, MapThenFoldSet, Pick
<1> HIDE DEF X, val
<1>4. g = [s \in SUBSET X |-> IF s = {} THEN 0 ELSE val(Pick(s)) + g[s \ {Pick(s)}]]
  BY <1>1, <1>2 DEF Sums
<1>5. h = [s \in SUBSET X |-> IF s = {} THEN 0 ELSE val(Pick(s)) + h[s \ {Pick(s)}]]
  BY <1>4
<1> HIDE DEF h
<1>6. Sums(v, X, h)
  BY <1>5, <1>2 DEF Sums
<1>7. IsFiniteSet(X)
  BY DEF X
<1> QED
  BY <1>3, <1>6, <1>7, SumOverIs DEF X

LEMMA SoldFees ==
  ASSUME NEW account, NEW change, NEW wanted, NEW price, NEW d, IsFiniteSet(Sells(change)),
         NEW sold, sold = Sold(account, change, wanted, price, d),
         NEW v, \A i \in Sells(change) : v[i] = SellFee(change, d, i)
  PROVE  sold.fees = SumOver(v, Sells(change))
<1> DEFINE X == Sells(change)
           val(i) == FeeFor("SELL", d, -change[i])
           h == CHOOSE g : g = [s \in SUBSET X |-> IF s = {} THEN 0 ELSE
                                  val(Pick(s)) + g[s \ {Pick(s)}]]
<1>1. PICK g : Sums(v, X, g)
  BY IterExists
<1>2. \A s \in SUBSET X : s # {} => v[Pick(s)] = val(Pick(s))
  BY DEF Pick, SellFee
<1>3. sold.fees = h[X]
  BY DEF Sold, Sells, MapThenSumSet, MapThenFoldSet, Pick
<1> HIDE DEF X, val
<1>4. g = [s \in SUBSET X |-> IF s = {} THEN 0 ELSE val(Pick(s)) + g[s \ {Pick(s)}]]
  BY <1>1, <1>2 DEF Sums
<1>5. h = [s \in SUBSET X |-> IF s = {} THEN 0 ELSE val(Pick(s)) + h[s \ {Pick(s)}]]
  BY <1>4
<1> HIDE DEF h
<1>6. Sums(v, X, h)
  BY <1>5, <1>2 DEF Sums
<1>7. IsFiniteSet(X)
  BY DEF X
<1> QED
  BY <1>3, <1>6, <1>7, SumOverIs DEF X

(* A sale moves what the plan says into the cash, less the fee, and leaves *)
(* the rounded quantity that was wanted.                                   *)
SalesPlan(account, wanted, price, d) ==
  /\ Prices(price) /\ Account(account, price) /\ account.fees = 0
  /\ DOMAIN account.units \subseteq DOMAIN wanted /\ DOMAIN wanted \subseteq DOMAIN price
  /\ \A i \in DOMAIN wanted : wanted[i] \in Int /\ wanted[i] >= 0
  /\ Sells(Change(account, wanted, price)) # {} => FeeKnown("SELL", d)

LEMMA SellsAreHeld ==
  ASSUME NEW account, NEW wanted, NEW price, NEW d, SalesPlan(account, wanted, price, d),
         NEW change, change = Change(account, wanted, price)
  PROVE  /\ Sells(change) \subseteq DOMAIN account.units /\ IsFiniteSet(Sells(change))
         /\ DOMAIN change = DOMAIN wanted
         /\ \A i \in DOMAIN wanted :
              /\ change[i] = wanted[i] - ValuesIn(account, price)[i]
              /\ change[i] \in Int
<1>1. ASSUME NEW i \in DOMAIN wanted
      PROVE  /\ i \in DOMAIN price /\ wanted[i] \in Int /\ wanted[i] >= 0
             /\ change[i] = wanted[i] - ValuesIn(account, price)[i]
             /\ ValuesIn(account, price)[i] \in Int
  BY ValuesInt DEF SalesPlan, Change
<1>2. ASSUME NEW i \in DOMAIN wanted, i \notin DOMAIN account.units
      PROVE  ~(change[i] < 0)
  <2>1. price[i] \in Nat \ {0} /\ Held(account, i) = 0
    BY <1>1, <1>2 DEF SalesPlan, Prices, Held
  <2>2. ValuesIn(account, price)[i] = 0
    BY <1>1, <2>1, NothingIsWorthNothing DEF ValuesIn
  <2> QED
    BY <1>1, <2>2
<1>3. DOMAIN change = DOMAIN wanted
  BY DEF Change
<1>4. Sells(change) \subseteq DOMAIN account.units
  BY <1>2, <1>3 DEF Sells
<1>5. IsFiniteSet(DOMAIN price) /\ Sells(change) \subseteq DOMAIN price
  BY <1>4 DEF SalesPlan, Prices, Account
<1>6. IsFiniteSet(Sells(change))
  BY <1>5, FS_Subset
<1> QED
  BY <1>1, <1>3, <1>4, <1>6

LEMMA SoldDrifts ==
  ASSUME NEW account, NEW wanted, NEW price, NEW d, SalesPlan(account, wanted, price, d),
         NEW change, change = Change(account, wanted, price),
         NEW sold, sold = Sold(account, change, wanted, price, d)
  PROVE  /\ Account(sold, price) /\ DOMAIN sold.units = DOMAIN account.units
         /\ Drift(account, sold, Sells(change), price)
<1> DEFINE P == DOMAIN price
           S == Sells(change)
           n == [i \in P |-> IF i \in S THEN change[i] ELSE 0]
           f == [i \in S |-> SellFee(change, d, i)]
           v == [i \in S |-> -change[i] - f[i]]
           m == [i \in S |-> -change[i]]
<1>1. /\ S \subseteq DOMAIN account.units /\ IsFiniteSet(S)
      /\ \A i \in S : i \in DOMAIN wanted /\ change[i] \in Int
      /\ \A i \in DOMAIN wanted : change[i] = wanted[i] - ValuesIn(account, price)[i]
  BY SellsAreHeld DEF Sells
<1>2. /\ Prices(price) /\ Account(account, price) /\ account.fees = 0
      /\ IsFiniteSet(P) /\ S \subseteq P /\ DOMAIN account.units \subseteq P
      /\ account.cash \in Int
      /\ \A i \in DOMAIN account.units : account.units[i] \in Int
  BY <1>1 DEF SalesPlan, Account, Prices
<1>3. \A i \in S : f[i] = SellFee(change, d, i) /\ f[i] \in Int
  <2>1. ASSUME NEW i \in S PROVE SellFee(change, d, i) \in Int
    <3>1. FeeKnown("SELL", d) /\ -change[i] \in Int /\ "SELL" \in Sides
      BY <1>1, <2>1 DEF SalesPlan, Sides
    <3> QED
      BY <3>1, FeeInt DEF SellFee
  <2> QED
    BY <2>1
<1>4. \A i \in S : /\ v[i] = -change[i] - SellFee(change, d, i) /\ v[i] \in Int
                   /\ m[i] = -change[i] /\ m[i] \in Int /\ m[i] = v[i] + f[i]
                   /\ m[i] = (-1) * n[i]
  BY <1>1, <1>2, <1>3
<1>5. \A i \in P : /\ n[i] \in Int
                   /\ i \in S => n[i] = change[i]
                   /\ i \notin S => n[i] = 0
  BY <1>1
<1>6. n \in [P -> Int]
  BY <1>5
<1> HIDE DEF n, f, v, m
<1>7. sold.cash = account.cash + SumOver(v, S)
  <2>1. \A i \in Sells(change) : v[i] = -change[i] - SellFee(change, d, i)
    BY <1>4
  <2> QED
    BY <1>1, <2>1, SoldCash
<1>8. sold.fees = SumOver(f, S)
  <2>1. \A i \in Sells(change) : f[i] = SellFee(change, d, i)
    BY <1>3
  <2> QED
    BY <1>1, <2>1, SoldFees
<1>9. sold.units = [i \in DOMAIN account.units |->
                      IF i \in S THEN Quantity(wanted[i], price[i]) ELSE account.units[i]]
  BY SoldUnits
<1>10. SumOver(m, S) = SumOver(v, S) + SumOver(f, S)
  BY <1>1, <1>3, <1>4, SumPlus
<1>11. SumOver(m, S) = (-1) * SumOver(n, S)
  <2>1. \A i \in S : n[i] \in Int /\ m[i] = (-1) * n[i]
    BY <1>2, <1>4, <1>5
  <2>2. -1 \in Int
    OBVIOUS
  <2> QED
    BY <1>1, <2>1, <2>2, SumTimes
<1>12. SumOver(n, P) = SumOver(n, S)
  BY <1>2, <1>5, SumRestrict
<1>13. SumOver(v, S) \in Int /\ SumOver(f, S) \in Int /\ SumOver(n, S) \in Int
  BY <1>1, <1>2, <1>3, <1>4, <1>5, SumType
<1>14. sold.cash + sold.fees = account.cash + account.fees - SumOver(n, P)
  BY <1>2, <1>7, <1>8, <1>10, <1>11, <1>12, <1>13
<1>15. ASSUME NEW i \in S
       PROVE  /\ Quantity(wanted[i], price[i]) \in Int
              /\ Within(2 * QuantityUnit *
                          (wanted[i] - Value(Quantity(wanted[i], price[i]), price[i])),
                        Room(i, price))
  <2>1. wanted[i] \in Int /\ price[i] \in Nat \ {0} /\ 0 \in Int
    BY <1>1, <1>2 DEF SalesPlan, Prices
  <2>2. PICK p \in Nat \ {0} : p = price[i]
    BY <2>1
  <2>3. PICK w \in Int : w = wanted[i]
    BY <2>1
  <2>4. PICK q \in Int : q = Quantity(w, p)
    BY <2>1, LotsRound
  <2>5. Value(0, p) = 0
    BY NothingIsWorthNothing
  <2>6. /\ Value(0 + q, p) \in Int
        /\ -(p + 2 * QuantityUnit) <= 2 * QuantityUnit * (Value(0, p) - Value(0 + q, p) + w)
        /\ 2 * QuantityUnit * (Value(0, p) - Value(0 + q, p) + w) <= p + 2 * QuantityUnit
    BY <2>1, <2>4, LotsRound
  <2>7. 0 + q = q
    OBVIOUS
  <2>8. PICK a \in Int : a = Value(q, p)
    BY <2>6, <2>7
  <2>9. Value(0, p) - Value(0 + q, p) + w = w - a
    BY <2>5, <2>7, <2>8
  <2> QED
    BY <2>2, <2>3, <2>4, <2>6, <2>8, <2>9 DEF Within, Room
<1>16. Account(sold, price) /\ DOMAIN sold.units = DOMAIN account.units
  <2>1. DOMAIN sold.units = DOMAIN account.units
    BY <1>9
  <2>2. \A i \in DOMAIN sold.units : sold.units[i] \in Int
    BY <1>2, <1>9, <1>15
  <2>3. sold.cash \in Int /\ sold.fees \in Int
    BY <1>2, <1>7, <1>8, <1>13
  <2> QED
    BY <1>2, <2>1, <2>2, <2>3 DEF Account
<1>17. ASSUME NEW i \in P
       PROVE  /\ i \in S => ValuesIn(sold, price)[i] = Value(Quantity(wanted[i], price[i]), price[i])
              /\ i \notin S => ValuesIn(sold, price)[i] = ValuesIn(account, price)[i]
  BY <1>1, <1>9 DEF ValuesIn, Held
<1>18. \A i \in P \cap S :
          Within(2 * QuantityUnit * (ValuesIn(account, price)[i] - ValuesIn(sold, price)[i] + n[i]),
                 Room(i, price))
  <2> TAKE i \in P \cap S
  <2>1. PICK a \in Int : a = ValuesIn(account, price)[i]
    BY <1>2, ValuesInt
  <2>2. PICK b \in Int : b = ValuesIn(sold, price)[i]
    BY <1>2, <1>16, ValuesInt
  <2>3. wanted[i] \in Int /\ n[i] = wanted[i] - a
    BY <1>1, <1>5, <2>1 DEF SalesPlan
  <2>4. a - b + n[i] = wanted[i] - b
    BY <2>3
  <2>5. b = Value(Quantity(wanted[i], price[i]), price[i])
    BY <1>17, <2>2
  <2> QED
    BY <1>15, <2>1, <2>2, <2>4, <2>5
<1>19. \A i \in P \ S : ValuesIn(account, price)[i] - ValuesIn(sold, price)[i] + n[i] = 0
  BY <1>2, <1>5, <1>17, ValuesInt
<1>20. Drift(account, sold, S, price)
  BY <1>2, <1>6, <1>14, <1>16, <1>18, <1>19, FlowDrifts
<1> QED
  BY <1>16, <1>20

-----------------------------------------------------------------------------
(* The purchases, one by one in the order of the instruments.              *)

(* The instrument of every place in the order, and no instrument twice.    *)
LEMMA OrderVisits ==
  ASSUME NEW B, IsFiniteSet(B), B \subseteq Nat, NEW n, n = Cardinality(B)
  PROVE  /\ n \in Nat /\ DOMAIN InOrder(B) = 1..n
         /\ \A k \in 1..n : InOrder(B)[k] \in B
         /\ \A j, k \in 1..n : InOrder(B)[j] = InOrder(B)[k] => j = k
<1> DEFINE below(i) == {j \in B : j < i}
           rank == [i \in B |-> Cardinality(below(i))]
<1>1. n \in Nat
  BY FS_CardinalityType
<1>2. ASSUME NEW i \in B PROVE IsFiniteSet(below(i)) /\ rank[i] \in 0 .. n - 1
  <2>1. below(i) \subseteq B /\ i \notin below(i)
    OBVIOUS
  <2>2. IsFiniteSet(below(i)) /\ Cardinality(below(i)) <= n /\ Cardinality(below(i)) # n
    BY <2>1, FS_Subset
  <2>3. Cardinality(below(i)) \in Nat
    BY <2>2, FS_CardinalityType
  <2>4. Cardinality(below(i)) \in 0 .. n - 1
    BY <1>1, <2>2, <2>3
  <2> QED
    BY <2>2, <2>4
<1>3. ASSUME NEW i \in B, NEW j \in B, i < j PROVE rank[i] # rank[j]
  <2>1. below(i) \subseteq below(j) /\ i \in below(j) /\ i \notin below(i)
    <3>1. i \in Int /\ j \in Int /\ \A k \in B : k \in Int
      OBVIOUS
    <3>2. \A k \in B : k < i => k < j
      BY <1>3, <3>1
    <3>3. ~(i < i)
      BY <3>1
    <3> QED
      BY <1>3, <3>2, <3>3
  <2>2. IsFiniteSet(below(j))
    BY <1>2
  <2> HIDE DEF below
  <2>3. Cardinality(below(i)) # Cardinality(below(j))
    BY <2>1, <2>2, FS_Subset
  <2> QED
    BY <2>3
<1>4. \A i, j \in B : rank[i] = rank[j] => i = j
  <2> TAKE i, j \in B
  <2>1. i \in Nat /\ j \in Nat
    OBVIOUS
  <2>2. i = j \/ i < j \/ j < i
    BY <2>1
  <2> QED
    BY <1>3, <2>2
<1> HIDE DEF rank
<1>5. ASSUME NEW k \in 1..n PROVE \E i \in B : rank[i] = k - 1
  <2> SUFFICES ASSUME \A i \in B : rank[i] # k - 1 PROVE FALSE
    OBVIOUS
  <2> DEFINE T == (0 .. n - 1) \ {k - 1}
  <2>1. IsFiniteSet(0 .. n - 1) /\ Cardinality(0 .. n - 1) = n
    <3>1. 0 \in Int /\ n - 1 \in Int /\ ~(0 > n - 1) /\ (n - 1) - 0 + 1 = n
      BY <1>1
    <3> QED
      BY <3>1, FS_Interval
  <2>2. k - 1 \in 0 .. n - 1
    BY <1>1
  <2>3. IsFiniteSet(T) /\ Cardinality(T) = n - 1
    BY <2>1, <2>2, FS_RemoveElement
  <2>4. \A i \in B : rank[i] \in T
    BY <1>2
  <2> HIDE DEF T
  <2> DEFINE f == [i \in B |-> rank[i]]
  <2>5. f \in [B -> T] /\ \A i \in B : f[i] = rank[i]
    BY <2>4
  <2> HIDE DEF f
  <2>6. f \in Injection(B, T)
    BY <1>4, <2>5 DEF Injection, IsInjective
  <2>7. Cardinality(B) <= Cardinality(T)
    BY <2>3, <2>6, FS_Injection
  <2> QED
    BY <1>1, <2>3, <2>7
<1>6. DOMAIN InOrder(B) = 1..n
  BY DEF InOrder
<1>7. ASSUME NEW k \in 1..n PROVE InOrder(B)[k] \in B /\ rank[InOrder(B)[k]] = k - 1
  <2>1. InOrder(B)[k] = CHOOSE i \in B : Cardinality(below(i)) = k - 1
    BY DEF InOrder
  <2>2. \E i \in B : Cardinality(below(i)) = k - 1
    BY <1>5 DEF rank
  <2> HIDE DEF below
  <2>3. InOrder(B)[k] \in B /\ Cardinality(below(InOrder(B)[k])) = k - 1
    BY <2>1, <2>2
  <2> QED
    BY <2>3 DEF rank
<1> QED
  BY <1>1, <1>6, <1>7

BuyOne(at, i, wanted, price, d) ==
  LET most     == at.cash - FeeFor("BUY", d, wanted[i])
      notional == Min({wanted[i], most})
      quantity == Held(at, i) + Quantity(notional, price[i])
      fee      == FeeFor("BUY", d, notional)
  IN  IF at = Failed \/ wanted[i] = 0 THEN at
      ELSE IF most <= 0 THEN Failed
      ELSE [cash |-> at.cash - notional - fee,
            units |-> [j \in DOMAIN at.units \cup {i} |->
                         IF j = i THEN quantity ELSE at.units[j]],
            fees |-> at.fees + fee]

(* a is the account after 0, 1, .. n purchases.                            *)
OneByOne(d, n, ord, account, wanted, price, day0) ==
  /\ d[0] = account
  /\ \A k \in 1..n : d[k] = BuyOne(d[k - 1], ord[k], wanted, price, day0)
  /\ Purchased(account, wanted, price, day0) = d[n]

LEMMA PurchaseSteps ==
  ASSUME NEW account, NEW wanted, NEW price, NEW day0,
         NEW ord, ord = InOrder(DOMAIN wanted), NEW n \in Nat, DOMAIN ord = 1..n
  PROVE  \E d : OneByOne(d, n, ord, account, wanted, price, day0)
<1> DEFINE Top(s) == Max(s)
           Step(s, h) == BuyOne(h[s \ {Top(s)}], ord[Top(s)], wanted, price, day0)
           D(m) == {T \in SUBSET (1..n) : Cardinality(T) \in 0..m}
           Good(m) == \E h : h = [s \in D(m) |-> IF s = {} THEN account ELSE Step(s, h)]
           Bad == {m \in Nat : ~Good(m)}
           G(o) == CHOOSE h : h = [s \in SUBSET (DOMAIN o) |->
                     IF s = {} THEN account
                     ELSE BuyOne(h[s \ {Top(s)}], o[Top(s)], wanted, price, day0)]
           g == G(ord)
<1>1. n \in Nat /\ DOMAIN ord = 1..n /\ IsFiniteSet(1..n) /\ Cardinality(1..n) \in Nat
  BY FS_Interval, FS_CardinalityType
<1>2. ASSUME NEW s \in SUBSET (1..n), s # {}
      PROVE  Top(s) \in s /\ Cardinality(s \ {Top(s)}) = Cardinality(s) - 1 /\ Cardinality(s) \in Nat
  <2>1. Top(s) \in s
    BY <1>1, <1>2, GreatestIn
  <2>2. IsFiniteSet(s)
    BY <1>1, FS_Subset
  <2> HIDE DEF Top
  <2> QED
    BY <2>1, <2>2, FS_RemoveElement, FS_CardinalityType
<1> HIDE DEF Top
<1>3. Good(0)
  <2> DEFINE h == [s \in D(0) |-> account]
  <2>1. ASSUME NEW s \in D(0) PROVE s = {}
    <3>1. s \in SUBSET (1..n) /\ Cardinality(s) = 0
      OBVIOUS
    <3>2. IsFiniteSet(s)
      BY <1>1, <3>1, FS_Subset
    <3> QED
      BY <3>1, <3>2, FS_EmptySet
  <2>2. h = [s \in D(0) |-> IF s = {} THEN account ELSE Step(s, h)]
    BY <2>1
  <2> QED
    BY <2>2
<1>4. ASSUME NEW m \in Nat, Good(m) PROVE Good(m + 1)
  <2>1. PICK u : u = [s \in D(m) |-> IF s = {} THEN account ELSE Step(s, u)]
    BY <1>4
  <2> DEFINE h == [s \in D(m + 1) |-> IF s = {} THEN account ELSE Step(s, u)]
  <2>2. ASSUME NEW s \in D(m) PROVE s \in D(m + 1) /\ h[s] = u[s]
    <3>1. s \in D(m + 1)
      OBVIOUS
    <3> QED
      BY <2>1, <3>1
  <2>3. ASSUME NEW s \in D(m + 1), s # {} PROVE s \ {Top(s)} \in D(m)
    <3>1. s \in SUBSET (1..n) /\ Cardinality(s) \in 0..(m + 1)
      OBVIOUS
    <3> DEFINE rest == s \ {Top(s)}
    <3>2. Top(s) \in s /\ Cardinality(rest) = Cardinality(s) - 1 /\ Cardinality(s) \in Nat
      BY <1>2, <2>3, <3>1
    <3>3. IsFiniteSet(rest) /\ rest \in SUBSET (1..n)
      BY <1>1, <3>1, FS_Subset
    <3>4. Cardinality(rest) \in Nat
      BY <3>3, FS_CardinalityType
    <3> HIDE DEF rest
    <3>5. Cardinality(rest) \in 0..m
      BY <3>1, <3>2, <3>4
    <3> QED
      BY <3>3, <3>5 DEF rest
  <2> HIDE DEF D
  <2>4. ASSUME NEW s \in D(m + 1), s # {} PROVE Step(s, u) = Step(s, h)
    <3>1. u[s \ {Top(s)}] = h[s \ {Top(s)}]
      BY <2>2, <2>3, <2>4
    <3> HIDE DEF h
    <3> QED
      BY <3>1
  <2>5. h = [s \in D(m + 1) |-> IF s = {} THEN account ELSE Step(s, h)]
    <3> HIDE DEF Step
    <3> QED
      BY <2>4
  <2> QED
    BY <2>5
<1> HIDE DEF Good
<1>5. Bad = {}
  <2> SUFFICES ASSUME Bad # {} PROVE FALSE
    OBVIOUS
  <2>1. PICK m \in Bad : \A j \in Bad : m <= j
    BY LeastNat
  <2>2. m # 0
    BY <1>3, <2>1
  <2>3. m - 1 \in Nat /\ Good(m - 1)
    BY <2>1, <2>2
  <2>4. Good((m - 1) + 1)
    BY <1>4, <2>3
  <2> QED
    BY <2>1, <2>4
<1>6. D(Cardinality(1..n)) = SUBSET (1..n)
  BY <1>1, FS_Subset, FS_CardinalityType
<1>7. \E h : h = [s \in SUBSET (1..n) |-> IF s = {} THEN account ELSE Step(s, h)]
  <2>1. Good(Cardinality(1..n))
    BY <1>1, <1>5
  <2> QED
    BY <1>6, <2>1 DEF Good
<1>8. g = [s \in SUBSET (1..n) |-> IF s = {} THEN account ELSE Step(s, g)]
  BY <1>1, <1>7
<1>9. Purchased(account, wanted, price, day0) = g[1..n]
  <2>1. Purchased(account, wanted, price, day0)
          = G(InOrder(DOMAIN wanted))[DOMAIN InOrder(DOMAIN wanted)]
    BY DEF Purchased, BuyOne, FoldLeft, MapThenFoldSet, Top
  <2> HIDE DEF G
  <2> QED
    BY <1>1, <2>1
<1> HIDE DEF g
<1> DEFINE d == [k \in 0..n |-> g[1..k]]
<1>10. d[0] = account
  <2>1. 1..0 = {} /\ 0 \in 0..n
    BY <1>1
  <2> QED
    BY <1>8, <2>1
<1>11. ASSUME NEW k \in 1..n
       PROVE  d[k] = BuyOne(d[k - 1], ord[k], wanted, price, day0)
  <2>1. /\ 1..k \in SUBSET (1..n) /\ 1..k # {}
        /\ (1..k) \ {k} = 1..(k - 1)
        /\ k - 1 \in 0..n /\ k \in 0..n
    <3>1. 1..k \in SUBSET (1..n) /\ 1..k # {}
      <4>1. n \in Nat /\ k \in Nat /\ 1 <= k /\ k <= n
        BY <1>1
      <4>2. 1 \in 1..k
        BY <4>1
      <4>3. \A j \in 1..k : j \in 1..n
        BY <4>1
      <4> QED
        BY <4>2, <4>3
    <3>2. (1..k) \ {k} = 1..(k - 1)
      <4>1. k \in Nat /\ \A j \in Int : j <= k /\ j # k <=> j <= k - 1
        BY <1>1
      <4> QED
        BY <4>1
    <3>3. k - 1 \in 0..n /\ k \in 0..n
      BY <1>1
    <3> QED
      BY <3>1, <3>2, <3>3
  <2>2. Top(1..k) = k
    <3>1. Max(1..k) \in 1..k /\ \A m \in 1..k : m <= Max(1..k)
      BY <1>1, <2>1, GreatestIn
    <3> QED
      BY <3>1 DEF Top
  <2>3. g[1..k] = Step(1..k, g)
    BY <1>8, <2>1
  <2>4. d[k] = g[1..k] /\ d[k - 1] = g[1..(k - 1)]
    BY <2>1
  <2> QED
    BY <2>1, <2>2, <2>3, <2>4
<1>12. Purchased(account, wanted, price, day0) = d[n]
  BY <1>1, <1>9
<1> HIDE DEF d
<1> QED
  BY <1>10, <1>11, <1>12 DEF OneByOne

(* One purchase touches one instrument and is paid out of the cash.        *)
BuysPriced(wanted, price, d) ==
  /\ Prices(price) /\ FeeKnown("BUY", d)
  /\ DOMAIN wanted \subseteq DOMAIN price
  /\ \A i \in DOMAIN wanted : wanted[i] \in Int

LEMMA BuyDrifts ==
  ASSUME NEW wanted, NEW price, NEW d, BuysPriced(wanted, price, d),
         NEW at, at # Failed, Account(at, price), NEW i \in DOMAIN wanted,
         NEW to, to = BuyOne(at, i, wanted, price, d)
  PROVE  \/ to = at
         \/ to = Failed
         \/ /\ Account(to, price) /\ DOMAIN to.units = DOMAIN at.units \cup {i}
            /\ Drift(at, to, {i}, price)
<1> SUFFICES ASSUME to # at, to # Failed
             PROVE  /\ Account(to, price) /\ DOMAIN to.units = DOMAIN at.units \cup {i}
                    /\ Drift(at, to, {i}, price)
  OBVIOUS
<1> DEFINE P == DOMAIN price
<1>1. /\ Prices(price) /\ IsFiniteSet(P) /\ i \in P /\ wanted[i] \in Int
      /\ price[i] \in Nat \ {0} /\ FeeKnown("BUY", d)
      /\ at.cash \in Int /\ at.fees \in Int /\ DOMAIN at.units \subseteq P
      /\ \A j \in DOMAIN at.units : at.units[j] \in Int
  BY DEF BuysPriced, Prices, Account
<1>2. PICK most : most = at.cash - FeeFor("BUY", d, wanted[i])
  OBVIOUS
<1>3. PICK notional : notional = Min({wanted[i], most})
  OBVIOUS
<1>4. PICK q : q = Quantity(notional, price[i])
  OBVIOUS
<1>5. PICK fee : fee = FeeFor("BUY", d, notional)
  OBVIOUS
<1>6. to = [cash |-> at.cash - notional - fee,
            units |-> [j \in DOMAIN at.units \cup {i} |->
                         IF j = i THEN Held(at, i) + q ELSE at.units[j]],
            fees |-> at.fees + fee]
  BY <1>2, <1>3, <1>4, <1>5 DEF BuyOne
<1>7. /\ to.cash = at.cash - notional - fee /\ to.fees = at.fees + fee
      /\ to.units = [j \in DOMAIN at.units \cup {i} |->
                       IF j = i THEN Held(at, i) + q ELSE at.units[j]]
  BY <1>6
<1>8. most \in Int
  <2>1. "BUY" \in Sides
    BY DEF Sides
  <2>2. FeeFor("BUY", d, wanted[i]) \in Int
    BY <1>1, <2>1, FeeInt
  <2> QED
    BY <1>1, <1>2, <2>2
<1>9. notional \in Int
  <2>1. PICK w \in Int : w = wanted[i]
    BY <1>1
  <2>2. Min({w, most}) \in {w, most}
    <3>1. w <= most \/ most <= w
      BY <1>8
    <3>2. \E x \in {w, most} : \A y \in {w, most} : x <= y
      BY <1>8, <3>1
    <3> QED
      BY <3>2 DEF Min
  <2> QED
    BY <1>3, <1>8, <2>1, <2>2
<1>10. fee \in Int
  <2>1. "BUY" \in Sides
    BY DEF Sides
  <2> QED
    BY <1>1, <1>5, <1>9, <2>1, FeeInt
<1>11. PICK u \in Int : u = Held(at, i)
  BY HeldInt
<1>12. PICK p \in Nat \ {0} : p = price[i]
  BY <1>1
<1>13. q \in Int /\ Value(u, p) \in Int /\ Value(u + q, p) \in Int
       /\ Within(2 * QuantityUnit * (Value(u, p) - Value(u + q, p) + notional), Room(i, price))
  <2>1. q = Quantity(notional, p)
    BY <1>4, <1>12
  <2> QED
    BY <1>9, <1>12, <2>1, LotsRound DEF Within, Room
<1>14. DOMAIN to.units = DOMAIN at.units \cup {i}
  BY <1>7
<1>15. Account(to, price)
  <2>1. \A j \in DOMAIN to.units : to.units[j] \in Int
    BY <1>1, <1>7, <1>11, <1>13
  <2>2. to.cash \in Int /\ to.fees \in Int
    BY <1>1, <1>7, <1>9, <1>10
  <2> QED
    BY <1>1, <1>14, <2>1, <2>2 DEF Account
<1>16. /\ Held(at, i) = u /\ Held(to, i) = u + q
       /\ \A j \in P : j # i => Held(to, j) = Held(at, j)
  BY <1>7, <1>11 DEF Held
<1>17. /\ ValuesIn(at, price)[i] = Value(u, p) /\ ValuesIn(to, price)[i] = Value(u + q, p)
       /\ \A j \in P : j # i => ValuesIn(to, price)[j] = ValuesIn(at, price)[j]
  BY <1>1, <1>12, <1>16 DEF ValuesIn
<1> DEFINE n == [j \in P |-> IF j = i THEN notional ELSE 0]
<1>18. n \in [P -> Int] /\ n[i] = notional /\ \A j \in P : n[j] \in Int /\ (j # i => n[j] = 0)
  BY <1>1, <1>9
<1> HIDE DEF n
<1>19. SumOver(n, P) = notional
  <2>1. SumOver(n, P) = SumOver(n, {i})
    <3>1. {i} \subseteq P /\ \A j \in P \ {i} : n[j] = 0
      BY <1>1, <1>18
    <3> QED
      BY <1>1, <1>18, <3>1, SumRestrict
  <2>2. SumOver(n, {i}) = n[i]
    BY <1>9, <1>18, SumOne
  <2> QED
    BY <1>18, <2>1, <2>2
<1>20. to.cash + to.fees = at.cash + at.fees - SumOver(n, P)
  BY <1>1, <1>7, <1>9, <1>10, <1>19
<1>21. \A j \in P \cap {i} :
          Within(2 * QuantityUnit * (ValuesIn(at, price)[j] - ValuesIn(to, price)[j] + n[j]),
                 Room(j, price))
  BY <1>13, <1>17, <1>18
<1>22. \A j \in P \ {i} : ValuesIn(at, price)[j] - ValuesIn(to, price)[j] + n[j] = 0
  <2> TAKE j \in P \ {i}
  <2>1. PICK a \in Int : a = ValuesIn(at, price)[j]
    BY <1>1, ValuesInt
  <2>2. ValuesIn(to, price)[j] = a /\ n[j] = 0
    BY <1>17, <1>18, <2>1
  <2> QED
    BY <2>1, <2>2
<1>23. Drift(at, to, {i}, price)
  BY <1>1, <1>15, <1>18, <1>20, <1>21, <1>22, FlowDrifts
<1> QED
  BY <1>14, <1>15, <1>23

(* All purchases.                                                          *)
Spent(at, to, some, price) ==
  /\ Account(to, price) /\ DOMAIN at.units \subseteq DOMAIN to.units
  /\ \E T : T \subseteq some /\ T \subseteq DOMAIN to.units /\ Drift(at, to, T, price)

LEMMA PurchasesDrift ==
  ASSUME NEW wanted, NEW price, NEW d, BuysPriced(wanted, price, d),
         NEW at, Account(at, price),
         NEW to, to = Purchased(at, wanted, price, d), to # Failed
  PROVE  Spent(at, to, DOMAIN wanted, price)
<1> DEFINE B == DOMAIN wanted
<1>1. Prices(price) /\ IsFiniteSet(B) /\ B \subseteq Nat
  <2>1. IsFiniteSet(DOMAIN price) /\ B \subseteq DOMAIN price /\ DOMAIN price \subseteq Nat
    BY DEF BuysPriced, Prices
  <2> QED
    BY <2>1, FS_Subset DEF BuysPriced
<1>2. PICK n : n = Cardinality(B)
  OBVIOUS
<1>3. PICK ord : ord = InOrder(B)
  OBVIOUS
<1>4. /\ n \in Nat /\ DOMAIN ord = 1..n
      /\ \A k \in 1..n : ord[k] \in B
      /\ \A j, k \in 1..n : ord[j] = ord[k] => j = k
  BY <1>1, <1>2, <1>3, OrderVisits
<1>5. PICK a : OneByOne(a, n, ord, at, wanted, price, d)
  BY <1>3, <1>4, PurchaseSteps
<1>6. /\ a[0] = at /\ a[n] = to
      /\ \A k \in 1..n : a[k] = BuyOne(a[k - 1], ord[k], wanted, price, d)
  BY <1>5 DEF OneByOne
<1> DEFINE seen(k) == {ord[j] : j \in 1..k}
           Ok(k) == a[k] = Failed \/ Spent(at, a[k], seen(k), price)
           Bad == {k \in 0..n : ~Ok(k)}
<1>7. Ok(0)
  <2>1. Drift(at, at, {}, price)
    BY <1>1, NoDrift
  <2> QED
    BY <1>6, <2>1 DEF Spent
<1>8. ASSUME NEW k \in 1..n, Ok(k - 1) PROVE Ok(k)
  <2>1. PICK b : b = a[k - 1]
    OBVIOUS
  <2>2. PICK c : c = a[k]
    OBVIOUS
  <2>3. PICK i \in B : i = ord[k]
    BY <1>4
  <2>4. c = BuyOne(b, i, wanted, price, d)
    BY <1>6, <2>1, <2>2, <2>3
  <2>5. CASE b = Failed
    <3>1. c = Failed
      BY <2>4, <2>5 DEF BuyOne
    <3> QED
      BY <2>2, <3>1
  <2>6. CASE b # Failed
    <3>1. Spent(at, b, seen(k - 1), price)
      BY <1>8, <2>1, <2>6
    <3>2. PICK T : T \subseteq seen(k - 1) /\ T \subseteq DOMAIN b.units /\ Drift(at, b, T, price)
      BY <3>1 DEF Spent
    <3>3. Account(b, price) /\ DOMAIN at.units \subseteq DOMAIN b.units
      BY <3>1 DEF Spent
    <3>4. seen(k - 1) \subseteq seen(k) /\ i \in seen(k) /\ i \notin seen(k - 1)
      <4>1. k \in 1..k /\ \A j \in 1 .. k - 1 : j \in 1..k /\ j \in 1..n /\ j # k
        BY <1>4
      <4> QED
        BY <1>4, <2>3, <4>1
    <3> HIDE DEF seen
    <3>5. CASE c = b
      BY <2>2, <3>2, <3>3, <3>4, <3>5 DEF Spent
    <3>6. CASE c = Failed
      BY <2>2, <3>6
    <3>7. CASE c # b /\ c # Failed
      <4>1. /\ Account(c, price) /\ DOMAIN c.units = DOMAIN b.units \cup {i}
            /\ Drift(b, c, {i}, price)
        BY <2>4, <2>6, <3>3, <3>7, BuyDrifts
      <4>2. T \cap {i} = {}
        BY <3>2, <3>4
      <4>3. Drift(at, c, T \cup {i}, price)
        BY <1>1, <3>2, <3>3, <4>1, <4>2, DriftsAdd
      <4>4. T \cup {i} \subseteq seen(k) /\ T \cup {i} \subseteq DOMAIN c.units
            /\ DOMAIN at.units \subseteq DOMAIN c.units
        BY <3>2, <3>3, <3>4, <4>1
      <4> QED
        BY <2>2, <4>1, <4>3, <4>4 DEF Spent
    <3> QED
      BY <3>5, <3>6, <3>7
  <2> QED
    BY <2>5, <2>6
<1> HIDE DEF Ok
<1>9. Bad = {}
  <2> SUFFICES ASSUME Bad # {} PROVE FALSE
    OBVIOUS
  <2>1. PICK k \in Bad : \A m \in Bad : k <= m
    <3>1. Bad \subseteq Nat
      BY <1>4
    <3> HIDE DEF Bad
    <3> QED
      BY <3>1, LeastNat
  <2>2. k # 0
    BY <1>7, <2>1
  <2>3. k \in 1..n /\ Ok(k - 1)
    <3>1. k \in 1..n /\ k - 1 \in 0..n /\ ~(k <= k - 1)
      BY <1>4, <2>1, <2>2
    <3> QED
      BY <2>1, <3>1
  <2> QED
    BY <1>8, <2>1, <2>3
<1>10. Ok(n)
  BY <1>4, <1>9
<1>11. Spent(at, to, seen(n), price)
  BY <1>6, <1>10 DEF Ok
<1>12. seen(n) \subseteq B
  BY <1>4
<1> HIDE DEF seen
<1> QED
  BY <1>11, <1>12 DEF Spent

(* What the purchases are scaled to.                                       *)
Cost(buys, amount, day0) ==
  MapThenSumSet(LAMBDA i : Scaled(buys, amount)[i]
                             + IF Scaled(buys, amount)[i] = 0 THEN 0
                               ELSE FeeFor("BUY", day0, Scaled(buys, amount)[i]),
                DOMAIN buys)

LEMMA AffordableIs ==
  ASSUME NEW buys, NEW cash, NEW day0
  PROVE  Affordable(buys, cash, day0)
           = IF Cost(buys, SumWeights(buys), day0) <= cash THEN SumWeights(buys)
             ELSE Max({0} \cup {a \in 1 .. cash : /\ a < SumWeights(buys)
                                                  /\ Cost(buys, a, day0) <= cash})
BY DEF Affordable, Cost

LEMMA AffordableInt ==
  ASSUME NEW buys, SumWeights(buys) \in Nat, NEW cash \in Nat, NEW day0
  PROVE  Affordable(buys, cash, day0) \in Int
<1> DEFINE S == {0} \cup {a \in 1 .. cash : /\ a < SumWeights(buys)
                                            /\ Cost(buys, a, day0) <= cash}
           v == [x \in S |-> x]
<1>1. S \subseteq 0 .. cash /\ S # {} /\ \A x \in S : x \in Nat
  OBVIOUS
<1>2. IsFiniteSet(S)
  <2>1. IsFiniteSet(0 .. cash)
    BY FS_Interval
  <2> QED
    BY <1>1, <2>1, FS_Subset
<1>3. Affordable(buys, cash, day0) \in {SumWeights(buys), Max(S)}
  BY AffordableIs
<1>4. \A x \in S : v[x] = x
  OBVIOUS
<1> HIDE DEF S, v
<1>5. \E x \in S : \A y \in S : v[y] <= v[x]
  <2>1. \A x \in S : v[x] \in Nat
    BY <1>1, <1>4
  <2> QED
    BY <1>1, <1>2, <2>1, GreatestOf
<1>6. \E x \in S : \A y \in S : x >= y
  BY <1>1, <1>4, <1>5
<1>7. PICK m \in S : m = Max(S)
  BY <1>6 DEF Max
<1>8. m \in Int
  BY <1>1
<1> QED
  BY <1>3, <1>7, <1>8

LEMMA ScaledInt ==
  ASSUME NEW buys, SumWeights(buys) \in Nat \ {0}, NEW amount \in Int,
         \A i \in DOMAIN buys : buys[i] \in Int /\ buys[i] > 0
  PROVE  /\ DOMAIN Scaled(buys, amount) = DOMAIN buys
         /\ \A i \in DOMAIN buys : Scaled(buys, amount)[i] \in Int
<1>1. PICK all \in Nat \ {0} : all = SumWeights(buys)
  OBVIOUS
<1>2. ASSUME NEW i \in DOMAIN buys PROVE Scaled(buys, amount)[i] \in Int
  <2>1. PICK b \in Int : b = buys[i] /\ b > 0
    OBVIOUS
  <2>2. Scaled(buys, amount)[i] = Fraction(b, amount, all)
    BY <1>1, <2>1 DEF Scaled
  <2>3. Fraction(b, amount, all) = Rounded(b * amount, all)
    BY <2>1 DEF Fraction
  <2>4. b * amount \in Int
    OBVIOUS
  <2>5. Rounded(b * amount, all) \in Int
    BY <2>4, RoundedNear DEF Near
  <2> QED
    BY <2>2, <2>3, <2>5
<1> QED
  BY <1>2 DEF Scaled

LEMMA SumWeightsIs == ASSUME NEW weights PROVE SumWeights(weights) = SumOver(weights, DOMAIN weights)
BY DEF SumWeights, SumOver

LEMMA BoughtSpends ==
  ASSUME NEW price, Prices(price), NEW at, Account(at, price), NEW d,
         NEW buys, DOMAIN buys \subseteq DOMAIN price,
         \A i \in DOMAIN buys : buys[i] \in Int /\ buys[i] > 0,
         DOMAIN buys # {} => FeeKnown("BUY", d),
         NEW to, to = Bought(at, buys, price, d), to # Failed
  PROVE  Spent(at, to, DOMAIN buys, price)
<1>1. CASE DOMAIN buys = {}
  <2>1. to = at
    BY <1>1 DEF Bought
  <2>2. Drift(at, at, {}, price)
    BY NoDrift
  <2> QED
    BY <2>1, <2>2 DEF Spent
<1>2. CASE DOMAIN buys # {}
  <2>1. IsFiniteSet(DOMAIN buys)
    BY FS_Subset DEF Prices
  <2>2. SumWeights(buys) \in Nat \ {0}
    <3>1. PICK i \in DOMAIN buys : TRUE
      BY <1>2
    <3>2. \A j \in DOMAIN buys : buys[j] \in Nat
      OBVIOUS
    <3>3. SumOver(buys, DOMAIN buys) \in Nat /\ buys[i] <= SumOver(buys, DOMAIN buys)
      BY <2>1, <3>2, SumNat, SumMember
    <3>4. buys[i] \in Nat /\ buys[i] > 0
      BY <3>2
    <3>5. PICK all \in Nat : all = SumOver(buys, DOMAIN buys)
      BY <3>3
    <3>6. all # 0
      BY <3>3, <3>4, <3>5
    <3> QED
      BY <3>5, <3>6, SumWeightsIs
  <2>3. ~(at.cash < 0) /\ at.cash \in Nat
    BY DEF Bought, Account
  <2>4. PICK amount : amount = Affordable(buys, at.cash, d)
    OBVIOUS
  <2>5. amount \in Int
    BY <2>2, <2>3, <2>4, AffordableInt
  <2>6. to = Afforded(at, buys, amount, price, d)
    BY <1>2, <2>3, <2>4 DEF Bought
  <2>7. PICK scaled : scaled = Scaled(buys, amount)
    OBVIOUS
  <2>8. to = Purchased(at, scaled, price, d)
    BY <2>6, <2>7 DEF Afforded
  <2>9. DOMAIN scaled = DOMAIN buys /\ \A i \in DOMAIN buys : scaled[i] \in Int
    BY <2>2, <2>5, <2>7, ScaledInt
  <2>10. BuysPriced(scaled, price, d)
    BY <1>2, <2>9 DEF BuysPriced
  <2> QED
    BY <2>8, <2>9, <2>10, PurchasesDrift
<1> QED
  BY <1>1, <1>2

-----------------------------------------------------------------------------
(* A rebalance.                                                            *)
Complete(target, price) ==
  /\ DOMAIN target \subseteq DOMAIN price
  /\ \A i \in DOMAIN target : target[i] \in Nat

Alive(account, price) == ~(Worth(account, price) <= 0)

WantedOf(wanted, account, target) ==
  /\ DOMAIN wanted = DOMAIN account.units \cup DOMAIN target
  /\ \A i \in DOMAIN wanted : wanted[i] \in Int /\ wanted[i] >= 0

LEMMA WantedIs ==
  ASSUME NEW price, Prices(price), NEW account, Account(account, price),
         NEW target, Complete(target, price), Alive(account, price),
         NEW wanted, wanted = Wanted(account, target, price)
  PROVE  WantedOf(wanted, account, target)
<1>1. PICK worth : worth = Worth(account, price)
  OBVIOUS
<1>2. worth \in Nat
  BY <1>1, WorthIs DEF Alive
<1>3. wanted = [i \in DOMAIN account.units \cup DOMAIN target |->
                  IF i \in DOMAIN target THEN Rounded(worth * target[i], WeightUnit) ELSE 0]
  BY <1>1 DEF Wanted
<1>4. ASSUME NEW i \in DOMAIN target
      PROVE  Rounded(worth * target[i], WeightUnit) \in Int
             /\ Rounded(worth * target[i], WeightUnit) >= 0
  <2>1. PICK t \in Nat : t = target[i]
    BY DEF Complete
  <2>2. PICK x \in Nat : x = worth * t
    BY <1>2
  <2>3. WeightUnit \in Nat \ {0}
    BY EtfRotationAssumption
  <2>4. Rounded(x, WeightUnit) \in Int /\ Rounded(x, WeightUnit) >= 0
    BY <2>3, RoundedNear DEF Near
  <2> QED
    BY <2>1, <2>2, <2>4
<1> QED
  BY <1>3, <1>4 DEF WantedOf

Traders(price, to) ==
  /\ to.cash \in Int /\ DOMAIN to.units \subseteq DOMAIN price
  /\ \A i \in DOMAIN to.units : to.units[i] \in Int

LEMMA RebalanceRounds ==
  ASSUME NEW price, Prices(price), NEW account, Account(account, price), account.fees = 0,
         NEW target, Complete(target, price), NEW d,
         NEW after, after = Rebalance(account, target, price, d), after # Failed,
         NEW room, \A i \in DOMAIN after.units : room[i] = Room(i, price)
  PROVE  /\ Traders(price, after) /\ after.gap \in Int
         /\ SumOver(room, DOMAIN after.units) \in Nat
         /\ Within(2 * QuantityUnit * after.gap, SumOver(room, DOMAIN after.units))
<1>1. PICK wanted : wanted = Wanted(account, target, price)
  OBVIOUS
<1>2. PICK change : change = Change(account, wanted, price)
  OBVIOUS
<1>3. Alive(account, price) /\ after = Traded(account, wanted, change, price, d)
  BY <1>1, <1>2 DEF Rebalance, Exchanged, Alive
<1>4. /\ DOMAIN wanted = DOMAIN account.units \cup DOMAIN target
      /\ \A i \in DOMAIN wanted : wanted[i] \in Int /\ wanted[i] >= 0
  <2>1. Prices(price) /\ Account(account, price) /\ Complete(target, price) /\ Alive(account, price)
    BY <1>3
  <2>2. wanted = Wanted(account, target, price)
    BY <1>1
  <2>3. WantedOf(Wanted(account, target, price), account, target)
    BY <2>1, WantedIs
  <2>4. WantedOf(wanted, account, target)
    BY <2>2, <2>3
  <2> QED
    BY <2>4 DEF WantedOf
<1>5. PICK buys : buys = [i \in {j \in DOMAIN change : change[j] > 0} |-> change[i]]
  OBVIOUS
<1>6. PICK sold : sold = Sold(account, change, wanted, price, d)
  OBVIOUS
<1>7. PICK to : to = Bought(sold, buys, price, d)
  OBVIOUS
<1>8. /\ Sells(change) # {} => FeeKnown("SELL", d)
      /\ DOMAIN buys # {} => FeeKnown("BUY", d)
      /\ after = Balanced(account, to, price)
  <2>1. /\ ~(~FeeKnown("SELL", d) /\ \E i \in DOMAIN change : change[i] < 0)
        /\ ~(~FeeKnown("BUY", d) /\ DOMAIN buys # {})
        /\ after = Balanced(account, to, price)
    BY <1>3, <1>5, <1>6, <1>7 DEF Traded
  <2> QED
    BY <2>1 DEF Sells
<1>9. /\ to # Failed /\ after.cash = to.cash /\ after.units = to.units
      /\ after.gap = Worth(account, price) - to.fees - Worth(to, price)
  BY <1>8 DEF Balanced
<1>10. SalesPlan(account, wanted, price, d)
  BY <1>2, <1>4, <1>8 DEF SalesPlan, Complete, Account
<1>11. /\ Sells(change) \subseteq DOMAIN account.units
       /\ DOMAIN change = DOMAIN wanted /\ \A i \in DOMAIN wanted : change[i] \in Int
  BY <1>2, <1>10, SellsAreHeld
<1>12. /\ Account(sold, price) /\ DOMAIN sold.units = DOMAIN account.units
       /\ Drift(account, sold, Sells(change), price)
  BY <1>2, <1>6, <1>10, SoldDrifts
<1>13. /\ DOMAIN buys = {j \in DOMAIN change : change[j] > 0}
       /\ \A i \in DOMAIN buys : buys[i] \in Int /\ buys[i] > 0
  BY <1>5, <1>11
<1>14. DOMAIN buys \subseteq DOMAIN price /\ DOMAIN buys \cap Sells(change) = {}
  <2>1. \A i \in DOMAIN wanted : ~(change[i] > 0 /\ change[i] < 0)
    BY <1>11
  <2> QED
    BY <1>4, <1>11, <1>13, <2>1 DEF Sells, Complete, Account
<1>15. Spent(sold, to, DOMAIN buys, price)
  BY <1>7, <1>8, <1>9, <1>12, <1>13, <1>14, BoughtSpends
<1>16. PICK T : T \subseteq DOMAIN buys /\ T \subseteq DOMAIN to.units /\ Drift(sold, to, T, price)
  BY <1>15 DEF Spent
<1>17. Account(to, price) /\ DOMAIN sold.units \subseteq DOMAIN to.units
  BY <1>15 DEF Spent
<1>18. PICK U : U = Sells(change) \cup T
  OBVIOUS
<1>19. Sells(change) \cap T = {}
  BY <1>14, <1>16
<1>20. Drift(account, to, U, price)
  BY <1>12, <1>16, <1>17, <1>18, <1>19, DriftsAdd
<1>21. PICK held : held = DOMAIN to.units
  OBVIOUS
<1>22. /\ U \subseteq held /\ held \subseteq DOMAIN price /\ IsFiniteSet(held)
       /\ held = DOMAIN after.units
  <2>1. U \subseteq held /\ held = DOMAIN after.units
    BY <1>9, <1>11, <1>12, <1>16, <1>17, <1>18, <1>21
  <2>2. held \subseteq DOMAIN price /\ IsFiniteSet(DOMAIN price)
    BY <1>17, <1>21 DEF Account, Prices
  <2> QED
    BY <2>1, <2>2, FS_Subset
<1>23. \A i \in held : room[i] \in Nat /\ room[i] = Room(i, price)
  <2>1. \A i \in held : room[i] = Room(i, price) /\ price[i] \in Nat
    BY <1>22 DEF Prices
  <2>2. QuantityUnit \in Nat
    BY VectorBacktestAssumption
  <2> QED
    BY <2>1, <2>2 DEF Room
<1>24. Within(2 * QuantityUnit * (Full(account, price) - Full(to, price)), SumOver(room, U))
  <2>1. U \subseteq DOMAIN price /\ \A i \in U : room[i] = Room(i, price)
    BY <1>22, <1>23
  <2> QED
    BY <1>20, <2>1, DriftBound
<1>25. /\ SumOver(room, U) <= SumOver(room, held) /\ SumOver(room, U) \in Nat
       /\ SumOver(room, held) \in Nat
  BY <1>22, <1>23, SumPart
<1>26. after.gap = Full(account, price) - Full(to, price) /\ after.gap \in Int
  <2>1. Worth(account, price) \in Int /\ Worth(to, price) \in Int /\ to.fees \in Int
    BY <1>17, WorthIs DEF Account
  <2> QED
    BY <1>9, <2>1 DEF Full
<1>27. Within(2 * QuantityUnit * after.gap, SumOver(room, held))
  <2>1. PICK x \in Int : x = 2 * QuantityUnit * after.gap
    BY <1>26, VectorBacktestAssumption
  <2>2. Within(x, SumOver(room, U))
    BY <1>24, <1>26, <2>1
  <2> QED
    BY <1>25, <2>1, <2>2 DEF Within
<1>28. Traders(price, after)
  BY <1>9, <1>17 DEF Traders, Account
<1> QED
  BY <1>22, <1>25, <1>26, <1>27, <1>28

-----------------------------------------------------------------------------
(* The gap of a day against the bars of that day.                          *)
Bound(prices) == MapThenSumSet(LAMBDA r : r.open + 2 * QuantityUnit, prices)
Touched(gap, rows) == {r \in rows : r.day = gap.day /\ r.instrument \in gap.traded}
GapRounds(gap, rows) ==
  /\ gap.amount \in Int
  /\ Bound(Touched(gap, rows)) \in Nat
  /\ Within(2 * QuantityUnit * gap.amount, Bound(Touched(gap, rows)))

RowsSound(rows) ==
  /\ IsFiniteSet(rows)
  /\ \A r \in rows : r.instrument \in Nat /\ r.open \in Nat \ {0}

LEMMA BoundIs ==
  ASSUME NEW prices, IsFiniteSet(prices),
         NEW v, \A r \in prices : v[r] = r.open + 2 * QuantityUnit
  PROVE  Bound(prices) = SumOver(v, prices)
<1> DEFINE val(r) == r.open + 2 * QuantityUnit
           h == CHOOSE g : g = [s \in SUBSET prices |-> IF s = {} THEN 0 ELSE
                                  val(Pick(s)) + g[s \ {Pick(s)}]]
<1>1. PICK g : Sums(v, prices, g)
  BY IterExists
<1>2. \A s \in SUBSET prices : s # {} => v[Pick(s)] = val(Pick(s))
  BY DEF Pick
<1>3. Bound(prices) = h[prices]
  BY DEF Bound, MapThenSumSet, MapThenFoldSet, Pick
<1> HIDE DEF val
<1>4. g = [s \in SUBSET prices |-> IF s = {} THEN 0 ELSE val(Pick(s)) + g[s \ {Pick(s)}]]
  BY <1>1, <1>2 DEF Sums
<1>5. h = [s \in SUBSET prices |-> IF s = {} THEN 0 ELSE val(Pick(s)) + h[s \ {Pick(s)}]]
  BY <1>4
<1> HIDE DEF h
<1>6. Sums(v, prices, h)
  BY <1>5, <1>2 DEF Sums
<1> QED
  BY <1>3, <1>6, SumOverIs

(* The bar an instrument of the day is traded at.                          *)
LEMMA ShownBars ==
  ASSUME NEW rows, RowsSound(rows), NEW d,
         NEW price, price = PriceOf(rows, d, "open")
  PROVE  /\ Prices(price)
         /\ \A i \in DOMAIN price : /\ BarOf(rows, i, d) \in rows
                                    /\ BarOf(rows, i, d).instrument = i
                                    /\ BarOf(rows, i, d).day = d
                                    /\ price[i] = BarOf(rows, i, d).open
<1>1. price = PricesOf(rows, d, "open")
  BY PriceIs
<1>2. DOMAIN price = ShownOn(rows, d)
  BY <1>1 DEF PricesOf
<1>3. ASSUME NEW i \in DOMAIN price
      PROVE  /\ BarOf(rows, i, d) \in rows
             /\ BarOf(rows, i, d).instrument = i
             /\ BarOf(rows, i, d).day = d
             /\ price[i] = BarOf(rows, i, d).open
  <2>1. \E b \in rows : b.instrument = i /\ b.day = d
    BY <1>2, <1>3 DEF ShownOn
  <2>2. price[i] = BarOf(rows, i, d).open
    BY <1>1, <1>2, <1>3 DEF PricesOf
  <2> QED
    BY <2>1, <2>2 DEF BarOf
<1>4. IsFiniteSet(DOMAIN price)
  <2> DEFINE g == [b \in rows |-> b.instrument]
             all == {g[b] : b \in rows}
  <2>1. IsFiniteSet(rows)
    BY DEF RowsSound
  <2>2. \A b \in rows : g[b] = b.instrument
    OBVIOUS
  <2>3. DOMAIN price \subseteq {b.instrument : b \in rows}
    BY <1>2 DEF ShownOn
  <2> HIDE DEF g
  <2>4. IsFiniteSet(all)
    BY <2>1, ImageFinite
  <2>5. DOMAIN price \subseteq all
    BY <2>2, <2>3
  <2> HIDE DEF all
  <2> QED
    BY <2>4, <2>5, FS_Subset
<1>5. \A i \in DOMAIN price : i \in Nat /\ price[i] \in Nat \ {0}
  BY <1>3 DEF RowsSound
<1> QED
  BY <1>3, <1>4, <1>5 DEF Prices

LEMMA GapIsRounding ==
  ASSUME NEW rows, RowsSound(rows), NEW d, NEW price, price = PriceOf(rows, d, "open"),
         NEW account, Account(account, price), account.fees = 0,
         NEW target, Complete(target, price),
         NEW after, after = Rebalance(account, target, price, d), after # Failed,
         NEW gap, gap = [day |-> d, amount |-> after.gap, traded |-> DOMAIN after.units]
  PROVE  GapRounds(gap, rows)
<1> DEFINE held == DOMAIN after.units
           room == [i \in held |-> Room(i, price)]
           bars0 == Touched(gap, rows)
           v == [r \in bars0 |-> r.open + 2 * QuantityUnit]
           g == [i \in held |-> BarOf(rows, i, d)]
           Im == {g[i] : i \in held}
<1>1. Prices(price)
  BY ShownBars
<1>2. \A i \in held : room[i] = Room(i, price)
  OBVIOUS
<1> HIDE DEF room
<1>3. /\ held \subseteq DOMAIN price /\ after.gap \in Int
      /\ SumOver(room, held) \in Nat
      /\ Within(2 * QuantityUnit * after.gap, SumOver(room, held))
  BY <1>1, <1>2, RebalanceRounds DEF Traders
<1>4. gap.day = d /\ gap.amount = after.gap /\ gap.traded = held
  OBVIOUS
<1>5. \A i \in held : /\ g[i] \in rows /\ g[i].instrument = i /\ g[i].day = d
                      /\ price[i] = g[i].open
  BY <1>3, ShownBars
<1>6. IsFiniteSet(held) /\ IsFiniteSet(bars0) /\ bars0 \subseteq rows
  <2>1. IsFiniteSet(DOMAIN price) /\ IsFiniteSet(rows) /\ bars0 \subseteq rows
    BY <1>1 DEF Prices, RowsSound, Touched
  <2> HIDE DEF held, bars0
  <2> QED
    BY <1>3, <2>1, FS_Subset
<1>7. \A i \in held : g[i] \in bars0
  BY <1>4, <1>5 DEF Touched
<1>8. \A r \in bars0 : v[r] = r.open + 2 * QuantityUnit /\ v[r] \in Nat
  <2>1. QuantityUnit \in Nat
    BY VectorBacktestAssumption
  <2>2. \A r \in bars0 : r.open \in Nat
    BY <1>6 DEF RowsSound
  <2> QED
    BY <2>1, <2>2
<1> HIDE DEF held, bars0, v, g
<1>9. \A i \in held : v[g[i]] \in Int /\ room[i] = v[g[i]]
  BY <1>2, <1>5, <1>7, <1>8 DEF Room
<1>10. \A i, j \in held : g[i] = g[j] => i = j
  BY <1>5
<1>11. SumOver(v, Im) = SumOver(room, held)
  BY <1>6, <1>9, <1>10, SumImage
<1>12. Im \subseteq bars0
  BY <1>7
<1> HIDE DEF Im
<1>13. SumOver(v, Im) <= SumOver(v, bars0) /\ SumOver(v, bars0) \in Nat
  BY <1>6, <1>8, <1>12, SumPart
<1>14. Bound(bars0) = SumOver(v, bars0)
  BY <1>6, <1>8, BoundIs
<1>15. PICK most \in Nat : most = SumOver(room, held)
  BY <1>3
<1>16. PICK all \in Nat : all = Bound(bars0) /\ most <= all
  BY <1>11, <1>13, <1>14, <1>15
<1>17. PICK x : x = 2 * QuantityUnit * after.gap
  OBVIOUS
<1>18. Within(x, most) /\ x \in Int
  BY <1>3, <1>15, <1>17, VectorBacktestAssumption
<1>19. Within(x, all)
  BY <1>16, <1>18 DEF Within
<1> QED
  BY <1>3, <1>4, <1>16, <1>17, <1>19 DEF GapRounds, bars0

(* A backtest after some days: it holds whole units, or it has failed, or  *)
(* it ended with a gap no greater than the rounding of that day.           *)
RunSound(run, rows) ==
  /\ DOMAIN run = {"state", "cash", "units", "points", "gap"}
  /\ run.state = "RUNNING" => /\ run.cash \in Int
                              /\ \A i \in DOMAIN run.units : run.units[i] \in Int
  /\ run.state = "UNBALANCED" => GapRounds(run.gap, rows)

LEMMA FailedSound ==
  ASSUME NEW run, NEW rows, RunSound(run, rows)
  PROVE  RunSound([run EXCEPT !.state = "FAILED"], rows)
BY DEF RunSound

LEMMA ValuedSound ==
  ASSUME NEW run, NEW rows, RunSound(run, rows), run.state = "RUNNING", NEW d, NEW nav,
         NEW traded, traded.cash \in Int, \A i \in DOMAIN traded.units : traded.units[i] \in Int
  PROVE  RunSound(Valued(run, d, traded, nav), rows)
<1>1. CASE nav <= 0
  BY <1>1, FailedSound DEF Valued
<1>2. CASE ~(nav <= 0)
  <2>1. PICK to : to = Valued(run, d, traded, nav)
    OBVIOUS
  <2>2. PICK points : points = Append(run.points, [day |-> d, nav |-> nav, cash |-> traded.cash,
                                                   units |-> traded.units])
    OBVIOUS
  <2>3. to = [run EXCEPT !.cash = traded.cash, !.units = traded.units, !.points = points]
    BY <1>2, <2>1, <2>2 DEF Valued
  <2>4. /\ DOMAIN to = DOMAIN run /\ to.state = run.state
        /\ to.cash = traded.cash /\ to.units = traded.units
    BY <2>3 DEF RunSound
  <2>5. RunSound(to, rows)
    BY <2>4 DEF RunSound
  <2> QED
    BY <2>1, <2>5
<1> QED
  BY <1>1, <1>2

LEMMA MarkedSound ==
  ASSUME NEW run, NEW rows, RunSound(run, rows), run.state = "RUNNING", NEW d, NEW close,
         NEW traded,
         traded # Failed => /\ traded.cash \in Int
                            /\ \A i \in DOMAIN traded.units : traded.units[i] \in Int,
         \/ traded = Failed \/ traded.gap = 0
         \/ GapRounds([day |-> d, amount |-> traded.gap, traded |-> DOMAIN traded.units], rows)
  PROVE  RunSound(Marked(run, d, traded, close), rows)
<1>1. CASE traded = Failed
  BY <1>1, FailedSound DEF Marked
<1>2. CASE traded # Failed /\ traded.gap # 0
  <2>1. PICK to : to = Marked(run, d, traded, close)
    OBVIOUS
  <2>2. PICK gap : gap = [day |-> d, amount |-> traded.gap, traded |-> DOMAIN traded.units]
    OBVIOUS
  <2>3. to = [run EXCEPT !.state = "UNBALANCED", !.gap = gap] /\ GapRounds(gap, rows)
    BY <1>2, <2>1, <2>2 DEF Marked
  <2>4. DOMAIN to = DOMAIN run /\ to.state = "UNBALANCED" /\ to.gap = gap
    BY <2>3 DEF RunSound
  <2>5. RunSound(to, rows)
    BY <2>3, <2>4 DEF RunSound
  <2> QED
    BY <2>1, <2>5
<1>3. CASE traded # Failed /\ traded.gap = 0
  <2>1. Marked(run, d, traded, close) = Valued(run, d, traded, Worth(traded, close))
    BY <1>3 DEF Marked
  <2> QED
    BY <1>3, <2>1, ValuedSound
<1> QED
  BY <1>1, <1>2, <1>3

LEMMA FollowedSound ==
  ASSUME NEW rows, RowsSound(rows), NEW run, RunSound(run, rows), run.state = "RUNNING",
         NEW d, NEW target, \A i \in DOMAIN target : target[i] \in Nat, NEW close
  PROVE  RunSound(Followed(run, d, target, PriceOf(rows, d, "open"), close), rows)
<1>1. PICK open : open = PriceOf(rows, d, "open")
  OBVIOUS
<1>2. PICK account : account = [cash |-> run.cash, units |-> run.units, fees |-> 0]
  OBVIOUS
<1>3. account.cash = run.cash /\ account.units = run.units /\ account.fees = 0
  BY <1>2
<1>4. run.cash \in Int /\ \A i \in DOMAIN run.units : run.units[i] \in Int
  BY DEF RunSound
<1>5. CASE ~(DOMAIN run.units \cup DOMAIN target \subseteq DOMAIN open)
  <2>1. Followed(run, d, target, open, close) = [run EXCEPT !.state = "FAILED"]
    BY <1>5 DEF Followed
  <2> QED
    BY <1>1, <2>1, FailedSound
<1>6. CASE DOMAIN run.units \cup DOMAIN target \subseteq DOMAIN open
  <2>1. PICK traded : traded = IF DOMAIN target = {}
                               THEN [cash |-> run.cash, units |-> run.units, gap |-> 0]
                               ELSE Rebalance(account, target, open, d)
    OBVIOUS
  <2>2. Followed(run, d, target, open, close) = Marked(run, d, traded, close)
    BY <1>2, <1>6, <2>1 DEF Followed
  <2>3. CASE DOMAIN target = {}
    <3>1. traded.cash = run.cash /\ traded.units = run.units /\ traded.gap = 0
      BY <2>1, <2>3
    <3>2. RunSound(Marked(run, d, traded, close), rows)
      BY <1>4, <3>1, MarkedSound
    <3> QED
      BY <1>1, <2>2, <3>2
  <2>4. CASE traded = Failed
    <3>1. RunSound(Marked(run, d, traded, close), rows)
      BY <2>4, FailedSound DEF Marked
    <3> QED
      BY <1>1, <2>2, <3>1
  <2>5. CASE DOMAIN target # {} /\ traded # Failed
    <3>1. traded = Rebalance(account, target, open, d) /\ traded # Failed
      BY <2>1, <2>5
    <3>2. Prices(open)
      BY <1>1, ShownBars
    <3>3. Account(account, open) /\ Complete(target, open)
      BY <1>3, <1>4, <1>6 DEF Account, Complete
    <3>4. PICK gap : gap = [day |-> d, amount |-> traded.gap, traded |-> DOMAIN traded.units]
      OBVIOUS
    <3>5. GapRounds(gap, rows)
      BY <1>1, <1>3, <3>1, <3>3, <3>4, GapIsRounding
    <3>6. Traders(open, traded)
      <4>1. PICK room : room = [i \in DOMAIN traded.units |-> Room(i, open)]
        OBVIOUS
      <4>2. \A i \in DOMAIN traded.units : room[i] = Room(i, open)
        BY <4>1
      <4> QED
        BY <1>3, <3>1, <3>2, <3>3, <4>2, RebalanceRounds
    <3>7. traded.cash \in Int /\ \A i \in DOMAIN traded.units : traded.units[i] \in Int
      BY <3>6 DEF Traders
    <3>8. RunSound(Marked(run, d, traded, close), rows)
      BY <3>4, <3>5, <3>7, MarkedSound
    <3> QED
      BY <1>1, <2>2, <3>8
  <2> QED
    BY <2>3, <2>4, <2>5
<1> QED
  BY <1>5, <1>6

(* The targets of a day are the weights of its signals.                    *)
LEMMA TargetNat ==
  ASSUME NEW request, NEW signals, \A s \in signals : s.weight \in Nat, NEW k
  PROVE  \A i \in DOMAIN TargetOn(request, signals, k) : TargetOn(request, signals, k)[i] \in Nat
<1>1. PICK batch : batch = BatchOn(request, signals, k)
  OBVIOUS
<1>2. \A s \in batch : s.weight \in Nat
  BY <1>1 DEF BatchOn, Batch
<1>3. ASSUME NEW i \in DOMAIN TargetIn(batch) PROVE TargetIn(batch)[i] \in Nat
  <2>1. \E s \in batch : s.instrument = i
    BY <1>3 DEF TargetIn
  <2>2. TargetIn(batch)[i] = (CHOOSE s \in batch : s.instrument = i).weight
    BY <1>3 DEF TargetIn
  <2>3. (CHOOSE s \in batch : s.instrument = i) \in batch
    BY <2>1
  <2> QED
    BY <1>2, <2>2, <2>3
<1> QED
  BY <1>1, <1>3, TargetIs

LEMMA DaysSound ==
  ASSUME NEW n \in Nat, NEW request, DOMAIN request.calendar = 1..n, request.nav \in Nat,
         NEW signals, \A s \in signals : s.weight \in Nat, NEW rows, RowsSound(rows)
  PROVE  RunSound(End(request, signals, rows), rows)
<1>1. PICK d : DayByDay(d, n, request, signals, rows)
  BY DaysSteps
<1>2. /\ d[0] = Start(request) /\ d[n] = End(request, signals, rows)
      /\ \A k \in 1..n : d[k] = Simulated(request, signals, rows, d[k - 1], k)
  BY <1>1 DEF DayByDay
<1> DEFINE Bad == {k \in 0..n : ~RunSound(d[k], rows)}
<1>3. RunSound(d[0], rows)
  BY <1>2 DEF Start, RunSound
<1>4. ASSUME NEW k \in 1..n, RunSound(d[k - 1], rows) PROVE RunSound(d[k], rows)
  <2>1. PICK run : run = d[k - 1]
    OBVIOUS
  <2>2. d[k] = Simulated(request, signals, rows, run, k) /\ RunSound(run, rows)
    BY <1>2, <1>4, <2>1
  <2>3. CASE run.state # "RUNNING"
    BY <2>2, <2>3 DEF Simulated
  <2>4. CASE run.state = "RUNNING"
    <3>1. PICK today : today = request.calendar[k]
      OBVIOUS
    <3>2. PICK target : target = TargetOn(request, signals, k)
      OBVIOUS
    <3>3. PICK close : close = PriceOf(rows, today, "close")
      OBVIOUS
    <3>4. d[k] = Followed(run, today, target, PriceOf(rows, today, "open"), close)
      BY <2>2, <2>4, <3>1, <3>2, <3>3 DEF Simulated
    <3>5. \A i \in DOMAIN target : target[i] \in Nat
      BY <3>2, TargetNat
    <3> QED
      BY <2>2, <2>4, <3>4, <3>5, FollowedSound
  <2> QED
    BY <2>3, <2>4
<1>5. Bad = {}
  <2> SUFFICES ASSUME Bad # {} PROVE FALSE
    OBVIOUS
  <2>1. PICK k \in Bad : \A m \in Bad : k <= m
    <3>1. Bad \subseteq Nat
      OBVIOUS
    <3> HIDE DEF Bad
    <3> QED
      BY <3>1, LeastNat
  <2>2. k # 0
    BY <1>3, <2>1
  <2>3. k \in 1..n /\ RunSound(d[k - 1], rows)
    <3>1. k \in 1..n /\ k - 1 \in 0..n /\ ~(k <= k - 1)
      BY <2>1, <2>2
    <3> QED
      BY <2>1, <3>1
  <2> QED
    BY <1>4, <2>1, <2>3
<1>6. RunSound(d[n], rows)
  BY <1>5
<1> QED
  BY <1>2, <1>6

-----------------------------------------------------------------------------
(* What has been published and decided: finitely many bars with an open,   *)
(* and weights that are whole.                                             *)
WeightsSound(answer) == \A i \in DOMAIN answer.weights : answer.weights[i] \in Nat

DataInv ==
  /\ RowsSound(bars)
  /\ \A d \in DOMAIN decisions : WeightsSound(decisions[d].answer)
  /\ \A run \in runs : \A s \in run.signals : s.weight \in Nat

LEMMA DecideWeights ==
  ASSUME NEW request, NEW listed, NEW rows, NEW regime0,
         NEW answer, answer = Decide(request, listed, rows, regime0), answer # Failed
  PROVE  WeightsSound(answer)
<1>1. PICK universe : universe = Universe(request, listed)
  OBVIOUS
<1>2. answer = Decided(request, universe, rows, regime0)
  BY <1>1 DEF Decide
<1>3. CASE answer = [status |-> "NO_REBALANCE", weights |-> [i \in {} |-> 0]]
  BY <1>3 DEF WeightsSound
<1>4. CASE answer = Targets("CASH", universe, [i \in {} |-> 0])
  BY <1>4 DEF WeightsSound, Targets
<1>5. CASE \E weights : answer = Weighted(universe, weights, regime0)
  <2>1. PICK weights : answer = Weighted(universe, weights, regime0)
    BY <1>5
  <2>2. AcceptedDecision(answer, regime0)
    BY <2>1 DEF Weighted
  <2>3. \A i \in DOMAIN answer.weights : answer.weights[i] \in 0 .. WeightUnit
    BY <2>2 DEF AcceptedDecision
  <2> QED
    BY <2>3 DEF WeightsSound
<1>6. \/ answer = [status |-> "NO_REBALANCE", weights |-> [i \in {} |-> 0]]
      \/ answer = Targets("CASH", universe, [i \in {} |-> 0])
      \/ \E histories : answer = Ranked(request, universe, histories, regime0)
  BY <1>2 DEF Decided
<1>7. ASSUME NEW histories, answer = Ranked(request, universe, histories, regime0)
      PROVE  \E weights : answer = Weighted(universe, weights, regime0)
  BY <1>7 DEF Ranked
<1> QED
  BY <1>3, <1>4, <1>5, <1>6, <1>7

LEMMA SignalsSound ==
  ASSUME DataInv, NEW s \in Signals
  PROVE  s.weight \in Nat
<1>1. PICK d \in DOMAIN decisions : s \in SignalsOf(decisions[d].request, decisions[d].answer)
  BY DEF Signals
<1>2. WeightsSound(decisions[d].answer)
  BY DEF DataInv
<1> QED
  BY <1>1, <1>2 DEF SignalsOf, WeightsSound

(* More bars of a finite set of prices.                                    *)
LEMMA RowsAdded ==
  ASSUME NEW rows, RowsSound(rows), NEW S, IsFiniteSet(S), NEW g,
         \A x \in S : g[x].instrument \in Nat /\ g[x].open \in Nat \ {0}
  PROVE  RowsSound(rows \cup {g[x] : x \in S})
<1> DEFINE more == {g[x] : x \in S}
<1>1. IsFiniteSet(more)
  BY ImageFinite
<1>2. \A r \in more : r.instrument \in Nat /\ r.open \in Nat \ {0}
  OBVIOUS
<1> HIDE DEF more
<1>3. IsFiniteSet(rows \cup more)
  BY <1>1, FS_Union DEF RowsSound
<1>4. RowsSound(rows \cup more)
  BY <1>2, <1>3 DEF RowsSound
<1> QED
  BY <1>4 DEF more

LEMMA InitData == Init => DataInv
<1> SUFFICES ASSUME Init PROVE DataInv
  OBVIOUS
<1>1. bars = PastBars /\ DOMAIN decisions = {} /\ runs = {}
  BY DEF Init
<1>2. RowsSound(PastBars)
  BY RotationDaysAssumption DEF RowsSound
<1> QED
  BY <1>1, <1>2 DEF DataInv

LEMMA DataKept == DataInv /\ [Next]_vars => DataInv'
<1> SUFFICES ASSUME DataInv, [Next]_vars PROVE DataInv'
  OBVIOUS
<1>1. /\ RowsSound(bars)
      /\ \A d \in DOMAIN decisions : WeightsSound(decisions[d].answer)
      /\ \A run \in runs : \A s \in run.signals : s.weight \in Nat
  BY DEF DataInv
<1>2. CASE NextDay
  <2>1. PICK shown \in Tables :
          bars' = bars \cup {Row(i, day + 1, shown[i], now + 2) : i \in DOMAIN shown}
    BY <1>2 DEF NextDay
  <2>2. /\ DOMAIN shown \subseteq Instruments /\ Instruments \subseteq Nat
        /\ IsFiniteSet(Instruments) /\ \A i \in DOMAIN shown : shown[i] \in BarShown
    BY RotationDaysAssumption
  <2> DEFINE g == [i \in DOMAIN shown |-> Row(i, day + 1, shown[i], now + 2)]
  <2>3. \A i \in DOMAIN shown : /\ g[i] = Row(i, day + 1, shown[i], now + 2)
                                /\ g[i].instrument \in Nat /\ g[i].open \in Nat \ {0}
    BY <2>2 DEF Row, BarShown
  <2>4. bars' = bars \cup {g[i] : i \in DOMAIN shown}
    BY <2>1
  <2> HIDE DEF g
  <2>5. IsFiniteSet(DOMAIN shown)
    BY <2>2, FS_Subset
  <2>6. RowsSound(bars \cup {g[i] : i \in DOMAIN shown})
    BY <1>1, <2>3, <2>5, RowsAdded
  <2>7. decisions' = decisions /\ runs' = runs
    BY <1>2 DEF NextDay
  <2> QED
    BY <1>1, <2>4, <2>6, <2>7 DEF DataInv
<1>3. CASE ReviseBars
  <2>1. PICK i \in Instruments, rows \in LateBars :
          \E d : bars' = bars \cup {Row(i, d, bar, now + 1) : bar \in rows}
    BY <1>3 DEF ReviseBars
  <2>2. PICK d : bars' = bars \cup {Row(i, d, bar, now + 1) : bar \in rows}
    BY <2>1
  <2>3. rows \subseteq BarShown /\ IsFiniteSet(rows) /\ i \in Nat
    BY RotationDaysAssumption
  <2> DEFINE g == [bar \in rows |-> Row(i, d, bar, now + 1)]
  <2>4. \A bar \in rows : /\ g[bar] = Row(i, d, bar, now + 1)
                          /\ g[bar].instrument \in Nat /\ g[bar].open \in Nat \ {0}
    BY <2>3 DEF Row, BarShown
  <2>5. bars' = bars \cup {g[bar] : bar \in rows}
    BY <2>2
  <2> HIDE DEF g
  <2>6. RowsSound(bars \cup {g[bar] : bar \in rows})
    BY <1>1, <2>3, <2>4, RowsAdded
  <2>7. decisions' = decisions /\ runs' = runs
    BY <1>3 DEF ReviseBars
  <2> QED
    BY <1>1, <2>5, <2>6, <2>7 DEF DataInv
<1>4. CASE DecideRotation
  <2>1. bars' = bars /\ runs' = runs /\ day \notin DOMAIN decisions
    BY <1>4 DEF DecideRotation
  <2>2. PICK request, answer :
          /\ answer = Decide(request, revisions, bars, regime) /\ answer # Failed
          /\ decisions' =
               [d \in DOMAIN decisions \cup {day} |->
                  IF d = day THEN [request |-> request, regime |-> regime, answer |-> answer]
                  ELSE decisions[d]]
    BY <1>4 DEF DecideRotation
  <2>3. WeightsSound(answer)
    BY <2>2, DecideWeights
  <2>4. \A d \in DOMAIN decisions' : decisions'[d].answer = answer \/
          (d \in DOMAIN decisions /\ decisions'[d] = decisions[d])
    BY <2>2
  <2>5. \A d \in DOMAIN decisions' : WeightsSound(decisions'[d].answer)
    BY <1>1, <2>3, <2>4
  <2> QED
    BY <1>1, <2>1, <2>5 DEF DataInv
<1>5. CASE RunBacktest
  <2>1. bars' = bars /\ decisions' = decisions
    BY <1>5 DEF RunBacktest
  <2>2. PICK new : runs' = runs \cup {new} /\ new.signals = Signals
    <3>1. \E request, answer :
            runs' = runs \cup {[request |-> request, signals |-> Signals, answer |-> answer]}
      BY <1>5 DEF RunBacktest
    <3>2. PICK request, answer :
            runs' = runs \cup {[request |-> request, signals |-> Signals, answer |-> answer]}
      BY <3>1
    <3> DEFINE e == [request |-> request, signals |-> Signals, answer |-> answer]
    <3>3. e.signals = Signals /\ runs' = runs \cup {e}
      BY <3>2
    <3> QED
      BY <3>3
  <2>3. \A s \in new.signals : s.weight \in Nat
    BY <2>2, SignalsSound
  <2> QED
    BY <1>1, <2>1, <2>2, <2>3 DEF DataInv
<1>6. CASE ReviseUniverse \/ StabilizeRegime \/ UNCHANGED vars
  <2>1. bars' = bars /\ decisions' = decisions /\ runs' = runs
    BY <1>6 DEF ReviseUniverse, StabilizeRegime, vars
  <2> QED
    BY <1>1, <2>1 DEF DataInv
<1> QED
  BY <1>2, <1>3, <1>4, <1>5, <1>6 DEF Next

LEMMA OnlyRounding == RotationInv /\ DataInv => ImbalanceIsRounding
<1> SUFFICES ASSUME RotationInv, DataInv, NEW run \in runs, run.answer.state = "UNBALANCED"
             PROVE  GapRounds(run.answer.gap, NewestOf(run))
  <2>1. ASSUME NEW run \in runs, GapRounds(run.answer.gap, NewestOf(run))
        PROVE  LET gap    == run.answer.gap
                   prices == {r \in Newest(KnownBars(run.request, bars), BarKey) :
                                r.day = gap.day /\ r.instrument \in gap.traded}
                   bound  == MapThenSumSet(LAMBDA r : r.open + 2 * QuantityUnit, prices)
               IN  2 * QuantityUnit * gap.amount \in -bound .. bound
    <3> DEFINE gap == run.answer.gap
    <3>1. PICK x \in Int : x = 2 * QuantityUnit * gap.amount
      <4>1. gap.amount \in Int /\ QuantityUnit \in Int
        BY <2>1, VectorBacktestAssumption DEF GapRounds
      <4> QED
        BY <4>1
    <3>2. x \in -Bound(Touched(gap, NewestOf(run))) .. Bound(Touched(gap, NewestOf(run)))
      BY <2>1, <3>1 DEF GapRounds, Within
    <3> QED
      BY <3>1, <3>2 DEF Bound, Touched, NewestOf
  <2> QED
    BY <2>1 DEF ImbalanceIsRounding
<1>1. PICK last \in Nat : ReplaysTo(run, last)
  BY DEF RotationInv, RunInv
<1>2. PICK n : n = last - FirstDay + 1
  OBVIOUS
<1>3. PICK rows : rows = NewestOf(run)
  OBVIOUS
<1>4. PICK end : end = End(run.request, run.signals, rows)
  OBVIOUS
<1>5. n \in Nat /\ DOMAIN run.request.calendar = 1..n /\ run.answer = Outcome(end)
  BY <1>1, <1>2, <1>3, <1>4, AnswerIs
<1>6. run.answer # Failed /\ run.request.nav \in Nat
  BY RotationDaysAssumption DEF RotationInv, RunInv
<1>7. \A s \in run.signals : s.weight \in Nat
  BY DEF DataInv
<1>8. RowsSound(rows)
  <2>1. rows \subseteq bars
    BY <1>3 DEF NewestOf, Newest, KnownBars, Known
  <2> QED
    BY <2>1, FS_Subset DEF DataInv, RowsSound
<1>9. RunSound(end, rows)
  BY <1>4, <1>5, <1>6, <1>7, <1>8, DaysSound
<1>10. end.state = "UNBALANCED" /\ run.answer.gap = end.gap
  BY <1>5, <1>6 DEF Outcome
<1> QED
  BY <1>3, <1>9, <1>10 DEF RunSound

(***************************************************************************)
(* Whatever the bars, targets and fees: where the engine reports that a    *)
(* rebalance does not conserve the net asset value, what is missing is no  *)
(* more than the roundings of the instruments the portfolio holds, the     *)
(* quantity's and the value's before and after (vectorized.py,             *)
(* "rebalance cash flows do not conserve NAV").                            *)
(***************************************************************************)
THEOREM ImbalancesAreRounding == Spec => []ImbalanceIsRounding
<1>1. Spec => []DataInv
  BY InitData, DataKept, PTL DEF Spec
<1> QED
  BY RotationStaysSound, <1>1, OnlyRounding, PTL
=============================================================================
