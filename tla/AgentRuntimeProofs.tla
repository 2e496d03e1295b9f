------------------------- MODULE AgentRuntimeProofs -------------------------
(***************************************************************************)
(* Proofs about AgentRuntime.                                              *)
(*                                                                         *)
(* What is stored is the fold of an event chain, so the proofs follow the  *)
(* fold: what every event the replay accepts keeps, every stored run has.  *)
(* RunsStaySound is the first such invariant; the evidence of the stages,  *)
(* the authority of submissions and the stop signal rest on it.            *)
(*                                                                         *)
(* SubmissionInv counts submissions.  Between the reservation of a         *)
(* submission and its outcome other instances may cancel the run, close it *)
(* or time it out, and the handler may run before or after that; the       *)
(* invariant says what the run still has to say of the orders in each      *)
(* case.  With it the runtime implements AgentRunPromise.                  *)
(*                                                                         *)
(* OutcomeInv says what a stored run, and a call that is in flight, have   *)
(* for the replay to accept whatever the service records of that call; the *)
(* last part goes through every outcome the service builds.                *)
(***************************************************************************)
EXTENDS AgentRuntime, FiniteSetTheorems, WellFoundedInduction, SequenceTheorems, TLAPS

-----------------------------------------------------------------------------
(* The replay is a FoldLeft, a recursive function on lengths. What it      *)
(* computes is proved by an induction stated as: the set of the positions  *)
(* at which a fact fails has no least element.                             *)

(* Every nonempty set of naturals has a least element.                     *)
LEMMA LeastNat ==
  ASSUME NEW T, T \subseteq Nat, T # {}
  PROVE  \E n \in T : \A m \in T : n <= m
<1>1. \E n \in T : \A m \in T : ~(<<m, n>> \in OpToRel(<, Nat))
  BY NatLessThanWellFounded, WFMin
<1>2. PICK n \in T : \A m \in T : ~(<<m, n>> \in OpToRel(<, Nat))
  BY <1>1
<1>3. ASSUME NEW m \in T PROVE n <= m
  <2>1. <<m, n>> \in Nat \X Nat
    OBVIOUS
  <2>2. ~(m < n)
    BY <1>2, <2>1 DEF OpToRel
  <2> QED
   BY <2>2
<1> QED
  BY <1>3

(* A nonempty set of positions has a greatest one, the one FoldLeft takes  *)
(* last.                                                                   *)
LEMMA GreatestIn ==
  ASSUME NEW n \in Nat, NEW T, T \subseteq 1..n, T # {}
  PROVE  Max(T) \in T /\ \A m \in T : m <= Max(T)
<1> DEFINE U == {k \in Nat : n - k \in T}
<1>1. U # {}
  <2>1. PICK m \in T : TRUE
    OBVIOUS
  <2>2. n - m \in Nat /\ n - (n - m) = m
    BY <2>1
  <2> QED
    BY <2>1, <2>2
<1>2. PICK k \in U : \A m \in U : k <= m
  BY <1>1, LeastNat
<1>3. n - k \in T
  OBVIOUS
<1>4. ASSUME NEW m \in T PROVE m <= n - k
  <2>1. n - m \in Nat /\ n - (n - m) = m /\ m \in Int
    OBVIOUS
  <2>2. n - m \in U
    BY <2>1
  <2> QED
    BY <1>2, <2>1, <2>2
<1> QED
  BY <1>3, <1>4 DEF Max

(* Replay, event by event.                                                 *)
LEMMA ReplaySteps ==
  ASSUME NEW A, NEW events \in Seq(A), NEW r
  PROVE  \E d : /\ d[0] = Resume(r)
                /\ \A k \in 1..Len(events) :
                     d[k] = ReplayStep(d[k - 1], events[k])
                /\ Replay(r, events) = d[Len(events)]
<1> DEFINE n == Len(events)
           Top(s) == Max(s)
           Step(s, h) == ReplayStep(h[s \ {Top(s)}], events[Top(s)])
           D(m) == {T \in SUBSET (1..n) : Cardinality(T) \in 0..m}
           Good(m) == \E h : h = [s \in D(m) |-> IF s = {} THEN Resume(r) ELSE Step(s, h)]
           Bad == {m \in Nat : ~Good(m)}
           f == CHOOSE h : h = [s \in SUBSET (1..n) |->
                  IF s = {} THEN Resume(r)
                  ELSE ReplayStep(h[s \ {Top(s)}], events[Top(s)])]
<1>1. n \in Nat /\ DOMAIN events = 1..n /\ IsFiniteSet(1..n) /\ Cardinality(1..n) \in Nat
  BY LenProperties, FS_Interval, FS_CardinalityType
<1>2. ASSUME NEW s \in SUBSET (1..n), s # {}
      PROVE  Top(s) \in s /\ Cardinality(s \ {Top(s)}) = Cardinality(s) - 1 /\ Cardinality(s) \in Nat
  <2>1. Top(s) \in s
    BY <1>1, <1>2, GreatestIn
  <2>2. IsFiniteSet(s)
    BY <1>1, FS_Subset
  <2> HIDE DEF Top
  <2> QED
    BY <2>1, <2>2, FS_RemoveElement, FS_CardinalityType
<1> HIDE DEF Top
<1>3. Good(0)
  <2> DEFINE h == [s \in D(0) |-> Resume(r)]
  <2>1. ASSUME NEW s \in D(0) PROVE s = {}
    <3>1. s \in SUBSET (1..n) /\ Cardinality(s) = 0
      OBVIOUS
    <3>2. IsFiniteSet(s)
      BY <1>1, <3>1, FS_Subset
    <3> QED
      BY <3>1, <3>2, FS_EmptySet
  <2>2. h = [s \in D(0) |-> IF s = {} THEN Resume(r) ELSE Step(s, h)]
    BY <2>1
  <2> QED
    BY <2>2
<1>4. ASSUME NEW m \in Nat, Good(m) PROVE Good(m + 1)
  <2>1. PICK g : g = [s \in D(m) |-> IF s = {} THEN Resume(r) ELSE Step(s, g)]
    BY <1>4
  <2> DEFINE h == [s \in D(m + 1) |-> IF s = {} THEN Resume(r) ELSE Step(s, g)]
  <2>2. ASSUME NEW s \in D(m) PROVE s \in D(m + 1) /\ h[s] = g[s]
    <3>1. s \in D(m + 1)
      OBVIOUS
    <3> QED
      BY <2>1, <3>1
  <2>3. ASSUME NEW s \in D(m + 1), s # {} PROVE s \ {Top(s)} \in D(m)
    <3>1. s \in SUBSET (1..n) /\ Cardinality(s) \in 0..(m + 1)
      OBVIOUS
    <3> DEFINE rest == s \ {Top(s)}
    <3>2. Top(s) \in s /\ Cardinality(rest) = Cardinality(s) - 1 /\ Cardinality(s) \in Nat
      BY <1>2, <2>3, <3>1
    <3>3. IsFiniteSet(rest) /\ rest \in SUBSET (1..n)
      BY <1>1, <3>1, FS_Subset
    <3>4. Cardinality(rest) \in Nat
      BY <3>3, FS_CardinalityType
    <3> HIDE DEF rest
    <3>5. Cardinality(rest) \in 0..m
      BY <3>1, <3>2, <3>4
    <3> QED
      BY <3>3, <3>5 DEF rest
  <2> HIDE DEF D
  <2>4. ASSUME NEW s \in D(m + 1), s # {} PROVE Step(s, g) = Step(s, h)
    <3>1. g[s \ {Top(s)}] = h[s \ {Top(s)}]
      BY <2>2, <2>3, <2>4
    <3> HIDE DEF h
    <3> QED
      BY <3>1
  <2>5. h = [s \in D(m + 1) |-> IF s = {} THEN Resume(r) ELSE Step(s, h)]
    <3> HIDE DEF Step
    <3> QED
      BY <2>4
  <2> QED
    BY <2>5
<1> HIDE DEF Good
<1>5. Bad = {}
  <2> SUFFICES ASSUME Bad # {} PROVE FALSE
    OBVIOUS
  <2>1. PICK m \in Bad : \A j \in Bad : m <= j
    BY LeastNat
  <2>2. m # 0
    BY <1>3, <2>1
  <2>3. m - 1 \in Nat /\ Good(m - 1)
    BY <2>1, <2>2
  <2>4. Good((m - 1) + 1)
    BY <1>4, <2>3
  <2> QED
    BY <2>1, <2>4
<1>6. D(Cardinality(1..n)) = SUBSET (1..n)
  BY <1>1, FS_Subset, FS_CardinalityType
<1>7. \E h : h = [s \in SUBSET (1..n) |-> IF s = {} THEN Resume(r) ELSE Step(s, h)]
  <2>1. Good(Cardinality(1..n))
    BY <1>1, <1>5
  <2> QED
    BY <1>6, <2>1 DEF Good
<1>8. f = [s \in SUBSET (1..n) |-> IF s = {} THEN Resume(r) ELSE Step(s, f)]
  BY <1>7
<1>9. Replay(r, events) = f[1..n]
  BY <1>1 DEF Replay, FoldLeft, MapThenFoldSet, Top
<1> HIDE DEF f
<1> DEFINE d == [k \in 0..n |-> f[1..k]]
<1>10. d[0] = Resume(r)
  <2>1. 1..0 = {} /\ 0 \in 0..n
    BY <1>1
  <2> QED
    BY <1>8, <2>1
<1>11. ASSUME NEW k \in 1..n
       PROVE  d[k] = ReplayStep(d[k - 1], events[k])
  <2> HIDE DEF n
  <2>1. /\ 1..k \in SUBSET (1..n) /\ 1..k # {}
        /\ (1..k) \ {k} = 1..(k - 1)
        /\ k - 1 \in 0..n /\ k \in 0..n
    <3>1. 1..k \in SUBSET (1..n) /\ 1..k # {}
      <4>1. n \in Nat /\ k \in Nat /\ 1 <= k /\ k <= n
        BY <1>1
      <4>2. 1 \in 1..k
        BY <4>1
      <4>3. \A j \in 1..k : j \in 1..n
        BY <4>1
      <4> QED
        BY <4>2, <4>3
    <3>2. (1..k) \ {k} = 1..(k - 1)
      <4>1. k \in Nat /\ \A j \in Int : j <= k /\ j # k <=> j <= k - 1
        BY <1>1
      <4> QED
        BY <4>1
    <3>3. k - 1 \in 0..n /\ k \in 0..n
      BY <1>1
    <3> QED
      BY <3>1, <3>2, <3>3
  <2>2. Top(1..k) = k
    <3>1. Max(1..k) \in 1..k /\ \A m \in 1..k : m <= Max(1..k)
      BY <1>1, <2>1, GreatestIn
    <3> QED
      BY <3>1 DEF Top
  <2>3. f[1..k] = Step(1..k, f)
    BY <1>8, <2>1
  <2>4. d[k] = f[1..k] /\ d[k - 1] = f[1..(k - 1)]
    BY <2>1
  <2> QED
    BY <2>1, <2>2, <2>3, <2>4
<1>12. Replay(r, events) = d[n]
  BY <1>1, <1>9
<1> QED
  BY <1>10, <1>11, <1>12

(* A chain that is refused stays refused.                                  *)
LEMMA ReplayOk ==
  ASSUME NEW a, NEW e, ReplayStep(a, e).ok
  PROVE  a.ok
BY DEF ReplayStep

(* One more event is one more step.                                        *)
LEMMA ReplayAppend ==
  ASSUME NEW A, NEW events \in Seq(A), NEW e \in A, NEW r
  PROVE  /\ Append(events, e) \in Seq(A)
         /\ Replay(r, Append(events, e)) = ReplayStep(Replay(r, events), e)
<1> DEFINE n == Len(events)
           more == Append(events, e)
<1>1. /\ more \in Seq(A) /\ Len(more) = n + 1 /\ n \in Nat
      /\ \A k \in 1..n : more[k] = events[k]
      /\ more[n + 1] = e
  BY AppendProperties, LenProperties
<1>2. PICK c : /\ c[0] = Resume(r)
               /\ \A k \in 1..n : c[k] = ReplayStep(c[k - 1], events[k])
               /\ Replay(r, events) = c[n]
  BY ReplaySteps
<1> HIDE DEF more
<1>3. PICK d : /\ d[0] = Resume(r)
               /\ \A k \in 1..(n + 1) : d[k] = ReplayStep(d[k - 1], more[k])
               /\ Replay(r, more) = d[n + 1]
  BY <1>1, ReplaySteps
<1> DEFINE Bad == {k \in Nat : k <= n /\ c[k] # d[k]}
<1> HIDE DEF n
<1>4. ASSUME Bad # {} PROVE FALSE
  <2>1. PICK k \in Bad : \A m \in Bad : k <= m
    BY <1>4, LeastNat
  <2>2. k # 0
    BY <1>2, <1>3, <2>1
  <2>3. k \in 1..n /\ k \in 1..(n + 1) /\ k - 1 \in Nat /\ k - 1 <= n /\ k - 1 \notin Bad
    BY <1>1, <2>1, <2>2
  <2>4. c[k - 1] = d[k - 1] /\ more[k] = events[k]
    BY <1>1, <2>3
  <2> QED
    BY <1>2, <1>3, <2>1, <2>3, <2>4
<1>5. c[n] = d[n]
  BY <1>1, <1>4
<1>6. n + 1 \in 1..(n + 1) /\ (n + 1) - 1 = n
  BY <1>1
<1>7. d[n + 1] = ReplayStep(d[n], e)
  BY <1>1, <1>3, <1>6
<1> QED
  BY <1>1, <1>2, <1>3, <1>5, <1>7 DEF more

(* No events leave the run as it was.                                      *)
LEMMA ReplayEmpty == ASSUME NEW r PROVE Replay(r, <<>>) = Resume(r)
<1>1. <<>> \in Seq({}) /\ Len(<<>>) = 0
  BY EmptySeq
<1> QED
  BY <1>1, ReplaySteps

(* One event is one step.                                                  *)
LEMMA ReplayOne ==
  ASSUME NEW r, NEW e
  PROVE  Replay(r, <<e>>) = ReplayStep(Resume(r), e)
<1>1. <<>> \in Seq({e}) /\ <<e>> = Append(<<>>, e)
  BY EmptySeq
<1>2. Replay(r, Append(<<>>, e)) = ReplayStep(Replay(r, <<>>), e)
  BY <1>1, ReplayAppend
<1> QED
  BY <1>1, <1>2, ReplayEmpty

(* Two events are two steps.                                               *)
LEMMA ReplayTwo ==
  ASSUME NEW r, NEW e, NEW f
  PROVE  Replay(r, <<e, f>>) = ReplayStep(ReplayStep(Resume(r), e), f)
<1>1. <<e>> \in Seq({e, f}) /\ <<e, f>> = Append(<<e>>, f) /\ f \in {e, f}
  OBVIOUS
<1>2. Replay(r, Append(<<e>>, f)) = ReplayStep(Replay(r, <<e>>), f)
  BY <1>1, ReplayAppend
<1> QED
  BY <1>1, <1>2, ReplayOne

(* What every accepted event keeps, an accepted chain keeps.               *)
LEMMA ReplayClosed ==
  ASSUME NEW E, NEW S, NEW events \in Seq(E), NEW r \in S,
         \A a, e : e \in E /\ a.run \in S /\ ReplayStep(a, e).ok => ReplayStep(a, e).run \in S,
         Replay(r, events).ok
  PROVE  Replay(r, events).run \in S
<1> DEFINE n == Len(events)
<1>1. PICK d : /\ d[0] = Resume(r)
               /\ \A k \in 1..n : d[k] = ReplayStep(d[k - 1], events[k])
               /\ Replay(r, events) = d[n]
  BY ReplaySteps
<1>2. n \in Nat /\ \A k \in 1..n : events[k] \in E
  BY LenProperties, ElementOfSeq
<1> HIDE DEF n
<1> DEFINE Bad == {k \in Nat : k <= n /\ d[k].ok /\ d[k].run \notin S}
<1>3. d[0].run = r
  BY <1>1 DEF Resume
<1>4. ASSUME Bad # {} PROVE FALSE
  <2>1. PICK k \in Bad : \A m \in Bad : k <= m
    BY <1>4, LeastNat
  <2>2. k # 0
    BY <1>3, <2>1
  <2>3. k \in 1..n /\ k - 1 \in Nat /\ k - 1 <= n /\ k - 1 \notin Bad
    BY <1>2, <2>1, <2>2
  <2>4. d[k] = ReplayStep(d[k - 1], events[k]) /\ d[k].ok /\ d[k].run \notin S /\ events[k] \in E
    BY <1>1, <1>2, <2>1, <2>3
  <2>5. d[k - 1].ok
    BY <2>4, ReplayOk
  <2>6. d[k - 1].run \in S
    BY <2>3, <2>5
  <2> QED
    BY <2>4, <2>6
<1> QED
  BY <1>1, <1>2, <1>4

-----------------------------------------------------------------------------
(* The paths of the goals, spelled out.                                    *)

(* A sequence that is one element longer is an Append.                     *)
LEMMA Appended ==
  \A S : \A s, t \in Seq(S) : \A e \in S :
    Len(t) = Len(s) + 1 /\ (\A m \in 1..Len(s) : t[m] = s[m]) /\ t[Len(s) + 1] = e
      => Append(s, e) = t
<1> SUFFICES ASSUME NEW S, NEW s \in Seq(S), NEW t \in Seq(S), NEW e \in S,
                    Len(t) = Len(s) + 1, \A m \in 1..Len(s) : t[m] = s[m], t[Len(s) + 1] = e
             PROVE  Append(s, e) = t
  OBVIOUS
<1>1. /\ Append(s, e) \in Seq(S) /\ Len(Append(s, e)) = Len(s) + 1
      /\ \A m \in 1..Len(s) : Append(s, e)[m] = s[m]
      /\ Append(s, e)[Len(s) + 1] = e
  BY AppendProperties
<1>2. Len(s) \in Nat
  BY LenProperties
<1> DEFINE u == Append(s, e)
<1> HIDE DEF u
<1>3. u \in Seq(S) /\ Len(u) = Len(t) /\ \A m \in 1..Len(u) : u[m] = t[m]
  BY <1>1, <1>2 DEF u
<1>4. u = t
  BY <1>3, SeqEqual
<1> QED BY <1>4 DEF u

(* The pieces the paths are put together from.                             *)
LEMMA PathPieces ==
  /\ AnalysisPath =
       <<"RECEIVED", "SNAPSHOT_READY", "DATA_VALIDATED", "ANALYZED">>
  /\ PortfolioPath =
       <<"RECEIVED", "SNAPSHOT_READY", "DATA_VALIDATED", "ANALYZED", "PORTFOLIO_READY",
         "RISK_CHECKED">>
  /\ DraftPath =
       <<"RECEIVED", "SNAPSHOT_READY", "DATA_VALIDATED", "ANALYZED", "PORTFOLIO_READY",
         "RISK_CHECKED", "DRAFT_READY">>
<1>1. AnalysisPath = <<"RECEIVED", "SNAPSHOT_READY", "DATA_VALIDATED", "ANALYZED">>
  BY Zenon DEF AnalysisPath
<1>2. Append(AnalysisPath, "PORTFOLIO_READY") =
        <<"RECEIVED", "SNAPSHOT_READY", "DATA_VALIDATED", "ANALYZED", "PORTFOLIO_READY">>
  <2> DEFINE s == <<"RECEIVED", "SNAPSHOT_READY", "DATA_VALIDATED", "ANALYZED">>
             t == <<"RECEIVED", "SNAPSHOT_READY", "DATA_VALIDATED", "ANALYZED",
                    "PORTFOLIO_READY">>
  <2>1. s \in Seq(RunStates) /\ t \in Seq(RunStates) /\ Len(t) = Len(s) + 1
        /\ "PORTFOLIO_READY" \in RunStates
    BY DEF RunStates, PreExecutionStates, AfterExecutionStates, TerminalStates
  <2>2. \A m \in 1..Len(s) : t[m] = s[m]
    OBVIOUS
  <2>3. t[Len(s) + 1] = "PORTFOLIO_READY"
    OBVIOUS
  <2> HIDE DEF s, t
  <2>4. Append(s, "PORTFOLIO_READY") = t
    BY <2>1, <2>2, <2>3, Appended, Zenon
  <2> QED
    BY <1>1, <2>4, Zenon DEF s, t
<1>3. PortfolioPath = Append(Append(AnalysisPath, "PORTFOLIO_READY"), "RISK_CHECKED")
  BY DEF PortfolioPath
<1>4. PortfolioPath =
        <<"RECEIVED", "SNAPSHOT_READY", "DATA_VALIDATED", "ANALYZED", "PORTFOLIO_READY",
          "RISK_CHECKED">>
  <2> DEFINE s == <<"RECEIVED", "SNAPSHOT_READY", "DATA_VALIDATED", "ANALYZED",
                    "PORTFOLIO_READY">>
             t == <<"RECEIVED", "SNAPSHOT_READY", "DATA_VALIDATED", "ANALYZED",
                    "PORTFOLIO_READY", "RISK_CHECKED">>
  <2>1. s \in Seq(RunStates) /\ t \in Seq(RunStates) /\ Len(t) = Len(s) + 1
        /\ "RISK_CHECKED" \in RunStates
    BY DEF RunStates, PreExecutionStates, AfterExecutionStates, TerminalStates
  <2>2. \A m \in 1..Len(s) : t[m] = s[m]
    OBVIOUS
  <2>3. t[Len(s) + 1] = "RISK_CHECKED"
    OBVIOUS
  <2> HIDE DEF s, t
  <2>4. Append(s, "RISK_CHECKED") = t
    BY <2>1, <2>2, <2>3, Appended, Zenon
  <2> QED
    BY <1>2, <1>3, <2>4, Zenon DEF s, t
<1>5. DraftPath = Append(PortfolioPath, "DRAFT_READY")
  BY DEF DraftPath
<1>6. DraftPath =
        <<"RECEIVED", "SNAPSHOT_READY", "DATA_VALIDATED", "ANALYZED", "PORTFOLIO_READY",
          "RISK_CHECKED", "DRAFT_READY">>
  <2> DEFINE s == <<"RECEIVED", "SNAPSHOT_READY", "DATA_VALIDATED", "ANALYZED",
                    "PORTFOLIO_READY", "RISK_CHECKED">>
             t == <<"RECEIVED", "SNAPSHOT_READY", "DATA_VALIDATED", "ANALYZED",
                    "PORTFOLIO_READY", "RISK_CHECKED", "DRAFT_READY">>
  <2>1. s \in Seq(RunStates) /\ t \in Seq(RunStates) /\ Len(t) = Len(s) + 1
        /\ "DRAFT_READY" \in RunStates
    BY DEF RunStates, PreExecutionStates, AfterExecutionStates, TerminalStates
  <2>2. \A m \in 1..Len(s) : t[m] = s[m]
    OBVIOUS
  <2>3. t[Len(s) + 1] = "DRAFT_READY"
    OBVIOUS
  <2> HIDE DEF s, t
  <2>4. Append(s, "DRAFT_READY") = t
    BY <2>1, <2>2, <2>3, Appended, Zenon
  <2> QED
    BY <1>4, <1>5, <2>4, Zenon DEF s, t
<1> QED
  BY <1>1, <1>4, <1>6, Zenon

(* The path of every goal.                                                 *)
LEMMA GoalPaths ==
  /\ GoalPath["MARKET_RESEARCH"] =
       <<"RECEIVED", "SNAPSHOT_READY", "DATA_VALIDATED", "ANALYZED", "REPORTED">>
  /\ GoalPath["BACKTEST_REPORT"] =
       <<"RECEIVED", "SNAPSHOT_READY", "DATA_VALIDATED", "ANALYZED", "REPORTED">>
  /\ GoalPath["PORTFOLIO_REPORT"] =
       <<"RECEIVED", "SNAPSHOT_READY", "DATA_VALIDATED", "ANALYZED", "PORTFOLIO_READY",
         "RISK_CHECKED", "REPORTED">>
  /\ GoalPath["ORDER_DRAFT"] =
       <<"RECEIVED", "SNAPSHOT_READY", "DATA_VALIDATED", "ANALYZED", "PORTFOLIO_READY",
         "RISK_CHECKED", "DRAFT_READY", "REPORTED">>
  /\ GoalPath["PAPER_EXECUTION"] =
       <<"RECEIVED", "SNAPSHOT_READY", "DATA_VALIDATED", "ANALYZED", "PORTFOLIO_READY",
         "RISK_CHECKED", "DRAFT_READY", "EXECUTING", "RECONCILING", "COMPLETED">>
  /\ GoalPath["LIVE_ASSISTED_EXECUTION"] =
       <<"RECEIVED", "SNAPSHOT_READY", "DATA_VALIDATED", "ANALYZED", "PORTFOLIO_READY",
         "RISK_CHECKED", "DRAFT_READY", "PENDING_APPROVAL", "APPROVED", "EXECUTING",
         "RECONCILING", "COMPLETED">>
<1> DEFINE ready == DraftPath \o <<"PENDING_APPROVAL", "APPROVED">>
<1>1. GoalPath["MARKET_RESEARCH"] = AnalysisPath \o <<"REPORTED">>
  BY DEF GoalPath
<1>2. GoalPath["BACKTEST_REPORT"] = AnalysisPath \o <<"REPORTED">>
  BY DEF GoalPath
<1>3. GoalPath["PORTFOLIO_REPORT"] = PortfolioPath \o <<"REPORTED">>
  BY DEF GoalPath
<1>4. GoalPath["ORDER_DRAFT"] = DraftPath \o <<"REPORTED">>
  BY DEF GoalPath
<1>5. GoalPath["PAPER_EXECUTION"] = DraftPath \o SubmissionPath
  BY DEF GoalPath
<1>6. GoalPath["LIVE_ASSISTED_EXECUTION"] = ready \o SubmissionPath
  BY DEF GoalPath
<1>7. ready = Append(Append(DraftPath, "PENDING_APPROVAL"), "APPROVED")
  OBVIOUS
<1> HIDE DEF ready
<1>8. GoalPath["MARKET_RESEARCH"] = Append(AnalysisPath, "REPORTED")
  BY <1>1
<1>9. GoalPath["BACKTEST_REPORT"] = Append(AnalysisPath, "REPORTED")
  BY <1>2
<1>10. GoalPath["PORTFOLIO_REPORT"] = Append(PortfolioPath, "REPORTED")
  BY <1>3
<1>11. GoalPath["ORDER_DRAFT"] = Append(DraftPath, "REPORTED")
  BY <1>4
<1>12. \A s : s \o SubmissionPath = Append(Append(Append(s, "EXECUTING"), "RECONCILING"), "COMPLETED")
  BY DEF SubmissionPath
<1>13. GoalPath["PAPER_EXECUTION"] =
        Append(Append(Append(DraftPath, "EXECUTING"), "RECONCILING"), "COMPLETED")
  BY <1>5, <1>12, Zenon
<1>14. GoalPath["LIVE_ASSISTED_EXECUTION"] =
        Append(Append(Append(ready, "EXECUTING"), "RECONCILING"), "COMPLETED")
  BY <1>6, <1>12, Zenon
<1>15. Append(DraftPath, "EXECUTING") =
        <<"RECEIVED", "SNAPSHOT_READY", "DATA_VALIDATED", "ANALYZED", "PORTFOLIO_READY",
          "RISK_CHECKED", "DRAFT_READY", "EXECUTING">>
  <2> DEFINE s == <<"RECEIVED", "SNAPSHOT_READY", "DATA_VALIDATED", "ANALYZED",
                    "PORTFOLIO_READY", "RISK_CHECKED", "DRAFT_READY">>
             t == <<"RECEIVED", "SNAPSHOT_READY", "DATA_VALIDATED", "ANALYZED",
                    "PORTFOLIO_READY", "RISK_CHECKED", "DRAFT_READY", "EXECUTING">>
  <2>1. s \in Seq(RunStates) /\ t \in Seq(RunStates) /\ Len(t) = Len(s) + 1
        /\ "EXECUTING" \in RunStates
    BY DEF RunStates, PreExecutionStates, AfterExecutionStates, TerminalStates
  <2>2. \A m \in 1..Len(s) : t[m] = s[m]
    OBVIOUS
  <2>3. t[Len(s) + 1] = "EXECUTING"
    OBVIOUS
  <2> HIDE DEF s, t
  <2>4. Append(s, "EXECUTING") = t
    BY <2>1, <2>2, <2>3, Appended, Zenon
  <2> QED
    BY PathPieces, <2>4, Zenon DEF s, t
<1>16. Append(Append(DraftPath, "EXECUTING"), "RECONCILING") =
        <<"RECEIVED", "SNAPSHOT_READY", "DATA_VALIDATED", "ANALYZED", "PORTFOLIO_READY",
          "RISK_CHECKED", "DRAFT_READY", "EXECUTING", "RECONCILING">>
  <2> DEFINE s == <<"RECEIVED", "SNAPSHOT_READY", "DATA_VALIDATED", "ANALYZED",
                    "PORTFOLIO_READY", "RISK_CHECKED", "DRAFT_READY", "EXECUTING">>
             t == <<"RECEIVED", "SNAPSHOT_READY", "DATA_VALIDATED", "ANALYZED",
                    "PORTFOLIO_READY", "RISK_CHECKED", "DRAFT_READY", "EXECUTING",
                    "RECONCILING">>
  <2>1. s \in Seq(RunStates) /\ t \in Seq(RunStates) /\ Len(t) = Len(s) + 1
        /\ "RECONCILING" \in RunStates
    BY DEF RunStates, PreExecutionStates, AfterExecutionStates, TerminalStates
  <2>2. \A m \in 1..Len(s) : t[m] = s[m]
    OBVIOUS
  <2>3. t[Len(s) + 1] = "RECONCILING"
    OBVIOUS
  <2> HIDE DEF s, t
  <2>4. Append(s, "RECONCILING") = t
    BY <2>1, <2>2, <2>3, Appended, Zenon
  <2> QED
    BY <1>15, <2>4, Zenon DEF s, t
<1>17. GoalPath["PAPER_EXECUTION"] =
        <<"RECEIVED", "SNAPSHOT_READY", "DATA_VALIDATED", "ANALYZED", "PORTFOLIO_READY",
          "RISK_CHECKED", "DRAFT_READY", "EXECUTING", "RECONCILING", "COMPLETED">>
  <2> DEFINE s == <<"RECEIVED", "SNAPSHOT_READY", "DATA_VALIDATED", "ANALYZED",
                    "PORTFOLIO_READY", "RISK_CHECKED", "DRAFT_READY", "EXECUTING",
                    "RECONCILING">>
             t == <<"RECEIVED", "SNAPSHOT_READY", "DATA_VALIDATED", "ANALYZED",
                    "PORTFOLIO_READY", "RISK_CHECKED", "DRAFT_READY", "EXECUTING",
                    "RECONCILING", "COMPLETED">>
  <2>1. s \in Seq(RunStates) /\ t \in Seq(RunStates) /\ Len(t) = Len(s) + 1
        /\ "COMPLETED" \in RunStates
    BY DEF RunStates, PreExecutionStates, AfterExecutionStates, TerminalStates
  <2>2. \A m \in 1..Len(s) : t[m] = s[m]
    OBVIOUS
  <2>3. t[Len(s) + 1] = "COMPLETED"
    OBVIOUS
  <2> HIDE DEF s, t
  <2>4. Append(s, "COMPLETED") = t
    BY <2>1, <2>2, <2>3, Appended, Zenon
  <2> QED
    BY <1>16, <1>13, <2>4, Zenon DEF s, t
<1>18. Append(DraftPath, "PENDING_APPROVAL") =
        <<"RECEIVED", "SNAPSHOT_READY", "DATA_VALIDATED", "ANALYZED", "PORTFOLIO_READY",
          "RISK_CHECKED", "DRAFT_READY", "PENDING_APPROVAL">>
  <2> DEFINE s == <<"RECEIVED", "SNAPSHOT_READY", "DATA_VALIDATED", "ANALYZED",
                    "PORTFOLIO_READY", "RISK_CHECKED", "DRAFT_READY">>
             t == <<"RECEIVED", "SNAPSHOT_READY", "DATA_VALIDATED", "ANALYZED",
                    "PORTFOLIO_READY", "RISK_CHECKED", "DRAFT_READY", "PENDING_APPROVAL">>
  <2>1. s \in Seq(RunStates) /\ t \in Seq(RunStates) /\ Len(t) = Len(s) + 1
        /\ "PENDING_APPROVAL" \in RunStates
    BY DEF RunStates, PreExecutionStates, AfterExecutionStates, TerminalStates
  <2>2. \A m \in 1..Len(s) : t[m] = s[m]
    OBVIOUS
  <2>3. t[Len(s) + 1] = "PENDING_APPROVAL"
    OBVIOUS
  <2> HIDE DEF s, t
  <2>4. Append(s, "PENDING_APPROVAL") = t
    BY <2>1, <2>2, <2>3, Appended, Zenon
  <2> QED
    BY PathPieces, <2>4, Zenon DEF s, t
<1>19. ready =
        <<"RECEIVED", "SNAPSHOT_READY", "DATA_VALIDATED", "ANALYZED", "PORTFOLIO_READY",
          "RISK_CHECKED", "DRAFT_READY", "PENDING_APPROVAL", "APPROVED">>
  <2> DEFINE s == <<"RECEIVED", "SNAPSHOT_READY", "DATA_VALIDATED", "ANALYZED",
                    "PORTFOLIO_READY", "RISK_CHECKED", "DRAFT_READY", "PENDING_APPROVAL">>
             t == <<"RECEIVED", "SNAPSHOT_READY", "DATA_VALIDATED", "ANALYZED",
                    "PORTFOLIO_READY", "RISK_CHECKED", "DRAFT_READY", "PENDING_APPROVAL",
                    "APPROVED">>
  <2>1. s \in Seq(RunStates) /\ t \in Seq(RunStates) /\ Len(t) = Len(s) + 1
        /\ "APPROVED" \in RunStates
    BY DEF RunStates, PreExecutionStates, AfterExecutionStates, TerminalStates
  <2>2. \A m \in 1..Len(s) : t[m] = s[m]
    OBVIOUS
  <2>3. t[Len(s) + 1] = "APPROVED"
    OBVIOUS
  <2> HIDE DEF s, t
  <2>4. Append(s, "APPROVED") = t
    BY <2>1, <2>2, <2>3, Appended, Zenon
  <2> QED
    BY <1>18, <1>7, <2>4, Zenon DEF s, t
<1>20. Append(ready, "EXECUTING") =
        <<"RECEIVED", "SNAPSHOT_READY", "DATA_VALIDATED", "ANALYZED", "PORTFOLIO_READY",
          "RISK_CHECKED", "DRAFT_READY", "PENDING_APPROVAL", "APPROVED", "EXECUTING">>
  <2> DEFINE s == <<"RECEIVED", "SNAPSHOT_READY", "DATA_VALIDATED", "ANALYZED",
                    "PORTFOLIO_READY", "RISK_CHECKED", "DRAFT_READY", "PENDING_APPROVAL",
                    "APPROVED">>
             t == <<"RECEIVED", "SNAPSHOT_READY", "DATA_VALIDATED", "ANALYZED",
                    "PORTFOLIO_READY", "RISK_CHECKED", "DRAFT_READY", "PENDING_APPROVAL",
                    "APPROVED", "EXECUTING">>
  <2>1. s \in Seq(RunStates) /\ t \in Seq(RunStates) /\ Len(t) = Len(s) + 1
        /\ "EXECUTING" \in RunStates
    BY DEF RunStates, PreExecutionStates, AfterExecutionStates, TerminalStates
  <2>2. \A m \in 1..Len(s) : t[m] = s[m]
    OBVIOUS
  <2>3. t[Len(s) + 1] = "EXECUTING"
    OBVIOUS
  <2> HIDE DEF s, t
  <2>4. Append(s, "EXECUTING") = t
    BY <2>1, <2>2, <2>3, Appended, Zenon
  <2> QED
    BY <1>19, <2>4, Zenon DEF s, t
<1>21. Append(Append(ready, "EXECUTING"), "RECONCILING") =
        <<"RECEIVED", "SNAPSHOT_READY", "DATA_VALIDATED", "ANALYZED", "PORTFOLIO_READY",
          "RISK_CHECKED", "DRAFT_READY", "PENDING_APPROVAL", "APPROVED", "EXECUTING",
          "RECONCILING">>
  <2> DEFINE s == <<"RECEIVED", "SNAPSHOT_READY", "DATA_VALIDATED", "ANALYZED",
                    "PORTFOLIO_READY", "RISK_CHECKED", "DRAFT_READY", "PENDING_APPROVAL",
                    "APPROVED", "EXECUTING">>
             t == <<"RECEIVED", "SNAPSHOT_READY", "DATA_VALIDATED", "ANALYZED",
                    "PORTFOLIO_READY", "RISK_CHECKED", "DRAFT_READY", "PENDING_APPROVAL",
                    "APPROVED", "EXECUTING", "RECONCILING">>
  <2>1. s \in Seq(RunStates) /\ t \in Seq(RunStates) /\ Len(t) = Len(s) + 1
        /\ "RECONCILING" \in RunStates
    BY DEF RunStates, PreExecutionStates, AfterExecutionStates, TerminalStates
  <2>2. \A m \in 1..Len(s) : t[m] = s[m]
    OBVIOUS
  <2>3. t[Len(s) + 1] = "RECONCILING"
    OBVIOUS
  <2> HIDE DEF s, t
  <2>4. Append(s, "RECONCILING") = t
    BY <2>1, <2>2, <2>3, Appended, Zenon
  <2> QED
    BY <1>20, <2>4, Zenon DEF s, t
<1>22. GoalPath["LIVE_ASSISTED_EXECUTION"] =
        <<"RECEIVED", "SNAPSHOT_READY", "DATA_VALIDATED", "ANALYZED", "PORTFOLIO_READY",
          "RISK_CHECKED", "DRAFT_READY", "PENDING_APPROVAL", "APPROVED", "EXECUTING",
          "RECONCILING", "COMPLETED">>
  <2> DEFINE s == <<"RECEIVED", "SNAPSHOT_READY", "DATA_VALIDATED", "ANALYZED",
                    "PORTFOLIO_READY", "RISK_CHECKED", "DRAFT_READY", "PENDING_APPROVAL",
                    "APPROVED", "EXECUTING", "RECONCILING">>
             t == <<"RECEIVED", "SNAPSHOT_READY", "DATA_VALIDATED", "ANALYZED",
                    "PORTFOLIO_READY", "RISK_CHECKED", "DRAFT_READY", "PENDING_APPROVAL",
                    "APPROVED", "EXECUTING", "RECONCILING", "COMPLETED">>
  <2>1. s \in Seq(RunStates) /\ t \in Seq(RunStates) /\ Len(t) = Len(s) + 1
        /\ "COMPLETED" \in RunStates
    BY DEF RunStates, PreExecutionStates, AfterExecutionStates, TerminalStates
  <2>2. \A m \in 1..Len(s) : t[m] = s[m]
    OBVIOUS
  <2>3. t[Len(s) + 1] = "COMPLETED"
    OBVIOUS
  <2> HIDE DEF s, t
  <2>4. Append(s, "COMPLETED") = t
    BY <2>1, <2>2, <2>3, Appended, Zenon
  <2> QED
    BY <1>21, <1>14, <2>4, Zenon DEF s, t
<1>23. GoalPath["MARKET_RESEARCH"] =
        <<"RECEIVED", "SNAPSHOT_READY", "DATA_VALIDATED", "ANALYZED", "REPORTED">>
  <2> DEFINE s == <<"RECEIVED", "SNAPSHOT_READY", "DATA_VALIDATED", "ANALYZED">>
             t == <<"RECEIVED", "SNAPSHOT_READY", "DATA_VALIDATED", "ANALYZED", "REPORTED">>
  <2>1. s \in Seq(RunStates) /\ t \in Seq(RunStates) /\ Len(t) = Len(s) + 1
        /\ "REPORTED" \in RunStates
    BY DEF RunStates, PreExecutionStates, AfterExecutionStates, TerminalStates
  <2>2. \A m \in 1..Len(s) : t[m] = s[m]
    OBVIOUS
  <2>3. t[Len(s) + 1] = "REPORTED"
    OBVIOUS
  <2> HIDE DEF s, t
  <2>4. Append(s, "REPORTED") = t
    BY <2>1, <2>2, <2>3, Appended, Zenon
  <2> QED
    BY <1>8, PathPieces, <2>4, Zenon DEF s, t
<1>24. GoalPath["BACKTEST_REPORT"] =
        <<"RECEIVED", "SNAPSHOT_READY", "DATA_VALIDATED", "ANALYZED", "REPORTED">>
  <2> DEFINE s == <<"RECEIVED", "SNAPSHOT_READY", "DATA_VALIDATED", "ANALYZED">>
             t == <<"RECEIVED", "SNAPSHOT_READY", "DATA_VALIDATED", "ANALYZED", "REPORTED">>
  <2>1. s \in Seq(RunStates) /\ t \in Seq(RunStates) /\ Len(t) = Len(s) + 1
        /\ "REPORTED" \in RunStates
    BY DEF RunStates, PreExecutionStates, AfterExecutionStates, TerminalStates
  <2>2. \A m \in 1..Len(s) : t[m] = s[m]
    OBVIOUS
  <2>3. t[Len(s) + 1] = "REPORTED"
    OBVIOUS
  <2> HIDE DEF s, t
  <2>4. Append(s, "REPORTED") = t
    BY <2>1, <2>2, <2>3, Appended, Zenon
  <2> QED
    BY <1>9, PathPieces, <2>4, Zenon DEF s, t
<1>25. GoalPath["PORTFOLIO_REPORT"] =
        <<"RECEIVED", "SNAPSHOT_READY", "DATA_VALIDATED", "ANALYZED", "PORTFOLIO_READY",
          "RISK_CHECKED", "REPORTED">>
  <2> DEFINE s == <<"RECEIVED", "SNAPSHOT_READY", "DATA_VALIDATED", "ANALYZED",
                    "PORTFOLIO_READY", "RISK_CHECKED">>
             t == <<"RECEIVED", "SNAPSHOT_READY", "DATA_VALIDATED", "ANALYZED",
                    "PORTFOLIO_READY", "RISK_CHECKED", "REPORTED">>
  <2>1. s \in Seq(RunStates) /\ t \in Seq(RunStates) /\ Len(t) = Len(s) + 1
        /\ "REPORTED" \in RunStates
    BY DEF RunStates, PreExecutionStates, AfterExecutionStates, TerminalStates
  <2>2. \A m \in 1..Len(s) : t[m] = s[m]
    OBVIOUS
  <2>3. t[Len(s) + 1] = "REPORTED"
    OBVIOUS
  <2> HIDE DEF s, t
  <2>4. Append(s, "REPORTED") = t
    BY <2>1, <2>2, <2>3, Appended, Zenon
  <2> QED
    BY <1>10, PathPieces, <2>4, Zenon DEF s, t
<1>26. GoalPath["ORDER_DRAFT"] =
        <<"RECEIVED", "SNAPSHOT_READY", "DATA_VALIDATED", "ANALYZED", "PORTFOLIO_READY",
          "RISK_CHECKED", "DRAFT_READY", "REPORTED">>
  <2> DEFINE s == <<"RECEIVED", "SNAPSHOT_READY", "DATA_VALIDATED", "ANALYZED",
                    "PORTFOLIO_READY", "RISK_CHECKED", "DRAFT_READY">>
             t == <<"RECEIVED", "SNAPSHOT_READY", "DATA_VALIDATED", "ANALYZED",
                    "PORTFOLIO_READY", "RISK_CHECKED", "DRAFT_READY", "REPORTED">>
  <2>1. s \in Seq(RunStates) /\ t \in Seq(RunStates) /\ Len(t) = Len(s) + 1
        /\ "REPORTED" \in RunStates
    BY DEF RunStates, PreExecutionStates, AfterExecutionStates, TerminalStates
  <2>2. \A m \in 1..Len(s) : t[m] = s[m]
    OBVIOUS
  <2>3. t[Len(s) + 1] = "REPORTED"
    OBVIOUS
  <2> HIDE DEF s, t
  <2>4. Append(s, "REPORTED") = t
    BY <2>1, <2>2, <2>3, Appended, Zenon
  <2> QED
    BY <1>11, PathPieces, <2>4, Zenon DEF s, t
<1> QED
  BY <1>17, <1>22, <1>23, <1>24, <1>25, <1>26, Zenon

(* The ways a run ends that no path leads to.                              *)
OffPath == TerminalStates \ {"REPORTED", "COMPLETED"}

(* What the proofs need of a path: it visits a state once, submits between *)
(* execution and reconciliation only, and checks risk before it executes.  *)
Laid(p) ==
  /\ p \in Seq(RunStates)
  /\ \A m, n \in 1..Len(p) : p[m] = p[n] => m = n
  /\ \A m \in 1..Len(p) :
       /\ p[m] \notin OffPath
       /\ p[m] = "EXECUTING" => m + 1 \in 1..Len(p) /\ p[m + 1] = "RECONCILING"
       /\ p[m] = "RECONCILING" =>
            /\ m - 1 \in 1..Len(p) /\ p[m - 1] = "EXECUTING"
            /\ m + 1 \in 1..Len(p) /\ p[m + 1] = "COMPLETED"
       /\ p[m] = "COMPLETED" => m - 1 \in 1..Len(p) /\ p[m - 1] = "RECONCILING"
       /\ p[m] = "EXECUTING" => \E k \in 1..m : p[k] = "RISK_CHECKED"

(* The path of research and of backtests.                                  *)
LEMMA ResearchPathLaid ==
  Laid(<<"RECEIVED", "SNAPSHOT_READY", "DATA_VALIDATED", "ANALYZED", "REPORTED">>)
<1> DEFINE p == <<"RECEIVED", "SNAPSHOT_READY", "DATA_VALIDATED", "ANALYZED", "REPORTED">>
<1>1. p \in Seq(RunStates) /\ Len(p) = 5
  BY DEF RunStates, PreExecutionStates, AfterExecutionStates, TerminalStates
<1>2. /\ p[1] = "RECEIVED" /\ p[2] = "SNAPSHOT_READY" /\ p[3] = "DATA_VALIDATED"
      /\ p[4] = "ANALYZED" /\ p[5] = "REPORTED"
  OBVIOUS
<1>3. \A m \in 1..5 : m = 1 \/ m = 2 \/ m = 3 \/ m = 4 \/ m = 5
  OBVIOUS
<1> HIDE DEF p
<1>4. \A m, n \in 1..Len(p) : p[m] = p[n] => m = n
  BY <1>1, <1>2, <1>3
<1>5. ASSUME NEW m \in 1..Len(p)
      PROVE  /\ p[m] \notin OffPath
             /\ p[m] = "EXECUTING" => m + 1 \in 1..Len(p) /\ p[m + 1] = "RECONCILING"
             /\ p[m] = "RECONCILING" =>
                  /\ m - 1 \in 1..Len(p) /\ p[m - 1] = "EXECUTING"
                  /\ m + 1 \in 1..Len(p) /\ p[m + 1] = "COMPLETED"
             /\ p[m] = "COMPLETED" => m - 1 \in 1..Len(p) /\ p[m - 1] = "RECONCILING"
             /\ p[m] = "EXECUTING" => \E k \in 1..m : p[k] = "RISK_CHECKED"
  BY <1>1, <1>2, <1>3 DEF OffPath, TerminalStates
<1>6. Laid(p)
  BY <1>1, <1>4, <1>5 DEF Laid
<1> QED
  BY <1>6 DEF p

(* The path of a portfolio report.                                         *)
LEMMA PortfolioPathLaid ==
  Laid(<<"RECEIVED", "SNAPSHOT_READY", "DATA_VALIDATED", "ANALYZED", "PORTFOLIO_READY",
       "RISK_CHECKED", "REPORTED">>)
<1> DEFINE p == <<"RECEIVED", "SNAPSHOT_READY", "DATA_VALIDATED", "ANALYZED",
                  "PORTFOLIO_READY", "RISK_CHECKED", "REPORTED">>
<1>1. p \in Seq(RunStates) /\ Len(p) = 7
  BY DEF RunStates, PreExecutionStates, AfterExecutionStates, TerminalStates
<1>2. /\ p[1] = "RECEIVED" /\ p[2] = "SNAPSHOT_READY" /\ p[3] = "DATA_VALIDATED"
      /\ p[4] = "ANALYZED" /\ p[5] = "PORTFOLIO_READY" /\ p[6] = "RISK_CHECKED"
      /\ p[7] = "REPORTED"
  OBVIOUS
<1>3. \A m \in 1..7 : m = 1 \/ m = 2 \/ m = 3 \/ m = 4 \/ m = 5 \/ m = 6 \/ m = 7
  OBVIOUS
<1> HIDE DEF p
<1>4. \A m, n \in 1..Len(p) : p[m] = p[n] => m = n
  BY <1>1, <1>2, <1>3
<1>5. ASSUME NEW m \in 1..Len(p)
      PROVE  /\ p[m] \notin OffPath
             /\ p[m] = "EXECUTING" => m + 1 \in 1..Len(p) /\ p[m + 1] = "RECONCILING"
             /\ p[m] = "RECONCILING" =>
                  /\ m - 1 \in 1..Len(p) /\ p[m - 1] = "EXECUTING"
                  /\ m + 1 \in 1..Len(p) /\ p[m + 1] = "COMPLETED"
             /\ p[m] = "COMPLETED" => m - 1 \in 1..Len(p) /\ p[m - 1] = "RECONCILING"
             /\ p[m] = "EXECUTING" => \E k \in 1..m : p[k] = "RISK_CHECKED"
  BY <1>1, <1>2, <1>3 DEF OffPath, TerminalStates
<1>6. Laid(p)
  BY <1>1, <1>4, <1>5 DEF Laid
<1> QED
  BY <1>6 DEF p

(* The path of an order draft.                                             *)
LEMMA DraftPathLaid ==
  Laid(<<"RECEIVED", "SNAPSHOT_READY", "DATA_VALIDATED", "ANALYZED", "PORTFOLIO_READY",
       "RISK_CHECKED", "DRAFT_READY", "REPORTED">>)
<1> DEFINE p == <<"RECEIVED", "SNAPSHOT_READY", "DATA_VALIDATED", "ANALYZED",
                  "PORTFOLIO_READY", "RISK_CHECKED", "DRAFT_READY", "REPORTED">>
<1>1. p \in Seq(RunStates) /\ Len(p) = 8
  BY DEF RunStates, PreExecutionStates, AfterExecutionStates, TerminalStates
<1>2. /\ p[1] = "RECEIVED" /\ p[2] = "SNAPSHOT_READY" /\ p[3] = "DATA_VALIDATED"
      /\ p[4] = "ANALYZED" /\ p[5] = "PORTFOLIO_READY" /\ p[6] = "RISK_CHECKED"
      /\ p[7] = "DRAFT_READY" /\ p[8] = "REPORTED"
  OBVIOUS
<1>3. \A m \in 1..8 : m = 1 \/ m = 2 \/ m = 3 \/ m = 4 \/ m = 5 \/ m = 6 \/ m = 7 \/ m = 8
  OBVIOUS
<1> HIDE DEF p
<1>4. \A m, n \in 1..Len(p) : p[m] = p[n] => m = n
  BY <1>1, <1>2, <1>3
<1>5. ASSUME NEW m \in 1..Len(p)
      PROVE  /\ p[m] \notin OffPath
             /\ p[m] = "EXECUTING" => m + 1 \in 1..Len(p) /\ p[m + 1] = "RECONCILING"
             /\ p[m] = "RECONCILING" =>
                  /\ m - 1 \in 1..Len(p) /\ p[m - 1] = "EXECUTING"
                  /\ m + 1 \in 1..Len(p) /\ p[m + 1] = "COMPLETED"
             /\ p[m] = "COMPLETED" => m - 1 \in 1..Len(p) /\ p[m - 1] = "RECONCILING"
             /\ p[m] = "EXECUTING" => \E k \in 1..m : p[k] = "RISK_CHECKED"
  BY <1>1, <1>2, <1>3 DEF OffPath, TerminalStates
<1>6. Laid(p)
  BY <1>1, <1>4, <1>5 DEF Laid
<1> QED
  BY <1>6 DEF p

(* The path of a paper execution.                                          *)
LEMMA PaperPathLaid ==
  Laid(<<"RECEIVED", "SNAPSHOT_READY", "DATA_VALIDATED", "ANALYZED", "PORTFOLIO_READY",
       "RISK_CHECKED", "DRAFT_READY", "EXECUTING", "RECONCILING", "COMPLETED">>)
<1> DEFINE p == <<"RECEIVED", "SNAPSHOT_READY", "DATA_VALIDATED", "ANALYZED",
                  "PORTFOLIO_READY", "RISK_CHECKED", "DRAFT_READY", "EXECUTING", "RECONCILING",
                  "COMPLETED">>
<1>1. p \in Seq(RunStates) /\ Len(p) = 10
  BY DEF RunStates, PreExecutionStates, AfterExecutionStates, TerminalStates
<1>2. /\ p[1] = "RECEIVED" /\ p[2] = "SNAPSHOT_READY" /\ p[3] = "DATA_VALIDATED"
      /\ p[4] = "ANALYZED" /\ p[5] = "PORTFOLIO_READY" /\ p[6] = "RISK_CHECKED"
      /\ p[7] = "DRAFT_READY" /\ p[8] = "EXECUTING" /\ p[9] = "RECONCILING"
      /\ p[10] = "COMPLETED"
  OBVIOUS
<1>3. \A m \in 1..10 : m = 1 \/ m = 2 \/ m = 3 \/ m = 4 \/ m = 5 \/ m = 6
         \/ m = 7 \/ m = 8 \/ m = 9 \/ m = 10
  OBVIOUS
<1> HIDE DEF p
<1>4. \A m, n \in 1..Len(p) : p[m] = p[n] => m = n
  BY <1>1, <1>2, <1>3
<1>5. ASSUME NEW m \in 1..Len(p)
      PROVE  /\ p[m] \notin OffPath
             /\ p[m] = "EXECUTING" => m + 1 \in 1..Len(p) /\ p[m + 1] = "RECONCILING"
             /\ p[m] = "RECONCILING" =>
                  /\ m - 1 \in 1..Len(p) /\ p[m - 1] = "EXECUTING"
                  /\ m + 1 \in 1..Len(p) /\ p[m + 1] = "COMPLETED"
             /\ p[m] = "COMPLETED" => m - 1 \in 1..Len(p) /\ p[m - 1] = "RECONCILING"
             /\ p[m] = "EXECUTING" => \E k \in 1..m : p[k] = "RISK_CHECKED"
  BY <1>1, <1>2, <1>3 DEF OffPath, TerminalStates
<1>6. Laid(p)
  BY <1>1, <1>4, <1>5 DEF Laid
<1> QED
  BY <1>6 DEF p

(* The path of a live execution.                                           *)
LEMMA LivePathLaid ==
  Laid(<<"RECEIVED", "SNAPSHOT_READY", "DATA_VALIDATED", "ANALYZED", "PORTFOLIO_READY",
       "RISK_CHECKED", "DRAFT_READY", "PENDING_APPROVAL", "APPROVED", "EXECUTING",
       "RECONCILING", "COMPLETED">>)
<1> DEFINE p == <<"RECEIVED", "SNAPSHOT_READY", "DATA_VALIDATED", "ANALYZED",
                  "PORTFOLIO_READY", "RISK_CHECKED", "DRAFT_READY", "PENDING_APPROVAL",
                  "APPROVED", "EXECUTING", "RECONCILING", "COMPLETED">>
<1>1. p \in Seq(RunStates) /\ Len(p) = 12
  BY DEF RunStates, PreExecutionStates, AfterExecutionStates, TerminalStates
<1>2. /\ p[1] = "RECEIVED" /\ p[2] = "SNAPSHOT_READY" /\ p[3] = "DATA_VALIDATED"
      /\ p[4] = "ANALYZED" /\ p[5] = "PORTFOLIO_READY" /\ p[6] = "RISK_CHECKED"
      /\ p[7] = "DRAFT_READY" /\ p[8] = "PENDING_APPROVAL" /\ p[9] = "APPROVED"
      /\ p[10] = "EXECUTING" /\ p[11] = "RECONCILING" /\ p[12] = "COMPLETED"
  OBVIOUS
<1>3. \A m \in 1..12 : m = 1 \/ m = 2 \/ m = 3 \/ m = 4 \/ m = 5 \/ m = 6
         \/ m = 7 \/ m = 8 \/ m = 9 \/ m = 10 \/ m = 11 \/ m = 12
  OBVIOUS
<1> HIDE DEF p
<1>4. \A m, n \in 1..Len(p) : p[m] = p[n] => m = n
  BY <1>1, <1>2, <1>3
<1>5. ASSUME NEW m \in 1..Len(p)
      PROVE  /\ p[m] \notin OffPath
             /\ p[m] = "EXECUTING" => m + 1 \in 1..Len(p) /\ p[m + 1] = "RECONCILING"
             /\ p[m] = "RECONCILING" =>
                  /\ m - 1 \in 1..Len(p) /\ p[m - 1] = "EXECUTING"
                  /\ m + 1 \in 1..Len(p) /\ p[m + 1] = "COMPLETED"
             /\ p[m] = "COMPLETED" => m - 1 \in 1..Len(p) /\ p[m - 1] = "RECONCILING"
             /\ p[m] = "EXECUTING" => \E k \in 1..m : p[k] = "RISK_CHECKED"
  BY <1>1, <1>2, <1>3 DEF OffPath, TerminalStates
<1>6. Laid(p)
  BY <1>1, <1>4, <1>5 DEF Laid
<1> QED
  BY <1>6 DEF p

(* All of them.                                                            *)
LEMMA PathsLaid == \A goal \in RunGoals : Laid(GoalPath[goal])
<1>1. RunGoals = {"MARKET_RESEARCH", "BACKTEST_REPORT", "PORTFOLIO_REPORT", "ORDER_DRAFT",
                  "PAPER_EXECUTION", "LIVE_ASSISTED_EXECUTION"}
  BY DEF RunGoals, ReportGoals, ExecutionGoals
<1>2. Laid(GoalPath["MARKET_RESEARCH"]) /\ Laid(GoalPath["BACKTEST_REPORT"])
  BY GoalPaths, ResearchPathLaid, Zenon
<1>3. Laid(GoalPath["PORTFOLIO_REPORT"]) /\ Laid(GoalPath["ORDER_DRAFT"])
  BY GoalPaths, PortfolioPathLaid, DraftPathLaid, Zenon
<1>4. Laid(GoalPath["PAPER_EXECUTION"]) /\ Laid(GoalPath["LIVE_ASSISTED_EXECUTION"])
  BY GoalPaths, PaperPathLaid, LivePathLaid, Zenon
<1> QED
  BY <1>1, <1>2, <1>3, <1>4

-----------------------------------------------------------------------------
(* Types: what the fold makes of a run and an event is a run.              *)

(* The kinds of events.                                                    *)
EventKinds ==
  SameStateObservations \cup SystemKinds
    \cup {"APPROVAL_RECORDED", "APPROVAL_REJECTED", "CANCELLATION_REQUESTED",
          "TIMEOUT_RECORDED", "INCIDENT_RECORDED"}

(* What events are triggered by.                                           *)
Triggers == {"SYSTEM", "TOOL", "HUMAN", "CANCELLATION", "TIMEOUT", "KILL_SWITCH"}

(* The codes of outcomes.                                                  *)
Codes ==
  ResponseCodes \cup {"STAGE_REJECTED", "PERMISSION_DENIED", "INVALID_ARGUMENTS", None}

(* Events as the contracts validate them.                                  *)
AgentEvent ==
  {e \in [kind : EventKinds, trigger : Triggers, before : RunStates, after : RunStates,
          at : Nat, call : Call \cup {None}, code : Codes,
          artifact : ArtifactKinds \cup {None}, expires : Nat \cup {None},
          approval : Approval \cup {None}] :
     /\ e.kind \in SameStateObservations => e.call \in Call
     /\ e.kind = "APPROVAL_RECORDED" => e.approval \in Approval}

(* The earliest of two times is a time.                                    *)
LEMMA EarliestOfTwo ==
  ASSUME NEW t \in Nat, NEW u \in Nat
  PROVE  Earliest({t, u}) \in Nat
<1>1. \E v \in {t, u} : \A w \in {t, u} : v <= w
  BY LeastNat
<1> QED
  BY <1>1 DEF Earliest

(* And of three.                                                           *)
LEMMA EarliestOfThree ==
  ASSUME NEW t \in Nat, NEW u \in Nat, NEW v \in Nat
  PROVE  Earliest({t, u, v}) \in Nat
<1>1. \E x \in {t, u, v} : \A w \in {t, u, v} : x <= w
  BY LeastNat
<1> QED
  BY <1>1 DEF Earliest

(* A run with other counters is a run.                                     *)
LEMMA RunCounted ==
  \A r \in Run : \A state \in RunStates, calls \in Nat, invalid \in Nat, reconciliations \in Nat :
    [r EXCEPT !.state = state, !.calls = calls, !.invalid = invalid,
              !.reconciliations = reconciliations] \in Run
BY DEF Run

(* A run with other artifacts and another call is a run.                   *)
LEMMA RunGathered ==
  \A r \in Run : \A cancelled \in BOOLEAN, pending \in Call \cup {None},
                    locked \in [WriteTools -> Identity \cup {None}],
                    artifacts \in SUBSET ArtifactKinds :
    [r EXCEPT !.cancelled = cancelled, !.pending = pending,
              !.locked = locked, !.artifacts = artifacts] \in Run
BY DEF Run

(* A run with another draft or approval is a run.                          *)
LEMMA RunApproved ==
  \A r \in Run : \A draftExpiry \in Nat \cup {None}, approved \in BOOLEAN,
                    since \in Nat \cup {None}, deadline \in Nat \cup {None} :
    [r EXCEPT !.draftExpiry = draftExpiry, !.approved = approved,
              !.approvalSince = since, !.approvalDeadline = deadline] \in Run
BY DEF Run

(* A run after one more event is a run.                                    *)
LEMMA AbsorbTyped ==
  ASSUME NEW r \in Run, NEW e \in AgentEvent
  PROVE  Absorb(r, e) \in Run
<1> DEFINE reserved == e.kind = "TOOL_CALL_RESERVED"
           outcome == e.kind \in ToolOutcomes
           one(condition) == IF condition THEN 1 ELSE 0
           draftExpiry == IF e.artifact = "ORDER_DRAFT" /\ "ORDER_DRAFT" \notin r.artifacts
                          THEN e.expires ELSE r.draftExpiry
           pending == IF reserved THEN e.call
                      ELSE IF outcome \/ e.after \in TerminalStates THEN None ELSE r.pending
           locked == IF outcome /\ e.kind # "TOOL_CALL_REJECTED" /\ e.call.tool \in WriteTools
                     THEN [r.locked EXCEPT ![e.call.tool] = IdentityOf(e.call)] ELSE r.locked
           since == IF OpensApproval(e) THEN e.at ELSE r.approvalSince
           deadline ==
              IF OpensApproval(e) /\ draftExpiry # None
                THEN Earliest({draftExpiry, Timeout, e.at + ApprovalTimeout})
              ELSE IF e.kind = "APPROVAL_RECORDED" /\ r.approvalDeadline # None
                THEN Earliest({r.approvalDeadline, e.approval.expires})
              ELSE r.approvalDeadline
           calls == r.calls + one(reserved)
           reconciliations == r.reconciliations
                                + one(reserved /\ e.call.tool = "reconcile_account")
           invalid == r.invalid + one(e.kind = "TOOL_CALL_REJECTED")
           cancelled == r.cancelled \/ e.kind = "CANCELLATION_REQUESTED"
           approved == r.approved \/ e.kind = "APPROVAL_RECORDED"
<1>1. /\ r.state \in RunStates /\ r.goal \in RunGoals
      /\ r.calls \in Nat /\ r.invalid \in Nat /\ r.reconciliations \in Nat
      /\ r.cancelled \in BOOLEAN /\ r.artifacts \in SUBSET ArtifactKinds
      /\ r.draftExpiry \in Nat \cup {None} /\ r.approved \in BOOLEAN
      /\ r.approvalSince \in Nat \cup {None} /\ r.approvalDeadline \in Nat \cup {None}
      /\ r.pending \in Call \cup {None} /\ r.locked \in [WriteTools -> Identity \cup {None}]
  BY DEF Run
<1>2. /\ e.kind \in EventKinds /\ e.after \in RunStates /\ e.at \in Nat
      /\ e.call \in Call \cup {None} /\ e.artifact \in ArtifactKinds \cup {None}
      /\ e.expires \in Nat \cup {None}
      /\ e.kind \in SameStateObservations => e.call \in Call
      /\ e.kind = "APPROVAL_RECORDED" => e.approval \in Approval
  BY DEF AgentEvent
<1>3. draftExpiry \in Nat \cup {None}
  BY <1>1, <1>2
<1>4. pending \in Call \cup {None}
  BY <1>1, <1>2 DEF SameStateObservations
<1>5. locked \in [WriteTools -> Identity \cup {None}]
  <2>1. ASSUME outcome PROVE IdentityOf(e.call) \in Identity
    <3>1. e.call \in Call
      BY <1>2, <2>1 DEF SameStateObservations
    <3> QED
      BY <3>1 DEF IdentityOf, Call, Identity
  <2> HIDE DEF outcome
  <2> QED
    BY <1>1, <2>1
<1>6. since \in Nat \cup {None}
  BY <1>1, <1>2
<1>7. deadline \in Nat \cup {None}
  <2> HIDE DEF draftExpiry
  <2>1. CASE OpensApproval(e) /\ draftExpiry # None
    <3>1. draftExpiry \in Nat /\ Timeout \in Nat /\ e.at + ApprovalTimeout \in Nat
      BY <1>2, <1>3, <2>1, LimitsAssumption DEF LimitsAssumption
    <3>2. Earliest({draftExpiry, Timeout, e.at + ApprovalTimeout}) \in Nat
      BY <3>1, EarliestOfThree
    <3> QED
      BY <2>1, <3>2
  <2>2. CASE ~(OpensApproval(e) /\ draftExpiry # None)
             /\ e.kind = "APPROVAL_RECORDED" /\ r.approvalDeadline # None
    <3>1. r.approvalDeadline \in Nat /\ e.approval.expires \in Nat
      BY <1>1, <1>2, <2>2, RuntimeAssumption DEF RuntimeAssumption, Approval
    <3>2. Earliest({r.approvalDeadline, e.approval.expires}) \in Nat
      BY <3>1, EarliestOfTwo
    <3> QED
      BY <2>2, <3>2
  <2> QED
    BY <1>1, <2>1, <2>2
<1>8. Gathered(r, e) \in SUBSET ArtifactKinds
  BY <1>1, <1>2 DEF Gathered
<1>9. calls \in Nat /\ invalid \in Nat /\ reconciliations \in Nat
  BY <1>1
<1>10. Absorb(r, e) =
         [r EXCEPT
            !.state = e.after,
            !.calls = calls,
            !.reconciliations = reconciliations,
            !.invalid = invalid,
            !.cancelled = cancelled,
            !.pending = pending,
            !.locked = locked,
            !.artifacts = Gathered(r, e),
            !.draftExpiry = draftExpiry,
            !.approved = approved,
            !.approvalSince = since,
            !.approvalDeadline = deadline]
  BY Zenon DEF Absorb
<1>11. cancelled \in BOOLEAN /\ approved \in BOOLEAN
  BY <1>1
<1> HIDE DEF pending, locked, draftExpiry, since, deadline, one, reserved,
            calls, reconciliations, invalid, cancelled, approved
<1> DEFINE counted == [r EXCEPT !.state = e.after, !.calls = calls, !.invalid = invalid,
                                !.reconciliations = reconciliations]
           gathered == [counted EXCEPT !.cancelled = cancelled, !.pending = pending,
                                       !.locked = locked, !.artifacts = Gathered(r, e)]
           next == [gathered EXCEPT !.draftExpiry = draftExpiry, !.approved = approved,
                                    !.approvalSince = since, !.approvalDeadline = deadline]
<1>12. Absorb(r, e) = next
  BY <1>10
<1>13. counted \in Run
  BY <1>2, <1>9, RunCounted
<1> HIDE DEF counted
<1>14. gathered \in Run
  BY <1>4, <1>5, <1>8, <1>11, <1>13, RunGathered
<1> HIDE DEF gathered
<1>15. next \in Run
  BY <1>3, <1>6, <1>7, <1>11, <1>14, RunApproved
<1> QED
  BY <1>12, <1>15, Zenon

(* What one more event makes of a run, field by field.                     *)
LEMMA AbsorbFields ==
  ASSUME NEW r \in Run, NEW e
  PROVE  /\ Absorb(r, e).state = e.after
         /\ Absorb(r, e).goal = r.goal
         /\ Absorb(r, e).artifacts = Gathered(r, e)
         /\ Absorb(r, e).pending =
              IF e.kind = "TOOL_CALL_RESERVED" THEN e.call
              ELSE IF e.kind \in ToolOutcomes \/ e.after \in TerminalStates THEN None
              ELSE r.pending
         /\ Absorb(r, e).cancelled = (r.cancelled \/ e.kind = "CANCELLATION_REQUESTED")
         /\ Absorb(r, e).approved = (r.approved \/ e.kind = "APPROVAL_RECORDED")
         /\ Absorb(r, e).calls = r.calls + (IF e.kind = "TOOL_CALL_RESERVED" THEN 1 ELSE 0)
<1>1. /\ Absorb(r, e).state = e.after
      /\ Absorb(r, e).goal = r.goal
      /\ Absorb(r, e).artifacts = Gathered(r, e)
  BY DEF Absorb, Run
<1>2. Absorb(r, e).pending =
              IF e.kind = "TOOL_CALL_RESERVED" THEN e.call
              ELSE IF e.kind \in ToolOutcomes \/ e.after \in TerminalStates THEN None
              ELSE r.pending
  BY DEF Absorb, Run
<1>3. Absorb(r, e).cancelled = (r.cancelled \/ e.kind = "CANCELLATION_REQUESTED")
  BY DEF Absorb, Run
<1>4. Absorb(r, e).approved = (r.approved \/ e.kind = "APPROVAL_RECORDED")
  BY DEF Absorb, Run
<1>5. Absorb(r, e).calls = r.calls + (IF e.kind = "TOOL_CALL_RESERVED" THEN 1 ELSE 0)
  BY DEF Absorb, Run
<1> QED
  BY <1>1, <1>2, <1>3, <1>4, <1>5

(* What an accepted event satisfies.                                       *)
LEMMA StepOk ==
  ASSUME NEW a, NEW e, ReplayStep(a, e).ok
  PROVE  /\ a.ok /\ ReplayStep(a, e).run = Absorb(a.run, e)
         /\ e.before = a.run.state
         /\ ValidTransition(e.before, e.after, a.run.goal, e.kind)
         /\ CancellationFits(a.run, e) /\ PendingRespected(a, e) /\ MayReserve(a.run, e)
         /\ e.kind \in ToolOutcomes => OutcomeFits(a, e)
         /\ DeadlineFits(Absorb(a.run, e), e)
         /\ WithinLimits(Absorb(a.run, e))
         /\ MilestoneProven(Absorb(a.run, e))
BY DEF ReplayStep

-----------------------------------------------------------------------------
(* Runs that are where their path leads and hold the evidence of every     *)
(* stage behind them; every accepted event keeps a run one.                *)

(* The run is on the path of its goal or ended off it.                     *)
OnPath(r) == r.state \in ToSet(GoalPath[r.goal]) \cup OffPath

(* The run holds the evidence of every stage behind it.                    *)
Evidence(r) ==
  \A state \in StepsBehind(r) \cap ProvenStates : Proof(state, r.goal) \cap r.artifacts # {}

(* A run enters a stage of its path from the stage before.                 *)
LEMMA NextStage ==
  ASSUME NEW goal \in RunGoals, NEW before \in RunStates, NEW after \in RunStates,
         NEW kind \in EventKinds,
         ValidTransition(before, after, goal, kind), before # after,
         NEW m \in 1..Len(GoalPath[goal]), GoalPath[goal][m] = after
  PROVE  m - 1 \in 1..Len(GoalPath[goal]) /\ GoalPath[goal][m - 1] = before
<1> DEFINE p == GoalPath[goal]
<1>1. Laid(p)
  BY PathsLaid
<1>2. after \notin OffPath
  BY <1>1 DEF Laid
<1>3. before \notin TerminalStates /\ after \in LegalTargets(before, goal)
  BY DEF ValidTransition
<1>4. CASE before = "EXECUTING"
  <2>1. after = "RECONCILING"
    BY <1>2, <1>3, <1>4 DEF LegalTargets, OffPath, TerminalStates
  <2> QED
    BY <1>1, <1>4, <2>1 DEF Laid
<1>5. CASE before = "RECONCILING"
  <2>1. after = "COMPLETED"
    BY <1>2, <1>3, <1>5 DEF LegalTargets, OffPath, TerminalStates
  <2> QED
    BY <1>1, <1>5, <2>1 DEF Laid
<1>6. CASE before \notin {"EXECUTING", "RECONCILING"}
  <2>1. after \in PathSuccessors(goal, before)
    BY <1>2, <1>3, <1>6 DEF LegalTargets, OffPath, TerminalStates
  <2>2. PICK k \in 1..Len(p) - 1 : p[k] = before /\ p[k + 1] = after
    BY <2>1 DEF PathSuccessors
  <2> HIDE DEF p
  <2>3. Len(p) \in Nat
    BY <1>1, LenProperties DEF Laid
  <2>4. k + 1 \in 1..Len(p) /\ k \in 1..Len(p)
    BY <2>3
  <2>5. m \in 1..Len(p) /\ p[m] = after
    BY DEF p
  <2>6. m = k + 1
    BY <1>1, <2>2, <2>4, <2>5 DEF Laid
  <2>7. m - 1 = k
    BY <2>6
  <2> QED
    BY <2>2, <2>4, <2>7 DEF p
<1> QED
  BY <1>4, <1>5, <1>6

(* An event leaves a run on its path or ends it.                           *)
LEMMA OnPathKept ==
  ASSUME NEW goal \in RunGoals, NEW before \in RunStates, NEW after \in RunStates,
         NEW kind \in EventKinds,
         ValidTransition(before, after, goal, kind),
         before \in ToSet(GoalPath[goal]) \cup OffPath
  PROVE  after \in ToSet(GoalPath[goal]) \cup OffPath
<1> DEFINE p == GoalPath[goal]
<1>1. Laid(p)
  BY PathsLaid
<1>2. before \notin TerminalStates /\ (before # after => after \in LegalTargets(before, goal))
  BY DEF ValidTransition
<1>3. ToSet(p) = {p[k] : k \in 1..Len(p)}
  BY <1>1 DEF ToSet, Laid
<1>4. PICK k \in 1..Len(p) : p[k] = before
  BY <1>2, <1>3 DEF OffPath
<1>5. CASE before = after
  BY <1>5
<1>6. CASE before # after /\ before \in {"EXECUTING", "RECONCILING"}
  <2>1. k + 1 \in 1..Len(p) /\ p[k + 1] = IF before = "EXECUTING" THEN "RECONCILING" ELSE "COMPLETED"
    BY <1>1, <1>4, <1>6 DEF Laid
  <2>2. p[k + 1] \in ToSet(p)
    BY <1>3, <2>1
  <2>3. after \in {p[k + 1]} \cup OffPath
    BY <1>2, <1>6, <2>1 DEF LegalTargets, OffPath, TerminalStates
  <2> QED
    BY <2>2, <2>3
<1>7. CASE before # after /\ before \notin {"EXECUTING", "RECONCILING"}
  <2>1. after \in PathSuccessors(goal, before) \cup OffPath
    BY <1>2, <1>7 DEF LegalTargets, OffPath, TerminalStates
  <2>2. PathSuccessors(goal, before) \subseteq ToSet(p)
    <3>1. Len(p) \in Nat
      BY <1>1, LenProperties DEF Laid
    <3>2. \A n \in 1..Len(p) - 1 : n + 1 \in 1..Len(p)
      BY <3>1
    <3> QED
      BY <1>3, <3>2 DEF PathSuccessors
  <2> QED
    BY <2>1, <2>2
<1> QED
  BY <1>5, <1>6, <1>7

(* Stored runs: on their path, with their evidence, and without a call when*)
(* they ended.                                                             *)
SoundRuns ==
  {r \in Run : /\ r.goal \in Goal
               /\ OnPath(r)
               /\ Evidence(r)
               /\ r.pending # None => Open(r)}

(* An event leaves a run with the evidence of its stages.                  *)
LEMMA EvidenceKept ==
  ASSUME NEW r \in Run, NEW e \in AgentEvent, Evidence(r), e.before = r.state,
         ValidTransition(e.before, e.after, r.goal, e.kind),
         MilestoneProven(Absorb(r, e))
  PROVE  Evidence(Absorb(r, e))
<1> DEFINE next == Absorb(r, e)
           p == GoalPath[r.goal]
<1>1. next.state = e.after /\ next.goal = r.goal /\ r.artifacts \subseteq next.artifacts
  BY AbsorbFields DEF Gathered
<1>2. /\ r.goal \in RunGoals /\ e.before \in RunStates /\ e.after \in RunStates
      /\ e.kind \in EventKinds
  BY DEF Run, AgentEvent
<1>3. DOMAIN p = 1..Len(p) /\ Len(p) \in Nat
  BY <1>2, PathsLaid, LenProperties DEF Laid
<1> SUFFICES ASSUME NEW state \in StepsBehind(next) \cap ProvenStates
             PROVE  Proof(state, next.goal) \cap next.artifacts # {}
  BY DEF Evidence
<1> HIDE DEF next
<1>4. PICK n \in 1..Len(p), m \in 1..Len(p) : state = p[n] /\ p[m] = e.after /\ n <= m
  BY <1>1, <1>3 DEF StepsBehind
<1>5. state \in StepsBehind(r) => Proof(state, next.goal) \cap next.artifacts # {}
  BY <1>1 DEF Evidence
<1>6. CASE e.before = e.after
  <2>1. state \in StepsBehind(r)
    BY <1>3, <1>4, <1>6 DEF StepsBehind
  <2> QED
    BY <1>5, <2>1
<1>7. CASE e.before # e.after
  <2>1. m - 1 \in 1..Len(p) /\ p[m - 1] = e.before
    BY <1>2, <1>4, <1>7, NextStage
  <2>2. CASE n <= m - 1
    <3>1. state \in StepsBehind(r)
      BY <1>3, <1>4, <2>1, <2>2 DEF StepsBehind
    <3> QED
      BY <1>5, <3>1
  <2>3. CASE ~(n <= m - 1)
    <3>1. n = m
      BY <1>3, <1>4, <2>3
    <3>2. state = next.state
      BY <1>1, <1>4, <3>1
    <3> QED
      BY <3>2 DEF MilestoneProven, next
  <2> QED
    BY <2>2, <2>3
<1> QED
  BY <1>6, <1>7

(* A reservation does not move the run.                                    *)
LEMMA ReservedStays ==
  ASSUME NEW before, NEW after, NEW goal,
         ValidTransition(before, after, goal, "TOOL_CALL_RESERVED")
  PROVE  before = after /\ before \notin TerminalStates
BY DEF ValidTransition, ChangingKindFits

(* An accepted event keeps a run sound.                                    *)
LEMMA StepSound ==
  \A a, e : e \in AgentEvent /\ a.run \in SoundRuns /\ ReplayStep(a, e).ok
              => ReplayStep(a, e).run \in SoundRuns
<1> SUFFICES ASSUME NEW a, NEW e \in AgentEvent, a.run \in SoundRuns, ReplayStep(a, e).ok
             PROVE  ReplayStep(a, e).run \in SoundRuns
  OBVIOUS
<1> DEFINE r == a.run
           next == Absorb(r, e)
<1>1. /\ ReplayStep(a, e).run = next
      /\ e.before = r.state
      /\ ValidTransition(e.before, e.after, r.goal, e.kind)
      /\ MilestoneProven(next)
  BY StepOk
<1>2. /\ r \in Run /\ r.goal \in Goal /\ OnPath(r) /\ Evidence(r)
      /\ r.pending # None => Open(r)
  BY DEF SoundRuns
<1>3. /\ r.goal \in RunGoals /\ e.before \in RunStates /\ e.after \in RunStates
      /\ e.kind \in EventKinds
  BY <1>2 DEF Run, AgentEvent
<1> HIDE DEF r
<1>4. next \in Run
  BY <1>2, AbsorbTyped
<1>5. /\ next.state = e.after /\ next.goal = r.goal
      /\ next.pending =
              IF e.kind = "TOOL_CALL_RESERVED" THEN e.call
              ELSE IF e.kind \in ToolOutcomes \/ e.after \in TerminalStates THEN None
              ELSE r.pending
  BY <1>2, AbsorbFields
<1>6. Evidence(next)
  BY <1>1, <1>2, EvidenceKept
<1> HIDE DEF next
<1>7. OnPath(next)
  BY <1>1, <1>2, <1>3, <1>5, OnPathKept DEF OnPath
<1>8. next.pending # None => Open(next)
  BY <1>1, <1>5, ReservedStays DEF Open
<1> QED
  BY <1>1, <1>2, <1>4, <1>5, <1>6, <1>7, <1>8 DEF SoundRuns

(* What every event keeps, any chain keeps.                                *)
LEMMA ReplayKept ==
  ASSUME NEW E, NEW S, NEW events \in Seq(E), NEW r \in S,
         \A a, e : e \in E /\ a.run \in S => ReplayStep(a, e).run \in S
  PROVE  Replay(r, events).run \in S
<1> DEFINE n == Len(events)
<1>1. PICK d : /\ d[0] = Resume(r)
               /\ \A k \in 1..n : d[k] = ReplayStep(d[k - 1], events[k])
               /\ Replay(r, events) = d[n]
  BY ReplaySteps
<1>2. n \in Nat /\ \A k \in 1..n : events[k] \in E
  BY LenProperties, ElementOfSeq
<1> HIDE DEF n
<1> DEFINE Bad == {k \in Nat : k <= n /\ d[k].run \notin S}
<1>3. d[0].run = r
  BY <1>1 DEF Resume
<1>4. ASSUME Bad # {} PROVE FALSE
  <2>1. PICK k \in Bad : \A m \in Bad : k <= m
    BY <1>4, LeastNat
  <2>2. k # 0
    BY <1>3, <2>1
  <2>3. k \in 1..n /\ k - 1 \in Nat /\ k - 1 <= n /\ k - 1 \notin Bad
    BY <1>2, <2>1, <2>2
  <2>4. d[k] = ReplayStep(d[k - 1], events[k]) /\ d[k].run \notin S /\ events[k] \in E
    BY <1>1, <1>2, <2>1, <2>3
  <2>5. d[k - 1].run \in S
    BY <2>3
  <2> QED
    BY <2>4, <2>5
<1> QED
  BY <1>1, <1>2, <1>4

-----------------------------------------------------------------------------
(* The events the service builds are events, whatever it was answered.     *)

(* A run after any events is a run.                                        *)
LEMMA AfterTyped ==
  \A r \in Run, events \in Seq(AgentEvent) : After(r, events) \in Run
<1> SUFFICES ASSUME NEW r \in Run, NEW events \in Seq(AgentEvent)
             PROVE  After(r, events) \in Run
  OBVIOUS
<1>1. \A a, e : e \in AgentEvent /\ a.run \in Run => ReplayStep(a, e).run \in Run
  BY AbsorbTyped DEF ReplayStep
<1> QED
  BY <1>1, ReplayKept DEF After

(* A sound run is sound after the events of any chain that can be stored.  *)
LEMMA AfterSound ==
  \A r \in SoundRuns, events \in Seq(AgentEvent) :
    Replayable(r, events) => After(r, events) \in SoundRuns
<1> SUFFICES ASSUME NEW r \in SoundRuns, NEW events \in Seq(AgentEvent), Replayable(r, events)
             PROVE  After(r, events) \in SoundRuns
  OBVIOUS
<1>1. Replay(r, events).ok
  BY DEF Replayable
<1> QED
  BY <1>1, StepSound, ReplayClosed DEF After

(* Events of the system and of people are events.                          *)
LEMMA EventTyped ==
  \A kind \in EventKinds \ (SameStateObservations \cup {"APPROVAL_RECORDED"}) :
  \A trigger \in Triggers, before \in RunStates, after \in RunStates, at \in Nat :
    Event(kind, trigger, before, after, at) \in AgentEvent
BY DEF Event, AgentEvent, Codes

(* So are those that move a run.                                           *)
LEMMA MoveTyped ==
  \A r \in Run :
  \A kind \in EventKinds \ (SameStateObservations \cup {"APPROVAL_RECORDED"}) :
  \A trigger \in Triggers, after \in RunStates :
    clock \in Nat => Move(r, kind, trigger, after) \in AgentEvent
BY EventTyped DEF Move, Run

(* So is the end of a run that is out of budget.                           *)
LEMMA StopTyped ==
  \A r \in Run : clock \in Nat => Stop(r) \in AgentEvent
<1>1. {"INCIDENT_RECORDED", "LIMIT_REACHED"}
         \subseteq EventKinds \ (SameStateObservations \cup {"APPROVAL_RECORDED"})
  BY DEF EventKinds, SystemKinds, SameStateObservations, ToolOutcomes
<1>2. "SYSTEM" \in Triggers /\ {"INCIDENT", "LIMIT_EXCEEDED"} \subseteq RunStates
  BY DEF Triggers, RunStates, TerminalStates
<1> QED
  BY <1>1, <1>2, MoveTyped DEF Stop

(* So are those of tool calls.                                             *)
LEMMA ToolEventTyped ==
  \A r \in Run, kind \in SameStateObservations, c \in Call, after \in RunStates :
    clock \in Nat => ToolEvent(r, kind, c, after) \in AgentEvent
BY DEF ToolEvent, Move, Event, AgentEvent, Codes, Run, EventKinds, SystemKinds, Triggers,
       SameStateObservations, ToolOutcomes

(* With any code.                                                          *)
LEMMA CodeTyped ==
  \A e \in AgentEvent, code \in Codes : [e EXCEPT !.code = code] \in AgentEvent
BY DEF AgentEvent

(* And with what the response yielded.                                     *)
LEMMA ArtifactTyped ==
  \A e \in AgentEvent, code \in Codes, artifact \in ArtifactKinds \cup {None},
     expires \in Nat \cup {None} :
    [e EXCEPT !.code = code, !.artifact = artifact, !.expires = expires] \in AgentEvent
BY DEF AgentEvent

(* What a tool may answer.                                                 *)
Answer ==
  [kind : {"ok"}, verdict : Verdict, expires : Nat]
    \cup [kind : {"failed"}, code : ResponseCodes]
    \cup [kind : {"denied", "arguments", "raised"}]

(* The runs a reservation may leave: their call is offered at their stage, *)
(* and is their latest.                                                    *)
Reservations ==
  {r \in SoundRuns : /\ r.pending # None
                     /\ r.pending.tool \in StageTools(r.state, r.goal)
                     /\ r.pending.request = r.calls}

(* The kinds of answers, and what comes with each.                         *)
LEMMA AnswerKinds ==
  ASSUME NEW answer \in Answer
  PROVE  /\ answer.kind \in {"ok", "failed", "denied", "arguments", "raised"}
         /\ answer.kind = "ok" => answer.verdict \in Verdict /\ answer.expires \in Nat
         /\ answer.kind = "failed" => answer.code \in ResponseCodes
BY DEF Answer

(* A failure leads to a state.                                             *)
LEMMA FailedStateTyped ==
  ASSUME NEW state \in RunStates, NEW tool, NEW code
  PROVE  FailedState(state, tool, code) \in RunStates
BY DEF FailedState, RunStates, TerminalStates

(* So does a success.                                                      *)
LEMMA SuccessTargetTyped ==
  ASSUME NEW r \in Run, NEW tool, NEW verdict \in Verdict
  PROVE  SuccessTarget(r, tool, verdict) \in RunStates
<1>1. /\ {"DATA_VALIDATED", "DATA_INVALID", "ANALYZED", "PORTFOLIO_READY", "RISK_CHECKED",
          "REJECTED", "DRAFT_READY", "RECONCILING", "COMPLETED", "INCIDENT", "REPORTED"}
           \subseteq RunStates
      /\ r.state \in RunStates
  BY DEF Run, RunStates, PreExecutionStates, AfterExecutionStates, TerminalStates
<1>2. verdict \in {"accepted", "rejected", "error"}
  BY DEF Verdict
<1> QED
  BY <1>1, <1>2 DEF SuccessTarget

(* So does any response.                                                   *)
LEMMA ResponseTargetTyped ==
  ASSUME NEW r \in Run, NEW tool, NEW answer \in Answer
  PROVE  ResponseTarget(r, tool, answer) \in RunStates
<1>1. r.state \in RunStates
  BY DEF Run
<1>2. CASE answer.kind = "ok"
  <2>1. answer.verdict \in Verdict
    BY <1>2, AnswerKinds
  <2> QED
    BY <1>2, <2>1, SuccessTargetTyped DEF ResponseTarget
<1>3. CASE answer.kind # "ok"
  BY <1>1, <1>3, FailedStateTyped DEF ResponseTarget
<1> QED
  BY <1>2, <1>3

(* Events of outcomes that lead into T.                                    *)
Into(T) == {e \in AgentEvent : e.kind # "TOOL_CALL_RESERVED" /\ e.after \in T}

(* Where a run may go by itself after an outcome.                          *)
ClosingStates ==
  {"EXPIRED", "TIMED_OUT", "LIMIT_EXCEEDED", "FAILED", "INCIDENT", "REJECTED", "EXECUTING",
   "PENDING_APPROVAL"}

(* A sequence over S is one over any larger set.                           *)
LEMMA SeqGrows ==
  ASSUME NEW S, NEW T, S \subseteq T, NEW s \in Seq(S)
  PROVE  s \in Seq(T)
<1>1. s \in [1..Len(s) -> S] /\ Len(s) \in Nat
  BY LenProperties
<1>2. s \in [1..Len(s) -> T]
  BY <1>1
<1> QED
  BY <1>1, <1>2, IsASeq

(* They are events.                                                        *)
LEMMA IntoTyped == \A T : Into(T) \subseteq AgentEvent
BY DEF Into

(* A move leads where it says.                                             *)
LEMMA MoveInto ==
  \A T : \A r \in Run :
  \A kind \in EventKinds \ (SameStateObservations \cup {"APPROVAL_RECORDED"}) :
  \A trigger \in Triggers, after \in RunStates \cap T :
    clock \in Nat => Move(r, kind, trigger, after) \in Into(T)
<1> SUFFICES ASSUME NEW T, NEW r \in Run,
                    NEW kind \in EventKinds \ (SameStateObservations \cup {"APPROVAL_RECORDED"}),
                    NEW trigger \in Triggers, NEW after \in RunStates \cap T, clock \in Nat
             PROVE  Move(r, kind, trigger, after) \in Into(T)
  OBVIOUS
<1>1. Move(r, kind, trigger, after) \in AgentEvent
  BY MoveTyped
<1>2. /\ Move(r, kind, trigger, after).kind = kind
      /\ Move(r, kind, trigger, after).after = after
  BY DEF Move, Event
<1>3. kind # "TOOL_CALL_RESERVED"
  BY DEF SameStateObservations
<1> QED
  BY <1>1, <1>2, <1>3 DEF Into

(* A timeout closes the run.                                               *)
LEMMA TimedOutInto ==
  ASSUME NEW T, ClosingStates \subseteq T, NEW r \in Run, clock \in Nat
  PROVE  TimedOut(r) \in Into(T)
<1>1. "TIMEOUT_RECORDED" \in EventKinds \ (SameStateObservations \cup {"APPROVAL_RECORDED"})
  BY DEF EventKinds, SystemKinds, SameStateObservations, ToolOutcomes
<1>2. "TIMEOUT" \in Triggers /\ "TIMED_OUT" \in RunStates \cap T
  BY DEF Triggers, RunStates, TerminalStates, ClosingStates
<1> QED
  BY <1>1, <1>2, MoveInto DEF TimedOut

(* So does a spent budget.                                                 *)
LEMMA StopInto ==
  ASSUME NEW T, ClosingStates \subseteq T, NEW r \in Run, clock \in Nat
  PROVE  Stop(r) \in Into(T)
<1>1. {"INCIDENT_RECORDED", "LIMIT_REACHED"}
         \subseteq EventKinds \ (SameStateObservations \cup {"APPROVAL_RECORDED"})
  BY DEF EventKinds, SystemKinds, SameStateObservations, ToolOutcomes
<1>2. "SYSTEM" \in Triggers /\ {"INCIDENT", "LIMIT_EXCEEDED"} \subseteq RunStates \cap T
  BY DEF Triggers, RunStates, TerminalStates, ClosingStates
<1>3. /\ Move(r, "INCIDENT_RECORDED", "SYSTEM", "INCIDENT") \in Into(T)
      /\ Move(r, "LIMIT_REACHED", "SYSTEM", "LIMIT_EXCEEDED") \in Into(T)
  BY <1>1, <1>2, MoveInto
<1> QED
  BY <1>3 DEF Stop

(* The limit after a response closes the run or does nothing.              *)
LEMMA PostCallInto ==
  ASSUME NEW T, ClosingStates \subseteq T, NEW r \in Run, clock \in Nat
  PROVE  PostCallLimit(r) \in Seq(Into(T))
<1>1. Stop(r) \in Into(T)
  BY StopInto
<1> QED
  BY <1>1 DEF PostCallLimit

(* A locked draft goes on to its approval, its execution or its end.       *)
LEMMA AutomaticInto ==
  ASSUME NEW T, ClosingStates \subseteq T, NEW r \in Run, NEW tool, NEW answer, clock \in Nat
  PROVE  Automatic(r, tool, answer) \in Seq(Into(T))
<1>1. {"TIMEOUT_RECORDED", "STATE_TRANSITION"}
         \subseteq EventKinds \ (SameStateObservations \cup {"APPROVAL_RECORDED"})
  BY DEF EventKinds, SystemKinds, SameStateObservations, ToolOutcomes
<1>2. {"TIMEOUT", "SYSTEM"} \subseteq Triggers
      /\ {"EXPIRED", "EXECUTING", "PENDING_APPROVAL"} \subseteq RunStates \cap T
  BY DEF Triggers, RunStates, PreExecutionStates, AfterExecutionStates, TerminalStates, ClosingStates
<1>3. /\ Move(r, "TIMEOUT_RECORDED", "TIMEOUT", "EXPIRED") \in Into(T)
      /\ Move(r, "STATE_TRANSITION", "SYSTEM", "EXECUTING") \in Into(T)
      /\ Move(r, "STATE_TRANSITION", "SYSTEM", "PENDING_APPROVAL") \in Into(T)
  BY <1>1, <1>2, MoveInto
<1>4. \A e \in Into(T) : <<e>> \in Seq(Into(T))
  OBVIOUS
<1>5. <<>> \in Seq(Into(T))
  OBVIOUS
<1> QED
  BY <1>3, <1>4, <1>5, Zenon DEF Automatic

(* The event of a response.                                                *)
ResponseOutcome(r, c, answer, after) ==
  [ToolEvent(r, ResponseKind(answer), c, after) EXCEPT
     !.code = IF answer.kind = "failed" THEN answer.code ELSE None,
     !.artifact = IF answer.kind = "ok" /\ Yields[c.tool] \notin r.artifacts
                  THEN Yields[c.tool] ELSE None,
     !.expires = IF answer.kind = "ok" /\ c.tool = "create_order_draft"
                 THEN answer.expires ELSE None]

(* It leads where the response leads.                                      *)
LEMMA OutcomeInto ==
  ASSUME NEW T, NEW r \in Run, NEW c \in Call, NEW answer \in Answer,
         NEW after \in RunStates \cap T, clock \in Nat
  PROVE  /\ ResponseOutcome(r, c, answer, after) \in Into(T)
         /\ ResponseOutcome(r, c, answer, after).after = after
<1> DEFINE code == IF answer.kind = "failed" THEN answer.code ELSE None
           artifact == IF answer.kind = "ok" /\ Yields[c.tool] \notin r.artifacts
                       THEN Yields[c.tool] ELSE None
           expires == IF answer.kind = "ok" /\ c.tool = "create_order_draft"
                      THEN answer.expires ELSE None
           outcome == [ToolEvent(r, ResponseKind(answer), c, after)
                         EXCEPT !.code = code, !.artifact = artifact, !.expires = expires]
<1>1. c.tool \in AllTools
  BY DEF Call
<1>2. code \in Codes
  BY AnswerKinds DEF Codes
<1>3. artifact \in ArtifactKinds \cup {None}
  BY <1>1 DEF ArtifactKinds
<1>4. expires \in Nat \cup {None}
  BY AnswerKinds
<1>5. ResponseKind(answer) \in SameStateObservations
  BY DEF ResponseKind, SameStateObservations, ToolOutcomes
<1>6. ResponseOutcome(r, c, answer, after) = outcome
  BY DEF ResponseOutcome
<1> HIDE DEF code, artifact, expires
<1>7. outcome \in AgentEvent
  BY <1>2, <1>3, <1>4, <1>5, ToolEventTyped, ArtifactTyped
<1>8. outcome.kind = ResponseKind(answer) /\ outcome.after = after
  BY DEF ToolEvent, Move, Event
<1>9. ResponseKind(answer) # "TOOL_CALL_RESERVED"
  BY DEF ResponseKind
<1> HIDE DEF outcome
<1> QED
  BY <1>6, <1>7, <1>8, <1>9 DEF Into

(* A response is recorded as its event, the limit and the automatic step.  *)
LEMMA ResponseShape ==
  \A r, c, answer :
    LET after == IF Late(c.tool) THEN r.state ELSE ResponseTarget(r, c.tool, answer)
        outcome == ResponseOutcome(r, c, answer, after)
        recorded == IF Late(c.tool) THEN <<outcome, TimedOut(r)>> ELSE <<outcome>>
        limit == PostCallLimit(After(r, recorded)) IN
    ResponseEvents(r, c, answer) =
      (recorded \o limit) \o Automatic(After(r, recorded \o limit), c.tool, answer)
BY DEF ResponseEvents, ResponseOutcome

(* The events of a response lead into any T that holds the state of the    *)
(* run, the target of the response and the ways a run goes on by itself.   *)
LEMMA ResponseInto ==
  ASSUME NEW T, ClosingStates \subseteq T, NEW r \in Run, r.state \in T, NEW c \in Call,
         NEW answer \in Answer, ResponseTarget(r, c.tool, answer) \in T, clock \in Nat
  PROVE  ResponseEvents(r, c, answer) \in Seq(Into(T))
<1> DEFINE after == IF Late(c.tool) THEN r.state ELSE ResponseTarget(r, c.tool, answer)
           outcome == ResponseOutcome(r, c, answer, after)
           recorded == IF Late(c.tool) THEN <<outcome, TimedOut(r)>> ELSE <<outcome>>
           limit == PostCallLimit(After(r, recorded))
           automatic == Automatic(After(r, recorded \o limit), c.tool, answer)
<1>1. after \in RunStates \cap T
  BY ResponseTargetTyped DEF Run
<1>2. outcome \in Into(T)
  BY <1>1, OutcomeInto
<1>3. ResponseEvents(r, c, answer) = (recorded \o limit) \o automatic
  BY ResponseShape
<1> HIDE DEF outcome
<1>4. recorded \in Seq(Into(T))
  BY <1>2, TimedOutInto
<1> HIDE DEF recorded
<1>5. limit \in Seq(Into(T))
  <2>1. recorded \in Seq(AgentEvent)
    BY <1>4, IntoTyped, SeqGrows
  <2>2. After(r, recorded) \in Run
    BY <2>1, AfterTyped
  <2> QED
    BY <2>2, PostCallInto
<1> HIDE DEF limit
<1>6. recorded \o limit \in Seq(Into(T))
  BY <1>4, <1>5, ConcatProperties
<1>7. automatic \in Seq(Into(T))
  <2>1. recorded \o limit \in Seq(AgentEvent)
    BY <1>6, IntoTyped, SeqGrows
  <2>2. After(r, recorded \o limit) \in Run
    BY <2>1, AfterTyped
  <2> QED
    BY <2>2, AutomaticInto
<1> HIDE DEF automatic
<1> QED
  BY <1>3, <1>6, <1>7, ConcatProperties

(* Those are states.                                                       *)
LEMMA AllStates == ClosingStates \subseteq RunStates
BY DEF ClosingStates, RunStates, PreExecutionStates, AfterExecutionStates, TerminalStates

(* The events of a response are events.                                    *)
LEMMA ResponseTyped ==
  ASSUME NEW r \in Run, NEW c \in Call, NEW answer \in Answer, clock \in Nat
  PROVE  ResponseEvents(r, c, answer) \in Seq(AgentEvent)
<1>1. r.state \in RunStates /\ ResponseTarget(r, c.tool, answer) \in RunStates
  BY ResponseTargetTyped DEF Run
<1>2. ResponseEvents(r, c, answer) \in Seq(Into(RunStates))
  BY <1>1, AllStates, ResponseInto
<1> QED
  BY <1>2, IntoTyped, SeqGrows

(* The events of a rejected or raised call lead into any T that holds the  *)
(* state of the run and the ways it ends.                                  *)
LEMMA ExceptionInto ==
  ASSUME NEW T, ClosingStates \subseteq T, NEW r \in Run, r.state \in T, NEW c \in Call, NEW answer,
         answer.kind \in {"denied", "arguments", "raised"}, clock \in Nat
  PROVE  ExceptionEvents(r, c, answer) \in Seq(Into(T))
<1> DEFINE rejected == answer.kind # "raised"
           code == CASE answer.kind = "denied"    -> "PERMISSION_DENIED"
                     [] answer.kind = "arguments" -> "INVALID_ARGUMENTS"
                     [] answer.kind = "raised"    -> "INTERNAL"
           target == ExceptionTarget(r, c, answer)
           exhausted == \/ rejected /\ r.invalid + 1 >= MaxInvalidCalls
                        \/ /\ target = r.state /\ r.state # "RECONCILING"
                           /\ r.calls >= MaxToolCalls
           Outcome(kind, after) == [ToolEvent(r, kind, c, after) EXCEPT !.code = code]
           follows == CASE exhausted                            -> <<Stop(r)>>
                        [] ~exhausted /\ target = r.state       -> <<>>
                        [] ~exhausted /\ target = "INCIDENT"    ->
                             <<Move(r, "INCIDENT_RECORDED", "SYSTEM", "INCIDENT")>>
                        [] ~exhausted /\ target = "REJECTED"    ->
                             <<Move(r, "STATE_TRANSITION", "SYSTEM", "REJECTED")>>
<1>1. code \in Codes
  BY DEF Codes, ResponseCodes
<1>2. target \in RunStates \cap T /\ r.state \in RunStates \cap T
  <2>1. target \in {r.state, "INCIDENT", "REJECTED", "FAILED"}
    BY DEF ExceptionTarget
  <2>2. r.state \in RunStates
    BY DEF Run
  <2> QED
    BY <2>1, <2>2, AllStates DEF ClosingStates
<1>3. \A kind \in ToolOutcomes, after \in RunStates \cap T : Outcome(kind, after) \in Into(T)
  <2> SUFFICES ASSUME NEW kind \in ToolOutcomes, NEW after \in RunStates \cap T
               PROVE  Outcome(kind, after) \in Into(T)
    OBVIOUS
  <2>1. kind \in SameStateObservations /\ kind # "TOOL_CALL_RESERVED"
    BY DEF SameStateObservations, ToolOutcomes
  <2>2. Outcome(kind, after).kind = kind /\ Outcome(kind, after).after = after
    BY DEF ToolEvent, Move, Event
  <2> HIDE DEF code
  <2>3. Outcome(kind, after) \in AgentEvent
    BY <1>1, <2>1, ToolEventTyped, CodeTyped
  <2> HIDE DEF Outcome
  <2> QED
    BY <2>1, <2>2, <2>3 DEF Into
<1>4. {"TOOL_CALL_REJECTED", "TOOL_CALL_FAILED"} \subseteq ToolOutcomes
  BY DEF ToolOutcomes
<1>5. Stop(r) \in Into(T) /\ TimedOut(r) \in Into(T)
  BY StopInto, TimedOutInto
<1>6. /\ Move(r, "INCIDENT_RECORDED", "SYSTEM", "INCIDENT") \in Into(T)
      /\ Move(r, "STATE_TRANSITION", "SYSTEM", "REJECTED") \in Into(T)
  <2>1. {"INCIDENT_RECORDED", "STATE_TRANSITION"}
           \subseteq EventKinds \ (SameStateObservations \cup {"APPROVAL_RECORDED"})
    BY DEF EventKinds, SystemKinds, SameStateObservations, ToolOutcomes
  <2>2. "SYSTEM" \in Triggers /\ {"INCIDENT", "REJECTED"} \subseteq RunStates \cap T
    BY DEF Triggers, RunStates, TerminalStates, ClosingStates
  <2> QED
    BY <2>1, <2>2, MoveInto
<1>7. ASSUME rejected PROVE target = r.state \/ target = "INCIDENT" \/ target = "REJECTED"
  BY <1>7 DEF ExceptionTarget
<1> HIDE DEF code, Outcome, exhausted, target
<1>8. ExceptionEvents(r, c, answer) =
        CASE Late(c.tool) ->
               <<Outcome(IF rejected THEN "TOOL_CALL_REJECTED" ELSE "TOOL_CALL_FAILED", r.state),
                 TimedOut(r)>>
          [] ~Late(c.tool) /\ ~rejected -> <<Outcome("TOOL_CALL_FAILED", target)>>
          [] ~Late(c.tool) /\ rejected ->
               <<Outcome("TOOL_CALL_REJECTED", r.state)>> \o follows
  BY Zenon DEF ExceptionEvents, code, Outcome, exhausted, target
<1>9. CASE Late(c.tool)
  <2> DEFINE e == Outcome(IF rejected THEN "TOOL_CALL_REJECTED" ELSE "TOOL_CALL_FAILED", r.state)
  <2>1. e \in Into(T)
    BY <1>2, <1>3, <1>4
  <2>2. ExceptionEvents(r, c, answer) = <<e, TimedOut(r)>>
    BY <1>8, <1>9
  <2> HIDE DEF e
  <2> QED
    BY <1>5, <2>1, <2>2
<1>10. CASE ~Late(c.tool) /\ ~rejected
  <2>1. Outcome("TOOL_CALL_FAILED", target) \in Into(T)
    BY <1>2, <1>3, <1>4
  <2>2. ExceptionEvents(r, c, answer) = <<Outcome("TOOL_CALL_FAILED", target)>>
    BY <1>8, <1>10
  <2> QED
    BY <2>1, <2>2
<1>11. CASE ~Late(c.tool) /\ rejected
  <2> DEFINE e == Outcome("TOOL_CALL_REJECTED", r.state)
  <2>1. e \in Into(T)
    BY <1>2, <1>3, <1>4
  <2>2. follows \in Seq(Into(T))
    BY <1>5, <1>6, <1>7, <1>11
  <2> HIDE DEF e, follows
  <2>3. ExceptionEvents(r, c, answer) = <<e>> \o follows
    BY <1>8, <1>11 DEF e
  <2>4. <<e>> \in Seq(Into(T))
    BY <2>1
  <2> QED
    BY <2>2, <2>3, <2>4, ConcatProperties
<1> QED
  BY <1>9, <1>10, <1>11

(* They are events.                                                        *)
LEMMA ExceptionTyped ==
  ASSUME NEW r \in Run, NEW c \in Call, NEW answer,
         answer.kind \in {"denied", "arguments", "raised"}, clock \in Nat
  PROVE  ExceptionEvents(r, c, answer) \in Seq(AgentEvent)
<1>1. r.state \in RunStates
  BY DEF Run
<1>2. ExceptionEvents(r, c, answer) \in Seq(Into(RunStates))
  BY <1>1, AllStates, ExceptionInto
<1> QED
  BY <1>2, IntoTyped, SeqGrows

-----------------------------------------------------------------------------
(* The invariant of the service, and that every call keeps it.             *)

(* A call between its reservation and its outcome.                         *)
InFlight ==
  [phase : {"dispatched"}, reserved : Reservations]
    \cup [phase : {"answered"}, reserved : Reservations, answer : Answer]

(* What is stored is a sound run.                                          *)
RunsSound == run \in SoundRuns \cup {NoRun}

(* The invariant: what is stored and what is in flight.                    *)
TypeInv ==
  /\ RunsSound
  /\ clock \in Nat
  /\ call \in [Instance -> InFlight \cup {Idle}]
  /\ knows \subseteq Instance /\ submitted \in Nat /\ notified \in BOOLEAN

(* Every path starts with the same two states.                             *)
LEMMA StageOrder ==
  ASSUME NEW goal \in RunGoals
  PROVE  /\ GoalPath[goal] \in Seq(RunStates) /\ 2 \in 1..Len(GoalPath[goal])
         /\ GoalPath[goal][1] = "RECEIVED" /\ GoalPath[goal][2] = "SNAPSHOT_READY"
<1>1. RunGoals = {"MARKET_RESEARCH", "BACKTEST_REPORT", "PORTFOLIO_REPORT", "ORDER_DRAFT",
                  "PAPER_EXECUTION", "LIVE_ASSISTED_EXECUTION"}
  BY DEF RunGoals, ReportGoals, ExecutionGoals
<1>2. GoalPath[goal] \in Seq(RunStates)
  BY PathsLaid DEF Laid
<1>3. /\ 2 \in 1..Len(GoalPath["MARKET_RESEARCH"])
      /\ GoalPath["MARKET_RESEARCH"][1] = "RECEIVED"
      /\ GoalPath["MARKET_RESEARCH"][2] = "SNAPSHOT_READY"
  BY GoalPaths
<1>4. /\ 2 \in 1..Len(GoalPath["BACKTEST_REPORT"])
      /\ GoalPath["BACKTEST_REPORT"][1] = "RECEIVED"
      /\ GoalPath["BACKTEST_REPORT"][2] = "SNAPSHOT_READY"
  BY GoalPaths
<1>5. /\ 2 \in 1..Len(GoalPath["PORTFOLIO_REPORT"])
      /\ GoalPath["PORTFOLIO_REPORT"][1] = "RECEIVED"
      /\ GoalPath["PORTFOLIO_REPORT"][2] = "SNAPSHOT_READY"
  BY GoalPaths
<1>6. /\ 2 \in 1..Len(GoalPath["ORDER_DRAFT"])
      /\ GoalPath["ORDER_DRAFT"][1] = "RECEIVED" /\ GoalPath["ORDER_DRAFT"][2] = "SNAPSHOT_READY"
  BY GoalPaths
<1>7. /\ 2 \in 1..Len(GoalPath["PAPER_EXECUTION"])
      /\ GoalPath["PAPER_EXECUTION"][1] = "RECEIVED"
      /\ GoalPath["PAPER_EXECUTION"][2] = "SNAPSHOT_READY"
  BY GoalPaths
<1>8. /\ 2 \in 1..Len(GoalPath["LIVE_ASSISTED_EXECUTION"])
      /\ GoalPath["LIVE_ASSISTED_EXECUTION"][1] = "RECEIVED"
      /\ GoalPath["LIVE_ASSISTED_EXECUTION"][2] = "SNAPSHOT_READY"
  BY GoalPaths
<1> QED
  BY <1>1, <1>2, <1>3, <1>4, <1>5, <1>6, <1>7, <1>8

(* Saving one event.                                                       *)
LEMMA AfterOne ==
  ASSUME NEW r, NEW e
  PROVE  /\ After(r, <<e>>) = Absorb(r, e)
         /\ Replayable(r, <<e>>) => ReplayStep(Resume(r), e).ok
<1>1. Replay(r, <<e>>) = ReplayStep(Resume(r), e)
  BY ReplayOne
<1>2. ReplayStep(Resume(r), e).run = Absorb(r, e)
  <2>1. \A a : ReplayStep(a, e).run = Absorb(a.run, e)
    BY DEF ReplayStep
  <2> QED
    BY <2>1 DEF Resume
<1> QED
  BY <1>1, <1>2 DEF After, Replayable

(* A run that was just started.                                            *)
LEMMA StartedFields ==
  ASSUME NEW goal \in Goal
  PROVE  /\ Started(goal) \in Run
         /\ Started(goal).state = "SNAPSHOT_READY" /\ Started(goal).goal = goal
         /\ Started(goal).pending = None /\ Started(goal).calls = 0
<1> DEFINE r == Created(goal)
           e == Event("STATE_TRANSITION", "SYSTEM", "RECEIVED", "SNAPSHOT_READY", 0)
<1>1. r \in Run
  <2>1. goal \in RunGoals /\ "RECEIVED" \in RunStates
    BY RuntimeAssumption DEF RuntimeAssumption, RunStates, PreExecutionStates
  <2>2. [tool \in WriteTools |-> None] \in [WriteTools -> Identity \cup {None}]
    OBVIOUS
  <2> DEFINE locked == [tool \in WriteTools |-> None]
  <2> HIDE DEF locked
  <2>3. r = [state |-> "RECEIVED", goal |-> goal, calls |-> 0, invalid |-> 0,
             reconciliations |-> 0, cancelled |-> FALSE, artifacts |-> {}, draftExpiry |-> None,
             approved |-> FALSE, approvalSince |-> None, approvalDeadline |-> None,
             pending |-> None, locked |-> locked]
    BY DEF Created, locked
  <2> HIDE DEF r
  <2> QED
    BY <2>1, <2>2, <2>3 DEF Run, locked
<1>2. e \in AgentEvent
  BY EventTyped DEF EventKinds, SystemKinds, SameStateObservations, ToolOutcomes, Triggers,
     RunStates, PreExecutionStates
<1>3. Started(goal) = Absorb(r, e)
  BY AfterOne DEF Started
<1>4. r.pending = None /\ r.goal = goal /\ r.calls = 0
  BY DEF Created
<1>5. e.after = "SNAPSHOT_READY" /\ e.kind = "STATE_TRANSITION"
  BY DEF Event
<1>6. ~(e.kind \in ToolOutcomes \/ e.after \in TerminalStates) /\ e.kind # "TOOL_CALL_RESERVED"
  BY <1>5 DEF ToolOutcomes, TerminalStates
<1> HIDE DEF r, e
<1>7. Absorb(r, e) \in Run
  BY <1>1, <1>2, AbsorbTyped
<1>8. /\ Absorb(r, e).state = e.after
      /\ Absorb(r, e).goal = r.goal
      /\ Absorb(r, e).pending = r.pending
      /\ Absorb(r, e).calls = r.calls + 0
  BY <1>1, <1>6, AbsorbFields
<1> QED
  BY <1>3, <1>4, <1>5, <1>7, <1>8

(* It is sound.                                                            *)
LEMMA StartedSound ==
  ASSUME NEW goal \in Goal
  PROVE  Started(goal) \in SoundRuns
<1> DEFINE r == Started(goal)
           p == GoalPath[goal]
<1>1. /\ r \in Run /\ r.state = "SNAPSHOT_READY" /\ r.goal = goal /\ r.pending = None
      /\ goal \in RunGoals
  BY StartedFields, RuntimeAssumption DEF RuntimeAssumption
<1>2. /\ p \in Seq(RunStates) /\ 2 \in 1..Len(p) /\ p[1] = "RECEIVED" /\ p[2] = "SNAPSHOT_READY"
      /\ \A m, n \in 1..Len(p) : p[m] = p[n] => m = n
      /\ DOMAIN p = 1..Len(p) /\ Len(p) \in Nat
  BY <1>1, StageOrder, PathsLaid, LenProperties DEF Laid
<1> HIDE DEF r, p
<1>3. OnPath(r)
  BY <1>1, <1>2 DEF OnPath, ToSet, p
<1>4. Evidence(r)
  <2> SUFFICES ASSUME NEW state \in StepsBehind(r) \cap ProvenStates PROVE FALSE
    BY DEF Evidence
  <2>1. PICK n \in 1..Len(p), m \in 1..Len(p) :
             state = p[n] /\ p[m] = "SNAPSHOT_READY" /\ n <= m
    BY <1>1, <1>2 DEF StepsBehind, p
  <2>2. m = 2
    BY <1>2, <2>1
  <2>3. n = 1 \/ n = 2
    BY <2>1, <2>2
  <2>4. state \in {"RECEIVED", "SNAPSHOT_READY"}
    BY <1>2, <2>1, <2>3
  <2> QED
    BY <2>4 DEF ProvenStates, AuthorisedStates
<1> QED
  BY <1>1, <1>3, <1>4 DEF SoundRuns, r

(* The invariant holds before anything happened.                           *)
LEMMA InitType == Init => TypeInv
<1> SUFFICES ASSUME Init PROVE TypeInv
  OBVIOUS
<1>1. run = NoRun /\ clock = 0 /\ knows = {} /\ submitted = 0 /\ notified = FALSE
  BY DEF Init
<1>2. call \in [Instance -> InFlight \cup {Idle}]
  <2>1. call = [i \in Instance |-> Idle]
    BY DEF Init
  <2> QED
    BY <2>1
<1> QED
  BY <1>1, <1>2 DEF TypeInv, RunsSound

(* A save keeps the stored run sound.                                      *)
LEMMA Committed ==
  ASSUME TypeInv, run \in SoundRuns, NEW events \in Seq(AgentEvent), Commit(events)
  PROVE  run' \in SoundRuns
<1>1. Replayable(run, events) /\ run' = After(run, events)
  BY DEF Commit
<1>2. After(run, events) \in SoundRuns
  BY <1>1, AfterSound, Zenon
<1> QED
  BY <1>1, <1>2

(* A call that saves one event keeps the invariant.                        *)
LEMMA Saved ==
  ASSUME TypeInv, NEW i, Passes(i) \/ (run # NoRun), NEW e \in AgentEvent, Commit(<<e>>), Unchanged
  PROVE  TypeInv' /\ run \in SoundRuns /\ run' \in SoundRuns
<1>1. run \in SoundRuns /\ <<e>> \in Seq(AgentEvent)
  BY DEF Passes, TypeInv, RunsSound
<1>2. run' \in SoundRuns
  BY <1>1, Committed
<1> QED
  BY <1>1, <1>2 DEF TypeInv, RunsSound, Unchanged

(* The names the service uses.                                             *)
LEMMA NamesTyped ==
  /\ {"INCIDENT_RECORDED", "TIMEOUT_RECORDED", "CANCELLATION_REQUESTED", "APPROVAL_REJECTED",
      "STATE_TRANSITION", "LIMIT_REACHED"}
       \subseteq EventKinds \ (SameStateObservations \cup {"APPROVAL_RECORDED"})
  /\ {"SYSTEM", "TIMEOUT", "HUMAN", "CANCELLATION"} \subseteq Triggers
  /\ {"INCIDENT", "EXPIRED", "TIMED_OUT", "CANCELLED", "REJECTED", "APPROVED", "EXECUTING",
      "RECONCILING"} \subseteq RunStates
BY DEF EventKinds, SystemKinds, SameStateObservations, ToolOutcomes, Triggers, RunStates,
       PreExecutionStates, AfterExecutionStates, TerminalStates

(* The time gate saves an event.                                           *)
LEMMA GateEventTyped == ASSUME NEW r \in Run, clock \in Nat PROVE GateEvent(r) \in AgentEvent
BY MoveTyped, NamesTyped DEF GateEvent

(* So does a cancellation.                                                 *)
LEMMA CancelTyped ==
  ASSUME NEW r \in Run, clock \in Nat
  PROVE  Move(r, "CANCELLATION_REQUESTED", "CANCELLATION", CancelTarget(r)) \in AgentEvent
<1>1. CancelTarget(r) \in RunStates
  BY NamesTyped DEF CancelTarget, Run
<1> QED
  BY <1>1, MoveTyped, NamesTyped

(* So does an approval.                                                    *)
LEMMA ApprovalTyped ==
  ASSUME NEW r \in Run, NEW approval \in Approval, clock \in Nat
  PROVE  [Move(r, "APPROVAL_RECORDED", "HUMAN", "APPROVED") EXCEPT !.approval = approval]
           \in AgentEvent
BY NamesTyped DEF Move, Event, AgentEvent, Codes, Run, EventKinds, SameStateObservations,
     ToolOutcomes

(* The calls a model can make are calls, numbered one on.                  *)
LEMMA CallTyped ==
  ASSUME NEW r \in Run, NEW c \in CallsOf(r)
  PROVE  c \in Call /\ c.request = r.calls + 1
<1>1. PICK tool \in Asked :
        c \in [request : {r.calls + 1}, tool : {tool},
          key : IF tool \in WriteTools THEN Key \cup {None} ELSE {None},
          batch : IF tool \in BatchTools THEN Batch ELSE {"none"}]
  BY DEF CallsOf
<1>2. tool \in AllTools /\ r.calls + 1 \in Nat \ {0}
  BY RuntimeAssumption DEF RuntimeAssumption, Run
<1>3. /\ c.request = r.calls + 1 /\ c.tool = tool /\ c.key \in Key \cup {None} /\ c.batch \in Batch
  BY <1>1 DEF Batch
<1>4. c = [request |-> c.request, tool |-> c.tool, key |-> c.key, batch |-> c.batch]
  BY <1>1
<1> QED
  BY <1>2, <1>3, <1>4 DEF Call

(* Starting a run.                                                         *)
LEMMA StartType ==
  ASSUME TypeInv, NEW i \in Instance, NEW goal \in Goal, StartRun(i, goal)
  PROVE  TypeInv' /\ run' \in SoundRuns
<1>1. /\ run' = Started(goal) /\ knows' = knows \cup {i}
      /\ UNCHANGED <<clock, call, submitted, notified>>
  BY DEF StartRun
<1>2. run' \in SoundRuns
  BY <1>1, StartedSound
<1> QED
  BY <1>1, <1>2 DEF TypeInv, RunsSound

(* The time gate.                                                          *)
LEMMA GateType ==
  ASSUME TypeInv, NEW i \in Instance, TimeGate(i)
  PROVE  TypeInv' /\ run \in SoundRuns /\ run' \in SoundRuns
<1>1. run # NoRun /\ Commit(<<GateEvent(run)>>) /\ Unchanged
  BY DEF TimeGate
<1>2. run \in Run /\ clock \in Nat
  BY <1>1 DEF TypeInv, RunsSound, SoundRuns
<1>3. GateEvent(run) \in AgentEvent
  BY <1>2, GateEventTyped
<1> QED
  BY <1>1, <1>3, Saved

(* A cancellation.                                                         *)
LEMMA CancelType ==
  ASSUME TypeInv, NEW i \in Instance, RequestCancel(i)
  PROVE  TypeInv' /\ run \in SoundRuns /\ run' \in SoundRuns
<1> DEFINE e == Move(run, "CANCELLATION_REQUESTED", "CANCELLATION", CancelTarget(run))
<1>1. run # NoRun /\ Commit(<<e>>) /\ Unchanged
  BY DEF RequestCancel, Passes
<1>2. run \in Run /\ clock \in Nat
  BY <1>1 DEF TypeInv, RunsSound, SoundRuns
<1>3. e \in AgentEvent
  BY <1>2, CancelTyped
<1> HIDE DEF e
<1> QED
  BY <1>1, <1>3, Saved

(* A rejected approval.                                                    *)
LEMMA RejectType ==
  ASSUME TypeInv, NEW i \in Instance, RejectApproval(i)
  PROVE  TypeInv' /\ run \in SoundRuns /\ run' \in SoundRuns
<1> DEFINE e == Move(run, "APPROVAL_REJECTED", "HUMAN", "REJECTED")
<1>1. run # NoRun /\ Commit(<<e>>) /\ Unchanged
  BY DEF RejectApproval, Passes
<1>2. run \in Run /\ clock \in Nat
  BY <1>1 DEF TypeInv, RunsSound, SoundRuns
<1>3. e \in AgentEvent
  BY <1>2, MoveTyped, NamesTyped
<1> HIDE DEF e
<1> QED
  BY <1>1, <1>3, Saved

(* An approval.                                                            *)
LEMMA ApproveType ==
  ASSUME TypeInv, NEW i \in Instance, NEW approval \in Approval, RecordApproval(i, approval)
  PROVE  TypeInv' /\ run \in SoundRuns /\ run' \in SoundRuns
<1> DEFINE e == [Move(run, "APPROVAL_RECORDED", "HUMAN", "APPROVED") EXCEPT !.approval = approval]
           f == Event("STATE_TRANSITION", "SYSTEM", "APPROVED", "EXECUTING", clock)
<1>1. run # NoRun /\ Commit(<<e, f>>) /\ Unchanged
  BY DEF RecordApproval, Passes
<1>2. run \in Run /\ clock \in Nat /\ run \in SoundRuns
  BY <1>1 DEF TypeInv, RunsSound, SoundRuns
<1>3. e \in AgentEvent
  BY <1>2, ApprovalTyped
<1>4. f \in AgentEvent
  BY <1>2, EventTyped, NamesTyped
<1> HIDE DEF e, f
<1>5. <<e, f>> \in Seq(AgentEvent)
  BY <1>3, <1>4
<1>6. run' \in SoundRuns
  BY <1>1, <1>2, <1>5, Committed
<1> QED
  BY <1>1, <1>2, <1>6 DEF TypeInv, RunsSound, Unchanged

(* A run that is out of budget.                                            *)
LEMMA StopType ==
  ASSUME TypeInv, NEW i \in Instance, StopOnBudget(i)
  PROVE  TypeInv' /\ run \in SoundRuns /\ run' \in SoundRuns
<1>1. run # NoRun /\ Commit(<<Stop(run)>>) /\ Unchanged
  BY DEF StopOnBudget, Passes
<1>2. run \in Run /\ clock \in Nat
  BY <1>1 DEF TypeInv, RunsSound, SoundRuns
<1>3. Stop(run) \in AgentEvent
  BY <1>2, StopTyped
<1> QED
  BY <1>1, <1>3, Saved

(* An execution tool asked for after a cancellation.                       *)
LEMMA DenyAfterCancelType ==
  ASSUME TypeInv, NEW i \in Instance, DenyAfterCancel(i)
  PROVE  TypeInv' /\ run \in SoundRuns /\ run' \in SoundRuns
<1> DEFINE e == Move(run, "INCIDENT_RECORDED", "SYSTEM", "INCIDENT")
<1>1. run # NoRun /\ Commit(<<e>>) /\ Unchanged
  BY DEF DenyAfterCancel, Passes
<1>2. run \in Run /\ clock \in Nat
  BY <1>1 DEF TypeInv, RunsSound, SoundRuns
<1>3. e \in AgentEvent
  BY <1>2, MoveTyped, NamesTyped
<1> HIDE DEF e
<1> QED
  BY <1>1, <1>3, Saved

(* The events of a denied call.                                            *)
DeniedEvents(c) ==
  <<ToolEvent(run, "TOOL_CALL_RESERVED", c, run.state),
    [ToolEvent(run, "TOOL_CALL_REJECTED", c, run.state) EXCEPT !.code = "STAGE_REJECTED"]>>

(* What denying a call saves.                                              *)
DenySaves(c) ==
  \/ Commit(DeniedEvents(c))
  \/ Commit(Append(DeniedEvents(c), Stop(run)))

(* Deny saves one of the two.                                              *)
LEMMA DenySaved ==
  ASSUME NEW i, NEW c, Deny(i, c)
  PROVE  run # NoRun /\ DenySaves(c) /\ Unchanged
BY DEF Deny, Passes, DenySaves, DeniedEvents

(* Both are events.                                                        *)
LEMMA DeniedTyped ==
  ASSUME TypeInv, run # NoRun, NEW c \in Call
  PROVE  /\ DeniedEvents(c) \in Seq(AgentEvent)
         /\ Append(DeniedEvents(c), Stop(run)) \in Seq(AgentEvent)
<1>1. run \in Run /\ clock \in Nat /\ run.state \in RunStates
  BY DEF TypeInv, RunsSound, SoundRuns, Run
<1> DEFINE e == ToolEvent(run, "TOOL_CALL_RESERVED", c, run.state)
           g == ToolEvent(run, "TOOL_CALL_REJECTED", c, run.state)
           f == [g EXCEPT !.code = "STAGE_REJECTED"]
<1>2. {"TOOL_CALL_RESERVED", "TOOL_CALL_REJECTED"} \subseteq SameStateObservations
  BY DEF SameStateObservations, ToolOutcomes
<1>3. e \in AgentEvent /\ g \in AgentEvent
  BY <1>1, <1>2, ToolEventTyped
<1> HIDE DEF g
<1>4. f \in AgentEvent
  BY <1>3, CodeTyped DEF Codes
<1>5. Stop(run) \in AgentEvent
  BY <1>1, StopTyped
<1>6. DeniedEvents(c) = <<e, f>>
  BY DEF DeniedEvents, g
<1> HIDE DEF e, f
<1>7. <<e, f>> \in Seq(AgentEvent)
  BY <1>3, <1>4
<1> QED
  BY <1>5, <1>6, <1>7, AppendProperties

(* A denied call.                                                          *)
LEMMA DenyType ==
  ASSUME TypeInv, NEW i \in Instance, NEW c \in CallsOf(run), Deny(i, c)
  PROVE  TypeInv' /\ run \in SoundRuns /\ run' \in SoundRuns
<1>1. run # NoRun /\ DenySaves(c) /\ Unchanged
  BY DenySaved
<1>2. run \in Run /\ run \in SoundRuns
  BY <1>1 DEF TypeInv, RunsSound, SoundRuns
<1>3. c \in Call
  BY <1>2, CallTyped
<1>4. /\ DeniedEvents(c) \in Seq(AgentEvent)
      /\ Append(DeniedEvents(c), Stop(run)) \in Seq(AgentEvent)
  BY <1>1, <1>3, DeniedTyped
<1>5. run' \in SoundRuns
  BY <1>1, <1>2, <1>4, Committed DEF DenySaves
<1> QED
  BY <1>1, <1>2, <1>5 DEF TypeInv, RunsSound, Unchanged

(* What a reservation makes of the run.                                    *)
LEMMA ReserveRun ==
  ASSUME TypeInv, NEW i \in Instance, NEW c \in CallsOf(run), Reserve(i, c)
  PROVE  /\ run \in SoundRuns /\ c \in Call
         /\ ToolEvent(run, "TOOL_CALL_RESERVED", c, run.state) \in AgentEvent
         /\ ReplayStep(Resume(run), ToolEvent(run, "TOOL_CALL_RESERVED", c, run.state)).ok
         /\ run' = Absorb(run, ToolEvent(run, "TOOL_CALL_RESERVED", c, run.state))
         /\ run' \in Reservations
         /\ run'.state = run.state /\ run'.goal = run.goal /\ run'.pending = c
         /\ run'.calls = run.calls + 1 /\ run'.artifacts = run.artifacts
         /\ run'.cancelled = run.cancelled /\ run'.approved = run.approved
<1> DEFINE e == ToolEvent(run, "TOOL_CALL_RESERVED", c, run.state)
<1>1. run # NoRun /\ Commit(<<e>>) /\ Offered(run, c)
  BY DEF Reserve, Passes
<1>2. run \in Run /\ run \in SoundRuns /\ clock \in Nat /\ run.state \in RunStates
      /\ run.calls \in Nat
  BY <1>1 DEF TypeInv, RunsSound, SoundRuns, Run
<1>3. c \in Call /\ c.request = run.calls + 1
  BY <1>2, CallTyped
<1>4. e \in AgentEvent
  BY <1>2, <1>3, ToolEventTyped DEF SameStateObservations
<1>5. /\ e.kind = "TOOL_CALL_RESERVED" /\ e.after = run.state /\ e.call = c
      /\ e.artifact = None
  BY DEF ToolEvent, Move, Event
<1> HIDE DEF e
<1>6. <<e>> \in Seq(AgentEvent)
  BY <1>4
<1>7. run' \in SoundRuns
  BY <1>1, <1>2, <1>6, Committed
<1>8. run' = Absorb(run, e) /\ ReplayStep(Resume(run), e).ok
  BY <1>1, AfterOne DEF Commit
<1>9. /\ run'.state = run.state /\ run'.goal = run.goal /\ run'.pending = c
      /\ run'.calls = run.calls + 1 /\ run'.artifacts = Gathered(run, e)
      /\ run'.cancelled = (run.cancelled \/ FALSE) /\ run'.approved = (run.approved \/ FALSE)
  BY <1>2, <1>5, <1>8, AbsorbFields
<1>10. run'.artifacts = run.artifacts
  BY <1>5, <1>9 DEF Gathered
<1>11. run'.cancelled = run.cancelled /\ run'.approved = run.approved
  BY <1>2, <1>9 DEF Run
<1>12. c.tool \in StageTools(run.state, run.goal)
  BY <1>1 DEF Offered, StageValid
<1>13. c # None
  BY <1>3, RuntimeAssumption DEF RuntimeAssumption
<1>14. run' \in Reservations
  BY <1>3, <1>7, <1>9, <1>12, <1>13 DEF Reservations
<1> QED
  BY <1>2, <1>3, <1>4, <1>8, <1>9, <1>10, <1>11, <1>14 DEF e

(* A reservation.                                                          *)
LEMMA ReserveType ==
  ASSUME TypeInv, NEW i \in Instance, NEW c \in CallsOf(run), Reserve(i, c)
  PROVE  TypeInv' /\ run \in SoundRuns /\ run' \in SoundRuns
<1>1. run \in SoundRuns /\ run' \in Reservations /\ run' \in SoundRuns
  BY ReserveRun DEF Reservations
<1>2. /\ call' = [call EXCEPT ![i] = [phase |-> "dispatched", reserved |-> run']]
      /\ UNCHANGED <<clock, knows, submitted, notified>>
  BY DEF Reserve
<1>3. [phase |-> "dispatched", reserved |-> run'] \in InFlight
  BY <1>1 DEF InFlight
<1> QED
  BY <1>1, <1>2, <1>3 DEF TypeInv, RunsSound

(* A call at the registry.                                                 *)
LEMMA Dispatched ==
  ASSUME TypeInv, NEW i \in Instance, InPhase(i, "dispatched")
  PROVE  /\ call[i].reserved \in Reservations
         /\ call[i] = [phase |-> "dispatched", reserved |-> call[i].reserved]
         /\ Reserved(i) \in Call
<1>1. call[i] \in InFlight /\ call[i].phase = "dispatched"
  BY DEF TypeInv, InPhase
<1>2. /\ call[i].reserved \in Reservations
      /\ call[i] = [phase |-> "dispatched", reserved |-> call[i].reserved]
  BY <1>1 DEF InFlight
<1>3. Reserved(i) \in Call
  BY <1>2 DEF Reserved, Reservations, SoundRuns, Run
<1> QED
  BY <1>2, <1>3

(* A call that was answered.                                               *)
LEMMA Answered ==
  ASSUME TypeInv, NEW i \in Instance, InPhase(i, "answered")
  PROVE  /\ call[i].reserved \in Reservations /\ call[i].answer \in Answer
         /\ call[i] = [phase |-> "answered", reserved |-> call[i].reserved,
                       answer |-> call[i].answer]
         /\ Reserved(i) \in Call
<1>1. call[i] \in InFlight /\ call[i].phase = "answered"
  BY DEF TypeInv, InPhase
<1>2. /\ call[i].reserved \in Reservations /\ call[i].answer \in Answer
      /\ call[i] = [phase |-> "answered", reserved |-> call[i].reserved,
                    answer |-> call[i].answer]
  BY <1>1 DEF InFlight
<1>3. Reserved(i) \in Call
  BY <1>2 DEF Reserved, Reservations, SoundRuns, Run
<1> QED
  BY <1>2, <1>3

(* How the registry ends a call: it answers only when the handler ran, and *)
(* rejects only when it did not.                                           *)
LEMMA Endings ==
  \A mode, tool : \A end \in Invocation(mode, tool) :
    /\ end.kind \in {"answered", "denied", "arguments", "raised"} /\ end.ran \in BOOLEAN
    /\ end.kind = "answered" => end.ran
    /\ end.kind \in {"denied", "arguments"} => ~end.ran
<1> SUFFICES ASSUME NEW mode, NEW tool, NEW end \in Invocation(mode, tool)
             PROVE  /\ end.kind \in {"answered", "denied", "arguments", "raised"}
                    /\ end.ran \in BOOLEAN
                    /\ end.kind = "answered" => end.ran
                    /\ end.kind \in {"denied", "arguments"} => ~end.ran
  OBVIOUS
<1>1. end \in Refused("denied") \cup Refused("arguments") \cup Executed
  BY DEF Invocation, Authorized
<1>2. \A kind : \A x \in Refused(kind) : x.ran = FALSE /\ x.kind \in {kind, "raised"}
  BY DEF Refused
<1>3. \A x \in Executed : /\ x.kind \in {"answered", "raised"} /\ x.ran \in BOOLEAN
                          /\ x.kind = "answered" => x.ran = TRUE
  <2>1. \A x : x = [kind |-> "answered", ran |-> TRUE] =>
               x.kind = "answered" /\ x.ran = TRUE
    OBVIOUS
  <2>2. \A x : x = [kind |-> "raised", ran |-> TRUE] => x.kind = "raised" /\ x.ran = TRUE
    OBVIOUS
  <2>3. \A x : x = [kind |-> "raised", ran |-> FALSE] => x.kind = "raised" /\ x.ran = FALSE
    OBVIOUS
  <2>4. \A x \in Executed : \/ x = [kind |-> "answered", ran |-> TRUE]
                           \/ x = [kind |-> "raised", ran |-> TRUE]
                           \/ x = [kind |-> "raised", ran |-> FALSE]
    BY DEF Executed
  <2> QED
    BY <2>1, <2>2, <2>3, <2>4
<1>4. CASE end \in Refused("denied") \cup Refused("arguments")
  <2>1. end.ran = FALSE /\ end.kind \in {"denied", "arguments", "raised"}
    BY <1>2, <1>4
  <2> QED
    BY <2>1
<1>5. CASE end \in Executed
  BY <1>3, <1>5
<1> QED
  BY <1>1, <1>4, <1>5

(* The answers, and what they say of the handler.                          *)
LEMMA AnswersTyped ==
  ASSUME clock \in Nat, NEW mode, NEW tool, NEW end \in Invocation(mode, tool),
         NEW c, NEW answer \in Answers(c, end)
  PROVE  /\ answer \in Answer
         /\ answer.kind = "ok" => end.kind = "answered"
         /\ answer.kind \in {"denied", "arguments"} => end.kind = answer.kind
<1>1. end.kind \in {"answered", "denied", "arguments", "raised"}
  BY Endings
<1>2. CASE end.kind # "answered"
  BY <1>1, <1>2 DEF Answers, Answer
<1>3. CASE end.kind = "answered"
  <2>1. Lifetime \subseteq Nat
    BY RuntimeAssumption DEF RuntimeAssumption
  <2>2. "accepted" \in Verdict
    BY DEF Verdict
  <2>3. {clock + t : t \in Lifetime} \subseteq Nat
    BY <2>1
  <2>4. answer \in [kind : {"ok"}, verdict : Verdict, expires : Nat]
                     \cup [kind : {"failed"}, code : ResponseCodes]
    BY <1>3, <2>2, <2>3 DEF Answers
  <2> QED
    BY <1>3, <2>4 DEF Answer
<1> QED
  BY <1>2, <1>3

(* The registry and the handler.                                           *)
LEMMA DispatchType ==
  ASSUME TypeInv, NEW i \in Instance, Dispatch(i)
  PROVE  TypeInv'
<1>1. InPhase(i, "dispatched") /\ UNCHANGED <<run, clock, knows, notified>>
  BY DEF Dispatch
<1>2. PICK end \in Invocation(ModeOf[run.goal], Reserved(i).tool) :
      \E answer \in Answers(Reserved(i), end) :
        /\ call' = [call EXCEPT ![i] =
             [phase |-> "answered", reserved |-> call[i].reserved, answer |-> answer]]
        /\ submitted' = IF end.ran /\ Reserved(i).tool \in ExecutionTools
                        THEN submitted + 1 ELSE submitted
  BY DEF Dispatch
<1>3. PICK answer \in Answers(Reserved(i), end) :
        /\ call' = [call EXCEPT ![i] =
             [phase |-> "answered", reserved |-> call[i].reserved, answer |-> answer]]
        /\ submitted' = IF end.ran /\ Reserved(i).tool \in ExecutionTools
                        THEN submitted + 1 ELSE submitted
  BY <1>2
<1>4. answer \in Answer
  BY AnswersTyped DEF TypeInv
<1>5. call[i].reserved \in Reservations
  BY <1>1, Dispatched
<1>6. [phase |-> "answered", reserved |-> call[i].reserved, answer |-> answer] \in InFlight
  BY <1>4, <1>5 DEF InFlight
<1>7. submitted' \in Nat
  BY <1>3 DEF TypeInv
<1>8. call' \in [Instance -> InFlight \cup {Idle}]
  BY <1>3, <1>6 DEF TypeInv
<1> QED
  BY <1>1, <1>7, <1>8 DEF TypeInv, RunsSound

(* What the runtime makes of an answer is an answer.                       *)
LEMMA UnderstoodTyped ==
  ASSUME NEW i, NEW r, NEW tool, NEW answer \in Answer
  PROVE  Understood(i, r, tool, answer) \in Answer
BY DEF Understood, Answer

(* The events of an outcome are events.                                    *)
LEMMA OutcomeTyped ==
  ASSUME TypeInv, NEW i \in Instance, InPhase(i, "answered")
  PROVE  OutcomeEvents(i) \in Seq(AgentEvent)
<1> DEFINE r == call[i].reserved
           c == r.pending
           answer == Understood(i, r, c.tool, call[i].answer)
<1>1. r \in Run /\ c \in Call /\ call[i].answer \in Answer /\ clock \in Nat
  BY Answered DEF Reservations, SoundRuns, Reserved, TypeInv
<1>2. answer \in Answer
  BY <1>1, UnderstoodTyped
<1>3. OutcomeEvents(i) = IF answer.kind \in {"ok", "failed"} THEN ResponseEvents(r, c, answer)
                                                              ELSE ExceptionEvents(r, c, answer)
  BY DEF OutcomeEvents
<1> HIDE DEF r, c, answer
<1>4. CASE answer.kind \in {"ok", "failed"}
  BY <1>1, <1>2, <1>3, <1>4, ResponseTyped
<1>5. CASE answer.kind \notin {"ok", "failed"}
  <2>1. answer.kind \in {"denied", "arguments", "raised"}
    BY <1>2, <1>5, AnswerKinds
  <2> QED
    BY <1>1, <1>3, <1>5, <2>1, ExceptionTyped
<1> QED
  BY <1>4, <1>5

(* A stored outcome leaves a sound run, a refused one the run as it is.    *)
LEMMA RecordRun ==
  ASSUME TypeInv, NEW i \in Instance, Record(i)
  PROVE  /\ Stored(i) => run \in SoundRuns /\ run' \in SoundRuns
         /\ ~Stored(i) => run' = run
<1>1. /\ InPhase(i, "answered")
      /\ run' = IF Stored(i) THEN After(call[i].reserved, OutcomeEvents(i)) ELSE run
  BY DEF Record
<1>2. call[i].reserved \in SoundRuns
  BY <1>1, Answered DEF Reservations
<1>3. OutcomeEvents(i) \in Seq(AgentEvent)
  BY <1>1, OutcomeTyped
<1>4. ASSUME Stored(i)
      PROVE  run = call[i].reserved /\ After(call[i].reserved, OutcomeEvents(i)) \in SoundRuns
  <2>1. run = call[i].reserved /\ Replayable(call[i].reserved, OutcomeEvents(i))
    BY <1>4 DEF Stored, Unmoved
  <2>2. After(call[i].reserved, OutcomeEvents(i)) \in SoundRuns
    BY <1>2, <1>3, <2>1, AfterSound, Zenon
  <2> QED
    BY <2>1, <2>2
<1> QED
  BY <1>1, <1>2, <1>4

(* Recording an outcome.                                                   *)
LEMMA RecordType ==
  ASSUME TypeInv, NEW i \in Instance, Record(i)
  PROVE  TypeInv'
<1>1. /\ notified' = (notified \/ Tells(i))
      /\ call' = [call EXCEPT ![i] = Idle]
      /\ UNCHANGED <<clock, knows, submitted>>
  BY DEF Record
<1>2. run' \in SoundRuns \cup {NoRun}
  BY RecordRun DEF TypeInv, RunsSound
<1>3. notified' \in BOOLEAN
  BY <1>1
<1>4. call' \in [Instance -> InFlight \cup {Idle}]
  BY <1>1 DEF TypeInv
<1> QED
  BY <1>1, <1>2, <1>3, <1>4 DEF TypeInv, RunsSound

(* Time passes.                                                            *)
LEMMA TickType ==
  ASSUME TypeInv, Tick
  PROVE  TypeInv'
BY DEF TypeInv, RunsSound, Tick

(* Every step keeps the invariant.                                         *)
LEMMA NextType ==
  ASSUME TypeInv, [Next]_vars
  PROVE  TypeInv'
<1>1. ASSUME NEW i \in Instance, NEW goal \in Goal, StartRun(i, goal) PROVE TypeInv'
  BY <1>1, StartType
<1>2. ASSUME NEW i \in Instance,
             TimeGate(i) \/ RequestCancel(i) \/ RejectApproval(i)
      PROVE TypeInv'
  BY <1>2, GateType, CancelType, RejectType
<1>3. ASSUME NEW i \in Instance, NEW approval \in Approval, RecordApproval(i, approval)
      PROVE  TypeInv'
  BY <1>3, ApproveType
<1>4. ASSUME NEW i \in Instance, Invoke(i)
      PROVE  TypeInv'
  BY <1>4, StopType, DenyAfterCancelType, DenyType, ReserveType DEF Invoke
<1>5. ASSUME NEW i \in Instance, Dispatch(i) \/ Record(i)
      PROVE  TypeInv'
  BY <1>5, DispatchType, RecordType
<1>6. ASSUME Tick PROVE TypeInv'
  BY <1>6, TickType
<1>7. ASSUME UNCHANGED vars PROVE TypeInv'
  BY <1>7 DEF vars, TypeInv, RunsSound
<1> QED
  BY <1>1, <1>2, <1>3, <1>4, <1>5, <1>6, <1>7 DEF Next

-----------------------------------------------------------------------------
(* The invariant holds, and with it the evidence of every stored run.      *)

(* What is stored is always a run on its path, and every call in flight was*)
(* reserved at the stage that offers it.                                   *)
THEOREM RunsStaySound == Spec => []TypeInv
<1>1. Init => TypeInv
  BY InitType
<1>2. TypeInv /\ [Next]_vars => TypeInv'
  BY NextType
<1> QED
  BY <1>1, <1>2, PTL DEF Spec

(* A stored run holds the evidence of every stage behind it, not just of   *)
(* the last one.                                                           *)
THEOREM EvidenceCorrect == Spec => []EvidenceIsComplete
<1>1. TypeInv => EvidenceIsComplete
  BY DEF TypeInv, RunsSound, SoundRuns, Evidence, EvidenceIsComplete
<1> QED
  BY <1>1, RunsStaySound, PTL

-----------------------------------------------------------------------------
(* What a submission is dispatched under.                                  *)

(* Orders are submitted while the run executes, and reconciled while it    *)
(* reconciles.                                                             *)
LEMMA StageOfTool ==
  ASSUME NEW state \in RunStates, NEW goal, NEW tool \in StageTools(state, goal)
  PROVE  /\ tool \in ExecutionTools => state = "EXECUTING"
         /\ tool = "reconcile_account" => state = "RECONCILING"
<1>1. state \in {"RECEIVED", "SNAPSHOT_READY", "DATA_VALIDATED", "ANALYZED", "PORTFOLIO_READY",
                 "RISK_CHECKED", "DRAFT_READY", "PENDING_APPROVAL", "APPROVED", "EXECUTING",
                 "RECONCILING"} \cup TerminalStates
  BY DEF RunStates, PreExecutionStates, AfterExecutionStates
<1>2. CASE state \in {"EXECUTING", "RECONCILING"}
  BY <1>2 DEF StageTools, ExecutionTools
<1>3. CASE state \notin {"EXECUTING", "RECONCILING"}
  BY <1>3 DEF StageTools, ExecutionTools, ResearchTools
<1> QED
  BY <1>2, <1>3

(* A run that executes has an accepted risk check.                         *)
LEMMA RiskWasChecked ==
  ASSUME NEW r \in SoundRuns, r.state = "EXECUTING"
  PROVE  "RISK_CHECK" \in r.artifacts
<1> DEFINE p == GoalPath[r.goal]
<1>1. r.goal \in RunGoals /\ OnPath(r) /\ Evidence(r)
  BY DEF SoundRuns, Run
<1>2. Laid(p)
  BY <1>1, PathsLaid
<1>3. DOMAIN p = 1..Len(p) /\ Len(p) \in Nat
  BY <1>2, LenProperties DEF Laid
<1>4. ToSet(p) = {p[k] : k \in 1..Len(p)}
  BY <1>3 DEF ToSet
<1>5. "EXECUTING" \in ToSet(p)
  BY <1>1 DEF OnPath, OffPath, TerminalStates
<1>6. PICK m \in 1..Len(p) : p[m] = "EXECUTING"
  BY <1>4, <1>5
<1>7. PICK k \in 1..m : p[k] = "RISK_CHECKED"
  BY <1>2, <1>6 DEF Laid
<1>8. k \in 1..Len(p) /\ k <= m
  BY <1>3, <1>6, <1>7
<1>9. "RISK_CHECKED" \in StepsBehind(r)
  BY <1>3, <1>6, <1>7, <1>8 DEF StepsBehind
<1>10. "RISK_CHECKED" \in ProvenStates
  BY DEF ProvenStates
<1>11. Proof("RISK_CHECKED", r.goal) \cap r.artifacts # {}
  BY <1>1, <1>9, <1>10 DEF Evidence
<1>12. Proof("RISK_CHECKED", r.goal) = {"RISK_CHECK"}
  BY DEF Proof, AuthorisedStates
<1> QED
  BY <1>11, <1>12

(* What OnlyAuthorisedSubmissions asks of a reserved run.                  *)
Authorised(r) ==
  /\ ~r.cancelled
  /\ \A t \in {r.draftExpiry, r.approvalDeadline, Timeout} \ {None} : clock < t
  /\ r.pending.batch = "draft" /\ "RISK_CHECK" \in r.artifacts
  /\ r.goal = "LIVE_ASSISTED_EXECUTION" => r.approved

(* A reserved submission has it: the replay of the save asks for it.       *)
LEMMA ReserveAuthorised ==
  ASSUME TypeInv, NEW i \in Instance, NEW c \in CallsOf(run), Reserve(i, c),
         c.tool \in ExecutionTools
  PROVE  Authorised(run')
<1> DEFINE e == ToolEvent(run, "TOOL_CALL_RESERVED", c, run.state)
           next == Absorb(run, e)
<1>1. /\ run \in SoundRuns /\ c \in Call
      /\ ReplayStep(Resume(run), e).ok
      /\ run' = next /\ run' \in Reservations
      /\ run'.state = run.state /\ run'.goal = run.goal /\ run'.pending = c
      /\ run'.cancelled = run.cancelled
  BY ReserveRun
<1>2. Offered(run, c)
  BY DEF Reserve
<1>3. e.kind = "TOOL_CALL_RESERVED" /\ e.at = clock /\ e.call = c
  BY DEF ToolEvent, Move, Event
<1> HIDE DEF e
<1>4. /\ DeadlineFits(next, e) /\ MilestoneProven(next)
  <2>1. Resume(run).run = run
    BY DEF Resume
  <2> QED
    BY <1>1, <2>1, StepOk
<1> HIDE DEF next
<1>5. next \in Run /\ next \in SoundRuns /\ clock \in Nat /\ Timeout \in Nat
  BY <1>1, LimitsAssumption DEF Reservations, SoundRuns, TypeInv, LimitsAssumption
<1>6. ~run.cancelled
  BY <1>2 DEF Offered
<1>7. c.tool # "reconcile_account"
  BY DEF ExecutionTools
<1>8. ~(clock >= Timeout) /\ ~Expired(next, clock)
  BY <1>3, <1>4, <1>7 DEF DeadlineFits
<1>9. next.draftExpiry \in Nat \cup {None} /\ next.approvalDeadline \in Nat \cup {None}
  BY <1>5 DEF Run
<1>10. ASSUME NEW t \in {next.draftExpiry, next.approvalDeadline, Timeout} \ {None}
       PROVE  clock < t
  <2>1. t \in Nat
    BY <1>5, <1>9
  <2>2. ~(clock >= t)
    BY <1>8 DEF Expired
  <2> QED
    BY <1>5, <2>1, <2>2
<1>11. c.batch = "draft" /\ c.tool \in StageTools(run.state, run.goal)
  BY <1>2 DEF Offered, StageValid, BatchTools
<1>12. run.state = "EXECUTING"
  <2>1. run.state \in RunStates
    BY <1>1 DEF SoundRuns, Run
  <2> QED
    BY <1>11, <2>1, StageOfTool
<1>13. "RISK_CHECK" \in next.artifacts
  BY <1>1, <1>5, <1>12, RiskWasChecked
<1>14. next.goal = "LIVE_ASSISTED_EXECUTION" => next.approved
  BY <1>1, <1>4, <1>12 DEF MilestoneProven, AfterExecutionStates
<1> QED
  BY <1>1, <1>6, <1>10, <1>11, <1>13, <1>14 DEF Authorised

(* Only a reservation dispatches a submission.                             *)
LEMMA OnlyReserveSubmits ==
  ASSUME TypeInv, [Next]_vars, NEW i \in Instance, Submitting(i)', ~Submitting(i)
  PROVE  \E c \in CallsOf(run) : /\ Reserve(i, c) /\ c.tool \in ExecutionTools
                                 /\ call'[i].reserved = run'
<1>1. call'[i] # call[i]
  BY DEF Submitting, InPhase, Reserved
<1>2. call'[i] # Idle /\ call'[i].phase = "dispatched"
      /\ call'[i].reserved.pending.tool \in ExecutionTools
  BY DEF Submitting, InPhase, Reserved
<1>3. call \in [Instance -> InFlight \cup {Idle}]
  BY DEF TypeInv
<1>4. call' # call
  BY <1>1
<1>5. ASSUME NEW j \in Instance, Dispatch(j) PROVE FALSE
  <2>1. PICK x : call' = [call EXCEPT ![j] =
             [phase |-> "answered", reserved |-> call[j].reserved, answer |-> x]]
    BY <1>5 DEF Dispatch
  <2> QED
    BY <1>1, <1>2, <1>3, <2>1
<1>6. ASSUME NEW j \in Instance, Record(j) PROVE FALSE
  <2>1. call' = [call EXCEPT ![j] = Idle]
    BY <1>6 DEF Record
  <2> QED
    BY <1>1, <1>2, <1>3, <2>1
<1>7. ASSUME NEW j \in Instance, NEW c \in CallsOf(run), Reserve(j, c)
      PROVE  /\ Reserve(i, c) /\ c.tool \in ExecutionTools /\ call'[i].reserved = run'
  <2>1. call' = [call EXCEPT ![j] = [phase |-> "dispatched", reserved |-> run']]
    BY <1>7 DEF Reserve
  <2>2. j = i
    BY <1>1, <1>3, <2>1
  <2>3. call'[i].reserved = run'
    BY <1>3, <2>1, <2>2
  <2>4. run'.pending = c
    BY <1>7, ReserveRun
  <2> QED
    BY <1>2, <1>7, <2>2, <2>3, <2>4
<1>8. \/ \E j \in Instance : Dispatch(j) \/ Record(j)
      \/ \E j \in Instance : \E c \in CallsOf(run) : Reserve(j, c)
  BY <1>4 DEF Next, vars, StartRun, TimeGate, RequestCancel, RejectApproval, RecordApproval,
     Invoke, StopOnBudget, DenyAfterCancel, Deny, Unchanged, Tick
<1> QED
  BY <1>5, <1>6, <1>7, <1>8

(* A submission is dispatched only for the locked draft while it and every *)
(* approval of it are in force, after an accepted risk check, not after a  *)
(* cancellation, and for a live run only when approved.                    *)
THEOREM SubmissionsAuthorised == Spec => OnlyAuthorisedSubmissions
<1>1. ASSUME TypeInv, [Next]_vars, NEW i \in Instance, Submitting(i)', ~Submitting(i)
      PROVE  LET r == call'[i].reserved IN
             /\ ~r.cancelled
             /\ \A t \in {r.draftExpiry, r.approvalDeadline, Timeout} \ {None} : clock < t
             /\ r.pending.batch = "draft" /\ "RISK_CHECK" \in r.artifacts
             /\ r.goal = "LIVE_ASSISTED_EXECUTION" => r.approved
  <2>1. PICK c \in CallsOf(run) : /\ Reserve(i, c) /\ c.tool \in ExecutionTools
                                  /\ call'[i].reserved = run'
    BY <1>1, OnlyReserveSubmits
  <2>2. Authorised(run')
    BY <1>1, <2>1, ReserveAuthorised
  <2> QED
    BY <2>1, <2>2 DEF Authorised
<1>2. TypeInv /\ [Next]_vars =>
        [\A i \in Instance : Submitting(i)' /\ ~Submitting(i) =>
           LET r == call'[i].reserved IN
           /\ ~r.cancelled
           /\ \A t \in {r.draftExpiry, r.approvalDeadline, Timeout} \ {None} : clock < t
           /\ r.pending.batch = "draft" /\ "RISK_CHECK" \in r.artifacts
           /\ r.goal = "LIVE_ASSISTED_EXECUTION" => r.approved]_vars
  BY <1>1
<1> QED
  BY <1>2, RunsStaySound, PTL DEF Spec, OnlyAuthorisedSubmissions

-----------------------------------------------------------------------------
(* A run that ended stays as it is, and a stop signal is stored with it.   *)

(* No step moves a run that ended.                                         *)
LEMMA EndedStays ==
  ASSUME TypeInv, [Next]_vars, run # NoRun, ~Open(run)
  PROVE  run' = run
<1>1. ASSUME NEW i \in Instance, NEW goal \in Goal, StartRun(i, goal) PROVE FALSE
  <2>1. run = Started(goal)
    BY <1>1 DEF StartRun
  <2>2. run.state = "SNAPSHOT_READY"
    BY <2>1, StartedFields
  <2> QED
    BY <2>2 DEF Open, TerminalStates
<1>2. ASSUME NEW i \in Instance, Record(i) PROVE run' = run
  <2>1. ASSUME Stored(i) PROVE FALSE
    <3>1. run = call[i].reserved
      BY <2>1 DEF Stored, Unmoved
    <3>2. run \in Reservations
      BY <1>2, <3>1, Answered DEF Record
    <3> QED
      BY <3>2 DEF Reservations, SoundRuns
  <2> QED
    BY <1>2, <2>1 DEF Record
<1>3. \A i \in Instance : ~Passes(i) /\ ~TimeGate(i)
  BY DEF Passes, TimeGate, GateDue
<1>4. \A i \in Instance : Dispatch(i) \/ Tick => run' = run
  BY DEF Dispatch, Tick
<1>5. CASE Next
  BY <1>1, <1>2, <1>3, <1>4, <1>5 DEF Next, Invoke, StopOnBudget, DenyAfterCancel,
     RequestCancel, RejectApproval, RecordApproval, Tick
<1>6. CASE UNCHANGED vars
  BY <1>6 DEF vars
<1> QED
  BY <1>5, <1>6

(* A response that means an incident ends the run as one, and nothing comes*)
(* after it.                                                               *)
LEMMA IncidentAnswered ==
  ASSUME NEW r \in Run, NEW c \in Call, NEW answer \in Answer, clock \in Nat,
         c.tool \in Unhurried, ResponseTarget(r, c.tool, answer) = "INCIDENT"
  PROVE  After(r, ResponseEvents(r, c, answer)).state = "INCIDENT"
<1> DEFINE outcome == ResponseOutcome(r, c, answer, "INCIDENT")
           after == After(r, <<outcome>>)
<1>1. ~Late(c.tool)
  BY DEF Late
<1>2. ResponseEvents(r, c, answer) =
        (<<outcome>> \o PostCallLimit(after))
          \o Automatic(After(r, <<outcome>> \o PostCallLimit(after)), c.tool, answer)
  BY <1>1, ResponseShape
<1>3. outcome.after = "INCIDENT"
  <2>1. "INCIDENT" \in RunStates \cap RunStates
    BY DEF RunStates, TerminalStates
  <2> QED
    BY <2>1, OutcomeInto
<1> HIDE DEF outcome
<1>4. after.state = "INCIDENT"
  BY <1>3, AbsorbFields, AfterOne
<1>5. PostCallLimit(after) = <<>>
  BY <1>4 DEF PostCallLimit, Open, TerminalStates
<1>6. Automatic(after, c.tool, answer) = <<>>
  BY <1>4 DEF Automatic
<1>7. <<outcome>> \o <<>> = <<outcome>>
  OBVIOUS
<1>8. ResponseEvents(r, c, answer) = <<outcome>>
  BY <1>2, <1>5, <1>6, <1>7
<1> QED
  BY <1>4, <1>8

(* A call that raises after execution began ends the run as an incident.   *)
LEMMA IncidentRaised ==
  ASSUME NEW r \in Run, NEW c, NEW answer, answer.kind = "raised",
         c.tool \in Unhurried, r.state \in AfterExecutionStates
  PROVE  After(r, ExceptionEvents(r, c, answer)).state = "INCIDENT"
<1> DEFINE failed == [ToolEvent(r, "TOOL_CALL_FAILED", c, "INCIDENT") EXCEPT !.code = "INTERNAL"]
<1>1. ~Late(c.tool)
  BY DEF Late
<1>2. ExceptionTarget(r, c, answer) = "INCIDENT"
  BY DEF ExceptionTarget
<1>3. ExceptionEvents(r, c, answer) = <<failed>>
  BY <1>1, <1>2 DEF ExceptionEvents
<1>4. failed.after = "INCIDENT"
  BY DEF ToolEvent, Move, Event
<1> HIDE DEF failed
<1> QED
  BY <1>3, <1>4, AbsorbFields, AfterOne

(* A stop signal whose outcome is stored leaves the run an incident,       *)
(* understood or not.                                                      *)
LEMMA SignalledRun ==
  ASSUME TypeInv, NEW i \in Instance, InPhase(i, "answered"), StopSignal(i)
  PROVE  After(call[i].reserved, OutcomeEvents(i)).state = "INCIDENT"
<1> DEFINE r == call[i].reserved
           c == r.pending
           answer == call[i].answer
           understood == Understood(i, r, c.tool, answer)
<1>1. r \in Run /\ r \in Reservations /\ answer \in Answer /\ c \in Call /\ clock \in Nat
  BY Answered DEF Reservations, SoundRuns, Reserved, TypeInv
<1>2. c.tool = "reconcile_account" /\ answer.kind = "ok" /\ answer.verdict = "rejected"
  BY DEF StopSignal, Reserved
<1>3. r.state = "RECONCILING"
  <2>1. r.state \in RunStates /\ c.tool \in StageTools(r.state, r.goal)
    BY <1>1 DEF Reservations, Run
  <2> QED
    BY <1>2, <2>1, StageOfTool
<1>4. c.tool \in Unhurried
  BY <1>2 DEF Unhurried
<1>5. OutcomeEvents(i) = IF understood.kind \in {"ok", "failed"}
                         THEN ResponseEvents(r, c, understood)
                         ELSE ExceptionEvents(r, c, understood)
  BY DEF OutcomeEvents
<1>6. understood = answer \/ understood = [kind |-> "raised"]
  BY DEF Understood
<1> HIDE DEF r, c, answer, understood
<1>7. CASE understood = answer
  <2>1. ResponseTarget(r, c.tool, answer) = "INCIDENT"
    BY <1>2 DEF ResponseTarget, SuccessTarget, ResearchTools, ExecutionTools
  <2>2. After(r, ResponseEvents(r, c, answer)).state = "INCIDENT"
    BY <1>1, <1>4, <2>1, IncidentAnswered
  <2> QED
    BY <1>2, <1>5, <1>7, <2>2 DEF r
<1>8. CASE understood = [kind |-> "raised"]
  <2>1. r.state \in AfterExecutionStates
    BY <1>3 DEF AfterExecutionStates
  <2>2. understood.kind = "raised"
    BY <1>8
  <2>3. After(r, ExceptionEvents(r, c, understood)).state = "INCIDENT"
    BY <1>1, <1>4, <2>1, <2>2, IncidentRaised
  <2> QED
    BY <1>5, <2>2, <2>3 DEF r
<1> QED
  BY <1>6, <1>7, <1>8

(* The incident handler was told of a stored incident.                     *)
SignalStored == notified => run # NoRun /\ run.state = "INCIDENT"

(* Every step keeps it so.                                                 *)
LEMMA SignalStays ==
  ASSUME TypeInv, SignalStored, [Next]_vars
  PROVE  SignalStored'
<1>1. CASE notified
  <2>1. run # NoRun /\ ~Open(run)
    BY <1>1 DEF SignalStored, Open, TerminalStates
  <2>2. run' = run
    BY <2>1, EndedStays
  <2> QED
    BY <1>1, <2>2 DEF SignalStored
<1>2. ASSUME ~notified, NEW i \in Instance, Record(i), Tells(i)
      PROVE  SignalStored'
  <2>1. InPhase(i, "answered") /\ Stored(i) /\ StopSignal(i)
    BY <1>2 DEF Record, Tells
  <2>2. run' = After(call[i].reserved, OutcomeEvents(i))
    BY <1>2, <2>1 DEF Record
  <2>3. run'.state = "INCIDENT"
    BY <2>1, <2>2, SignalledRun
  <2>4. run' \in SoundRuns /\ SoundRuns \subseteq Run
    BY <1>2, <2>1, RecordRun DEF SoundRuns
  <2>5. NoRun \notin Run
    BY RuntimeAssumption DEF RuntimeAssumption
  <2> QED
    BY <2>3, <2>4, <2>5 DEF SignalStored
<1>3. ASSUME ~notified, NEW i \in Instance, Record(i), ~Tells(i)
      PROVE  SignalStored'
  BY <1>3 DEF Record, SignalStored
<1>4. ASSUME ~notified, ~(\E i \in Instance : Record(i))
      PROVE  SignalStored'
  <2>1. notified' = notified
    BY <1>4 DEF Next, vars, StartRun, TimeGate, RequestCancel, RejectApproval, RecordApproval,
       Invoke, StopOnBudget, DenyAfterCancel, Deny, Reserve, Dispatch, Unchanged, Tick
  <2> QED
    BY <1>4, <2>1 DEF SignalStored
<1> QED
  BY <1>1, <1>2, <1>3, <1>4

(* The incident handler hears of a stop signal only from a run that is     *)
(* stored as an incident, and stays one.                                   *)
THEOREM StopSignalCorrect == Spec => []StopSignalIsDurable
<1>1. Init => SignalStored
  BY DEF Init, SignalStored
<1>2. TypeInv /\ SignalStored /\ [Next]_vars => SignalStored'
  BY SignalStays
<1>3. SignalStored => StopSignalIsDurable
  BY DEF SignalStored, StopSignalIsDurable
<1> QED
  BY <1>1, <1>2, <1>3, RunsStaySound, PTL DEF Spec

-----------------------------------------------------------------------------
(* How an event, and a call, may move a run while orders are claimed or    *)
(* sent.                                                                   *)

(* The states in which orders may be out and no call waits for them.       *)
SentStates == {"RECONCILING", "COMPLETED", "INCIDENT"}

(* The states that say orders were sent.                                   *)
ConfirmedStates == {"RECONCILING", "COMPLETED"}

(* How a save may move an open run that is no accepted submission: it does *)
(* not undo or invent sent orders, and drops a pending submission only for *)
(* an incident.                                                            *)
Settles(r, next) ==
  /\ Open(r)
  /\ next.calls >= r.calls
  /\ next.pending \in {r.pending, None}
  /\ r.state \in SentStates => next.state \in SentStates
  /\ next.state \in ConfirmedStates => r.state \in ConfirmedStates
  /\ WritePending(r) => next.pending = r.pending \/ next.state = "INCIDENT"

(* From a state after the submission a run goes on to such a state.        *)
LEMMA SentStays ==
  ASSUME NEW before, NEW after, NEW goal, NEW kind,
         ValidTransition(before, after, goal, kind), before \in SentStates
  PROVE  after \in SentStates
<1>1. before = "RECONCILING"
  BY DEF ValidTransition, SentStates, TerminalStates
<1>2. CASE before # after
  <2>1. after \in LegalTargets(before, goal)
    BY <1>2 DEF ValidTransition
  <2> QED
    BY <1>1, <2>1 DEF LegalTargets, SentStates, TerminalStates
<1> QED
  BY <1>1, <1>2 DEF SentStates

(* Along any chain.                                                        *)
LEMMA ReplaySent ==
  ASSUME NEW r \in Run, NEW events \in Seq(AgentEvent), Replay(r, events).ok,
         r.state \in SentStates
  PROVE  After(r, events).state \in SentStates
<1> DEFINE S == {x \in Run : x.state \in SentStates}
<1>1. r \in S
  OBVIOUS
<1>2. ASSUME NEW a, NEW e, e \in AgentEvent, a.run \in S, ReplayStep(a, e).ok
      PROVE  ReplayStep(a, e).run \in S
  <2>1. ReplayStep(a, e).run = Absorb(a.run, e) /\ e.before = a.run.state
        /\ ValidTransition(e.before, e.after, a.run.goal, e.kind)
    BY <1>2, StepOk
  <2>2. Absorb(a.run, e) \in Run /\ Absorb(a.run, e).state = e.after
    BY <1>2, AbsorbTyped, AbsorbFields
  <2>3. e.after \in SentStates
    BY <1>2, <2>1, SentStays
  <2> QED
    BY <2>1, <2>2, <2>3
<1> HIDE DEF S
<1>3. Replay(r, events).run \in S
  BY <1>1, <1>2, ReplayClosed
<1> QED
  BY <1>3 DEF S, After

(* A chain of events into T leaves a run in T, reserves nothing and keeps  *)
(* or drops the pending call.                                              *)
LEMMA ReplayInto ==
  ASSUME NEW T, NEW r \in Run, r.state \in T, NEW events \in Seq(Into(T)),
         Replay(r, events).ok
  PROVE  /\ After(r, events).state \in T
         /\ After(r, events).calls = r.calls
         /\ After(r, events).pending \in {r.pending, None}
<1> DEFINE S == {x \in Run : x.state \in T /\ x.calls = r.calls /\ x.pending \in {r.pending, None}}
<1>1. r \in S
  OBVIOUS
<1>2. ASSUME NEW a, NEW e, e \in Into(T), a.run \in S, ReplayStep(a, e).ok
      PROVE  ReplayStep(a, e).run \in S
  <2>1. ReplayStep(a, e).run = Absorb(a.run, e)
    BY <1>2, StepOk
  <2>2. e \in AgentEvent /\ e.kind # "TOOL_CALL_RESERVED" /\ e.after \in T
    BY <1>2 DEF Into
  <2>3. a.run \in Run /\ a.run.calls = r.calls /\ a.run.pending \in {r.pending, None}
    BY <1>2
  <2>4. Absorb(a.run, e) \in Run
    BY <2>2, <2>3, AbsorbTyped
  <2>5. Absorb(a.run, e).state = e.after
    BY <2>3, AbsorbFields
  <2>6. Absorb(a.run, e).calls = r.calls
    <3>1. Absorb(a.run, e).calls =
            a.run.calls + (IF e.kind = "TOOL_CALL_RESERVED" THEN 1 ELSE 0)
      BY <2>3, AbsorbFields
    <3>2. a.run.calls \in Nat
      BY <2>3 DEF Run
    <3> QED
      BY <2>2, <2>3, <3>1, <3>2
  <2>7. Absorb(a.run, e).pending \in {r.pending, None}
    <3>1. Absorb(a.run, e).pending =
              IF e.kind = "TOOL_CALL_RESERVED" THEN e.call
              ELSE IF e.kind \in ToolOutcomes \/ e.after \in TerminalStates THEN None
              ELSE a.run.pending
      BY <2>3, AbsorbFields
    <3> QED
      BY <2>2, <2>3, <3>1
  <2> QED
    BY <2>1, <2>2, <2>4, <2>5, <2>6, <2>7
<1> HIDE DEF S
<1>3. Replay(r, events).run \in S
  BY <1>1, <1>2, ReplayClosed
<1> QED
  BY <1>3 DEF S, After

(* An event that is not of a tool settles the run.                         *)
LEMMA ControlSettles ==
  ASSUME NEW r \in Run, NEW e, ReplayStep(Resume(r), e).ok,
         e.kind \notin SameStateObservations,
         e.after \in ConfirmedStates => e.after = r.state
  PROVE  Settles(r, Absorb(r, e))
<1> DEFINE next == Absorb(r, e)
           a == Resume(r)
<1>1. a.run = r /\ a.stageValid /\ a.strict
  BY DEF Resume
<1>2. /\ e.before = r.state
      /\ ValidTransition(e.before, e.after, r.goal, e.kind)
      /\ CancellationFits(r, e) /\ PendingRespected(a, e)
  BY <1>1, StepOk
<1>3. /\ next.state = e.after
      /\ next.pending =
              IF e.kind = "TOOL_CALL_RESERVED" THEN e.call
              ELSE IF e.kind \in ToolOutcomes \/ e.after \in TerminalStates THEN None
              ELSE r.pending
      /\ next.calls = r.calls + (IF e.kind = "TOOL_CALL_RESERVED" THEN 1 ELSE 0)
  BY AbsorbFields
<1> HIDE DEF next, a
<1>4. e.kind # "TOOL_CALL_RESERVED" /\ e.kind \notin ToolOutcomes
  BY DEF SameStateObservations
<1>5. Open(r)
  BY <1>2 DEF ValidTransition, Open
<1>6. next.calls >= r.calls
  <2>1. r.calls \in Nat
    BY DEF Run
  <2> QED
    BY <1>3, <1>4, <2>1
<1>7. next.pending \in {r.pending, None}
  BY <1>3, <1>4
<1>8. r.state \in SentStates => next.state \in SentStates
  BY <1>2, <1>3, SentStays
<1>9. next.state \in ConfirmedStates => r.state \in ConfirmedStates
  BY <1>3
<1>10. ASSUME WritePending(r), next.state # "INCIDENT"
       PROVE  next.pending = r.pending
  <2>1. r.pending # None
    BY <1>10 DEF WritePending
  <2>2. e.kind \in {"CANCELLATION_REQUESTED", "INCIDENT_RECORDED"}
    BY <1>1, <1>2, <1>4, <1>10, <2>1 DEF PendingRespected
  <2>3. e.kind # "INCIDENT_RECORDED"
    BY <1>2, <1>3, <1>4, <1>10 DEF ValidTransition, ChangingKindFits
  <2>4. e.after = r.state
    BY <1>2, <1>10, <2>2, <2>3 DEF CancellationFits
  <2> QED
    BY <1>3, <1>4, <1>5, <2>4 DEF Open
<1> QED
  BY <1>5, <1>6, <1>7, <1>8, <1>9, <1>10 DEF Settles, next

(* A save of one such event does.                                          *)
LEMMA CommitSettles ==
  \A e : /\ run \in Run /\ Commit(<<e>>) /\ e.kind \notin SameStateObservations
         /\ e.after \in ConfirmedStates => e.after = run.state
         => Settles(run, run')
<1> SUFFICES ASSUME NEW e, run \in Run, Commit(<<e>>), e.kind \notin SameStateObservations,
                    e.after \in ConfirmedStates => e.after = run.state
             PROVE  Settles(run, run')
  OBVIOUS
<1>1. run' = Absorb(run, e) /\ ReplayStep(Resume(run), e).ok
  BY AfterOne DEF Commit
<1> QED
  BY <1>1, ControlSettles

(* The kinds of events that are not of tools.                              *)
LEMMA ControlKinds ==
  {"INCIDENT_RECORDED", "TIMEOUT_RECORDED", "CANCELLATION_REQUESTED", "APPROVAL_REJECTED",
   "LIMIT_REACHED", "STATE_TRANSITION", "APPROVAL_RECORDED"} \cap SameStateObservations = {}
BY DEF SameStateObservations, ToolOutcomes

(* The event of a run that is out of budget.                               *)
LEMMA StopFields ==
  ASSUME NEW r
  PROVE  /\ Stop(r).kind \in {"INCIDENT_RECORDED", "LIMIT_REACHED"}
         /\ Stop(r).after = IF r.state \in AfterExecutionStates THEN "INCIDENT"
                            ELSE "LIMIT_EXCEEDED"
BY DEF Stop, Move, Event

(* The time gate.                                                          *)
LEMMA GateSettles ==
  ASSUME TypeInv, NEW i \in Instance, TimeGate(i)
  PROVE  Settles(run, run')
<1>1. run \in Run /\ Commit(<<GateEvent(run)>>)
  BY DEF TimeGate, TypeInv, RunsSound, SoundRuns
<1>2. /\ GateEvent(run).kind \in {"INCIDENT_RECORDED", "TIMEOUT_RECORDED"}
      /\ GateEvent(run).after \in {"INCIDENT", "EXPIRED", "TIMED_OUT"}
  BY DEF GateEvent, Move, Event
<1>3. GateEvent(run).kind \notin SameStateObservations /\ GateEvent(run).after \notin ConfirmedStates
  BY <1>2, ControlKinds DEF ConfirmedStates
<1> QED
  BY <1>1, <1>3, CommitSettles

(* A cancellation.                                                         *)
LEMMA CancelSettles ==
  ASSUME TypeInv, NEW i \in Instance, RequestCancel(i)
  PROVE  Settles(run, run')
<1> DEFINE e == Move(run, "CANCELLATION_REQUESTED", "CANCELLATION", CancelTarget(run))
<1>1. run \in Run /\ Commit(<<e>>)
  BY DEF RequestCancel, Passes, TypeInv, RunsSound, SoundRuns
<1>2. e.kind = "CANCELLATION_REQUESTED" /\ e.after \in {run.state, "CANCELLED"}
  BY DEF Move, Event, CancelTarget
<1> HIDE DEF e
<1>3. e.kind \notin SameStateObservations /\ (e.after \in ConfirmedStates => e.after = run.state)
  BY <1>2, ControlKinds DEF ConfirmedStates
<1> QED
  BY <1>1, <1>3, CommitSettles

(* A rejected approval.                                                    *)
LEMMA RejectSettles ==
  ASSUME TypeInv, NEW i \in Instance, RejectApproval(i)
  PROVE  Settles(run, run')
<1> DEFINE e == Move(run, "APPROVAL_REJECTED", "HUMAN", "REJECTED")
<1>1. run \in Run /\ Commit(<<e>>)
  BY DEF RejectApproval, Passes, TypeInv, RunsSound, SoundRuns
<1>2. e.kind = "APPROVAL_REJECTED" /\ e.after = "REJECTED"
  BY DEF Move, Event
<1> HIDE DEF e
<1>3. e.kind \notin SameStateObservations /\ e.after \notin ConfirmedStates
  BY <1>2, ControlKinds DEF ConfirmedStates
<1> QED
  BY <1>1, <1>3, CommitSettles

(* A run that is out of budget.                                            *)
LEMMA StopSettles ==
  ASSUME TypeInv, NEW i \in Instance, StopOnBudget(i)
  PROVE  Settles(run, run')
<1>1. run \in Run /\ Commit(<<Stop(run)>>)
  BY DEF StopOnBudget, Passes, TypeInv, RunsSound, SoundRuns
<1>2. Stop(run).kind \notin SameStateObservations /\ Stop(run).after \notin ConfirmedStates
  BY StopFields, ControlKinds DEF ConfirmedStates
<1> QED
  BY <1>1, <1>2, CommitSettles

(* An execution tool asked for after a cancellation.                       *)
LEMMA DenyAfterCancelSettles ==
  ASSUME TypeInv, NEW i \in Instance, DenyAfterCancel(i)
  PROVE  Settles(run, run')
<1> DEFINE e == Move(run, "INCIDENT_RECORDED", "SYSTEM", "INCIDENT")
<1>1. run \in Run /\ Commit(<<e>>)
  BY DEF DenyAfterCancel, Passes, TypeInv, RunsSound, SoundRuns
<1>2. e.kind = "INCIDENT_RECORDED" /\ e.after = "INCIDENT"
  BY DEF Move, Event
<1> HIDE DEF e
<1>3. e.kind \notin SameStateObservations /\ e.after \notin ConfirmedStates
  BY <1>2, ControlKinds DEF ConfirmedStates
<1> QED
  BY <1>1, <1>3, CommitSettles

(* Saving two events.                                                      *)
LEMMA TwoSteps ==
  ASSUME NEW r, NEW e, NEW f
  PROVE  /\ After(r, <<e, f>>) = Absorb(Absorb(r, e), f)
         /\ Replayable(r, <<e, f>>) => ReplayStep(Resume(r), e).ok /\ Replay(r, <<e, f>>).ok
<1> DEFINE first == ReplayStep(Resume(r), e)
<1>1. Replay(r, <<e, f>>) = ReplayStep(first, f)
  BY ReplayTwo
<1>2. first.run = Absorb(r, e)
  BY DEF ReplayStep, Resume
<1> HIDE DEF first
<1>3. ReplayStep(first, f).run = Absorb(first.run, f)
  BY DEF ReplayStep
<1>4. ReplayStep(first, f).ok => first.ok
  BY ReplayOk
<1>5. After(r, <<e, f>>) = Absorb(Absorb(r, e), f)
  BY <1>1, <1>2, <1>3 DEF After
<1>6. Replayable(r, <<e, f>>) => Replay(r, <<e, f>>).ok
  BY DEF Replayable
<1> QED
  BY <1>1, <1>4, <1>5, <1>6 DEF first

(* An approval.                                                            *)
LEMMA ApprovalSettles ==
  ASSUME TypeInv, NEW i \in Instance, NEW approval \in Approval, RecordApproval(i, approval)
  PROVE  Settles(run, run')
<1> DEFINE e == [Move(run, "APPROVAL_RECORDED", "HUMAN", "APPROVED") EXCEPT !.approval = approval]
           f == Event("STATE_TRANSITION", "SYSTEM", "APPROVED", "EXECUTING", clock)
           next == Absorb(run, e)
<1>1. /\ run \in Run /\ run \in SoundRuns /\ Open(run) /\ run.state = "PENDING_APPROVAL"
      /\ Replayable(run, <<e, f>>) /\ run' = After(run, <<e, f>>)
  BY DEF RecordApproval, Passes, Commit, TypeInv, RunsSound, SoundRuns
<1>2. e.kind = "APPROVAL_RECORDED" /\ e.after = "APPROVED"
  BY DEF Move, Event
<1>3. f.kind = "STATE_TRANSITION" /\ f.after = "EXECUTING"
  BY DEF Event
<1>4. e \in AgentEvent
  BY <1>1, ApprovalTyped DEF TypeInv
<1> HIDE DEF e, f
<1>5. run' = Absorb(next, f) /\ ReplayStep(Resume(run), e).ok
  BY <1>1, TwoSteps
<1>6. run.pending = None
  <2>1. PendingRespected(Resume(run), e) /\ Resume(run).run = run
    BY <1>5, StepOk DEF Resume
  <2> QED
    BY <1>2, <2>1 DEF PendingRespected, ToolOutcomes
<1>7. /\ next \in Run /\ next.calls = run.calls + 0 /\ next.pending = None
  BY <1>1, <1>2, <1>4, <1>6, AbsorbTyped, AbsorbFields DEF ToolOutcomes
<1> HIDE DEF next
<1>8. /\ run'.state = "EXECUTING" /\ run'.calls = next.calls + 0 /\ run'.pending = None
  BY <1>3, <1>5, <1>7, AbsorbFields DEF ToolOutcomes
<1>9. run'.calls >= run.calls
  BY <1>1, <1>7, <1>8 DEF Run
<1>10. ~WritePending(run)
  BY <1>6 DEF WritePending
<1> QED
  BY <1>1, <1>6, <1>8, <1>9, <1>10 DEF Settles, SentStates, ConfirmedStates

(* A denied call.                                                          *)
LEMMA DenySettles ==
  ASSUME TypeInv, NEW i \in Instance, NEW c \in CallsOf(run), Deny(i, c)
  PROVE  Settles(run, run')
<1> DEFINE e == ToolEvent(run, "TOOL_CALL_RESERVED", c, run.state)
           f == [ToolEvent(run, "TOOL_CALL_REJECTED", c, run.state) EXCEPT !.code = "STAGE_REJECTED"]
           g == Stop(run)
           first == Absorb(run, e)
           second == Absorb(first, f)
<1>1. run \in SoundRuns /\ run \in Run /\ c \in Call /\ Open(run) /\ clock \in Nat
  BY CallTyped DEF Deny, Passes, TypeInv, RunsSound, SoundRuns
<1>2. Commit(<<e, f>>) \/ Commit(Append(<<e, f>>, g))
  <2>1. DeniedEvents(c) = <<e, f>>
    BY DEF DeniedEvents
  <2> QED
    BY <2>1, DenySaved DEF DenySaves
<1>3. /\ e.kind = "TOOL_CALL_RESERVED" /\ e.after = run.state
      /\ f.kind = "TOOL_CALL_REJECTED" /\ f.after = run.state
  BY DEF ToolEvent, Move, Event
<1>4. g.kind \in {"INCIDENT_RECORDED", "LIMIT_REACHED"}
      /\ g.after = IF run.state \in AfterExecutionStates THEN "INCIDENT" ELSE "LIMIT_EXCEEDED"
  BY StopFields
<1>5. e \in AgentEvent /\ f \in AgentEvent /\ g \in AgentEvent
  <2>1. {"TOOL_CALL_RESERVED", "TOOL_CALL_REJECTED"} \subseteq SameStateObservations
    BY DEF SameStateObservations, ToolOutcomes
  <2>2. run.state \in RunStates /\ "STAGE_REJECTED" \in Codes
    BY <1>1 DEF Run, Codes
  <2>3. ToolEvent(run, "TOOL_CALL_REJECTED", c, run.state) \in AgentEvent
    BY <1>1, <2>1, <2>2, ToolEventTyped
  <2> QED
    BY <1>1, <2>1, <2>2, <2>3, ToolEventTyped, CodeTyped, StopTyped
<1> HIDE DEF e, f, g
<1>6. first \in Run /\ first.state = run.state /\ first.calls = run.calls + 1
  BY <1>1, <1>3, <1>5, AbsorbTyped, AbsorbFields
<1> HIDE DEF first
<1>7. second \in Run /\ second.state = run.state /\ second.calls = first.calls + 0
      /\ second.pending = None
  BY <1>3, <1>5, <1>6, AbsorbTyped, AbsorbFields DEF ToolOutcomes
<1>8. second.calls >= run.calls
  BY <1>1, <1>6, <1>7 DEF Run
<1> HIDE DEF second
<1>9. ReplayStep(Resume(run), e).ok /\ (run' = second \/ run' = Absorb(second, g))
  <2>1. CASE Commit(<<e, f>>)
    BY <2>1, TwoSteps DEF Commit, first, second
  <2>2. CASE Commit(Append(<<e, f>>, g))
    <3>1. <<e, f>> \in Seq(AgentEvent)
      BY <1>5
    <3>2. Replay(run, Append(<<e, f>>, g)) = ReplayStep(Replay(run, <<e, f>>), g)
      <4> DEFINE denied == <<e, f>>
      <4>1. denied \in Seq(AgentEvent)
        BY <3>1
      <4> HIDE DEF denied
      <4>2. Replay(run, Append(denied, g)) = ReplayStep(Replay(run, denied), g)
        BY <1>5, <4>1, ReplayAppend
      <4> QED
        BY <4>2 DEF denied
    <3>3. Replay(run, <<e, f>>).run = second
      BY TwoSteps DEF After, first, second
    <3>4. ReplayStep(Replay(run, <<e, f>>), g).run = Absorb(second, g)
      BY <3>3 DEF ReplayStep
    <3>5. Replay(run, <<e, f>>) = ReplayStep(ReplayStep(Resume(run), e), f)
      BY ReplayTwo
    <3>6. Replay(run, Append(<<e, f>>, g)).ok
      BY <2>2 DEF Commit, Replayable
    <3>7. ReplayStep(Resume(run), e).ok
      BY <3>2, <3>5, <3>6, ReplayOk
    <3>8. run' = Absorb(second, g)
      BY <2>2, <3>2, <3>4 DEF Commit, After
    <3> QED
      BY <3>7, <3>8
  <2> QED
    BY <1>2, <2>1, <2>2
<1>10. run.pending = None
  <2>1. MayReserve(run, e)
    BY <1>9, StepOk DEF Resume
  <2> QED
    BY <1>3, <2>1 DEF MayReserve
<1>11. ~WritePending(run) /\ run.state # "INCIDENT" /\ run.state # "COMPLETED"
  BY <1>1, <1>10 DEF WritePending, Open, TerminalStates
<1>12. CASE run' = second
  BY <1>1, <1>7, <1>8, <1>11, <1>12 DEF Settles
<1>13. CASE run' = Absorb(second, g)
  <2>1. /\ run'.state = g.after /\ run'.calls = second.calls + 0 /\ run'.pending = None
    BY <1>4, <1>7, <1>13, AbsorbFields DEF ToolOutcomes
  <2>2. run'.calls >= run.calls
    BY <1>7, <1>8, <2>1 DEF Run
  <2>3. run.state \in SentStates => run'.state = "INCIDENT"
    BY <1>4, <1>11, <2>1 DEF SentStates, AfterExecutionStates
  <2>4. run'.state \notin ConfirmedStates
    BY <1>4, <2>1 DEF ConfirmedStates
  <2> QED
    BY <1>1, <1>11, <2>1, <2>2, <2>3, <2>4 DEF Settles, SentStates
<1> QED
  BY <1>9, <1>12, <1>13

-----------------------------------------------------------------------------
(* How recording an outcome moves a run.                                   *)

(* What the runtime makes of the answer instance i got.                    *)
MadeOf(i) ==
  Understood(i, call[i].reserved, Reserved(i).tool, call[i].answer)

(* It is an answer, or the call counts as raised.                          *)
LEMMA Made ==
  ASSUME TypeInv, NEW i \in Instance, InPhase(i, "answered")
  PROVE  /\ call[i].reserved \in Run /\ call[i].reserved \in Reservations
         /\ Reserved(i) \in Call /\ clock \in Nat /\ call[i].answer \in Answer
         /\ MadeOf(i) \in Answer /\ MadeOf(i).kind \in {"ok", "failed", "denied", "arguments", "raised"}
         /\ MadeOf(i).kind # "raised" => MadeOf(i) = call[i].answer
         /\ OutcomeEvents(i) =
              IF MadeOf(i).kind \in {"ok", "failed"}
              THEN ResponseEvents(call[i].reserved, Reserved(i), MadeOf(i))
              ELSE ExceptionEvents(call[i].reserved, Reserved(i), MadeOf(i))
<1>1. /\ call[i].reserved \in Run /\ call[i].reserved \in Reservations
      /\ Reserved(i) \in Call /\ clock \in Nat /\ call[i].answer \in Answer
  BY Answered DEF Reservations, SoundRuns, TypeInv
<1>2. MadeOf(i) \in Answer
  BY <1>1, UnderstoodTyped DEF MadeOf
<1>3. MadeOf(i).kind \in {"ok", "failed", "denied", "arguments", "raised"}
  BY <1>2, AnswerKinds
<1>4. MadeOf(i).kind # "raised" => MadeOf(i) = call[i].answer
  BY DEF MadeOf, Understood
<1>5. OutcomeEvents(i) =
        IF MadeOf(i).kind \in {"ok", "failed"}
        THEN ResponseEvents(call[i].reserved, Reserved(i), MadeOf(i))
        ELSE ExceptionEvents(call[i].reserved, Reserved(i), MadeOf(i))
  BY DEF OutcomeEvents, MadeOf, Reserved
<1> QED
  BY <1>1, <1>2, <1>3, <1>4, <1>5

(* The events of the outcome lead into any T that holds the state of the   *)
(* run, its target and the ways a run goes on by itself.                   *)
LEMMA OutcomesInto ==
  ASSUME TypeInv, NEW i \in Instance, InPhase(i, "answered"), NEW T, ClosingStates \subseteq T,
         call[i].reserved.state \in T,
         MadeOf(i).kind \in {"ok", "failed"} =>
           ResponseTarget(call[i].reserved, Reserved(i).tool, MadeOf(i)) \in T
  PROVE  OutcomeEvents(i) \in Seq(Into(T))
<1>1. CASE MadeOf(i).kind \in {"ok", "failed"}
  BY <1>1, Made, ResponseInto
<1>2. CASE MadeOf(i).kind \notin {"ok", "failed"}
  <2>1. MadeOf(i).kind \in {"denied", "arguments", "raised"}
    BY <1>2, Made
  <2> QED
    BY <1>2, <2>1, Made, ExceptionInto
<1> QED
  BY <1>1, <1>2

(* A stored outcome answers the call of the run, and no other.             *)
LEMMA RecordedRun ==
  ASSUME TypeInv, NEW i \in Instance, Record(i), Stored(i)
  PROVE  /\ InPhase(i, "answered") /\ run = call[i].reserved /\ run \in Run /\ Open(run)
         /\ run.pending = Reserved(i)
         /\ run' = After(run, OutcomeEvents(i)) /\ Replay(run, OutcomeEvents(i)).ok
         /\ run'.calls = run.calls /\ run'.pending \in {run.pending, None}
         /\ run.state \in SentStates => run'.state \in SentStates
<1>1. /\ InPhase(i, "answered") /\ run = call[i].reserved
      /\ run' = After(run, OutcomeEvents(i)) /\ Replay(run, OutcomeEvents(i)).ok
  BY DEF Record, Stored, Unmoved, Replayable
<1>2. run \in Run /\ run \in Reservations /\ run.pending = Reserved(i)
  BY <1>1, Made DEF Reserved
<1>3. Open(run)
  BY <1>2 DEF Reservations, SoundRuns
<1>4. OutcomeEvents(i) \in Seq(Into(RunStates))
  <2>1. MadeOf(i).kind \in {"ok", "failed"} =>
          ResponseTarget(call[i].reserved, Reserved(i).tool, MadeOf(i)) \in RunStates
    BY <1>1, Made, ResponseTargetTyped
  <2>2. call[i].reserved.state \in RunStates
    BY <1>1, <1>2 DEF Run
  <2> QED
    BY <1>1, <2>1, <2>2, AllStates, OutcomesInto
<1>5. run'.calls = run.calls /\ run'.pending \in {run.pending, None}
  <2>1. run.state \in RunStates
    BY <1>2 DEF Run
  <2> QED
    BY <1>1, <1>2, <1>4, <2>1, ReplayInto
<1>6. run.state \in SentStates => run'.state \in SentStates
  <2>1. OutcomeEvents(i) \in Seq(AgentEvent)
    BY <1>1, OutcomeTyped
  <2> QED
    BY <1>1, <1>2, <2>1, ReplaySent
<1> QED
  BY <1>1, <1>2, <1>3, <1>5, <1>6

(* Only submissions and reconciliations confirm orders.                    *)
LEMMA TargetUnconfirmed ==
  ASSUME NEW r \in Run, NEW tool, NEW answer \in Answer, answer.kind \in {"ok", "failed"},
         tool \notin ExecutionTools, tool # "reconcile_account", r.state \notin ConfirmedStates
  PROVE  ResponseTarget(r, tool, answer) \notin ConfirmedStates
<1>1. CASE answer.kind = "ok"
  <2>1. answer.verdict \in Verdict
    BY <1>1, AnswerKinds
  <2>2. SuccessTarget(r, tool, answer.verdict) \notin ConfirmedStates
    BY <2>1 DEF SuccessTarget, ConfirmedStates, Verdict
  <2> QED
    BY <1>1, <2>2 DEF ResponseTarget
<1>2. CASE answer.kind = "failed"
  <2>1. FailedState(r.state, tool, answer.code)
          \in {r.state, "INCIDENT", "REJECTED", "DATA_INVALID", "FAILED"}
    BY DEF FailedState
  <2> QED
    BY <1>2, <2>1 DEF ResponseTarget, ConfirmedStates
<1> QED
  BY <1>1, <1>2

(* A run that goes on by itself confirms nothing.                          *)
LEMMA OpenUnconfirmed ==
  ClosingStates \subseteq RunStates \ ConfirmedStates
BY AllStates DEF ClosingStates, ConfirmedStates

(* The outcome of a call that is no submission.                            *)
LEMMA RecordSettles ==
  ASSUME TypeInv, NEW i \in Instance, Record(i), Stored(i), Reserved(i).tool \notin ExecutionTools
  PROVE  Settles(run, run')
<1>1. /\ InPhase(i, "answered") /\ run = call[i].reserved /\ run \in Run /\ Open(run)
      /\ run.pending = Reserved(i)
      /\ run' = After(run, OutcomeEvents(i)) /\ Replay(run, OutcomeEvents(i)).ok
      /\ run'.calls = run.calls /\ run'.pending \in {run.pending, None}
      /\ run.state \in SentStates => run'.state \in SentStates
  BY RecordedRun
<1>2. run'.calls >= run.calls
  BY <1>1 DEF Run
<1>3. ~WritePending(run)
  BY <1>1 DEF WritePending
<1>4. ASSUME run.state \notin ConfirmedStates PROVE run'.state \notin ConfirmedStates
  <2> DEFINE T == RunStates \ ConfirmedStates
  <2>1. run.state \in T
    BY <1>1, <1>4 DEF Run
  <2>2. Reserved(i).tool # "reconcile_account"
    <3>1. run.state \in RunStates /\ Reserved(i).tool \in StageTools(run.state, run.goal)
      BY <1>1, Made DEF Reservations, Run
    <3> QED
      BY <1>4, <3>1, StageOfTool DEF ConfirmedStates
  <2>3. MadeOf(i).kind \in {"ok", "failed"} =>
          ResponseTarget(run, Reserved(i).tool, MadeOf(i)) \in T
    BY <1>1, <1>4, <2>2, Made, TargetUnconfirmed, ResponseTargetTyped
  <2>4. ClosingStates \subseteq T
    BY OpenUnconfirmed
  <2> HIDE DEF T
  <2>5. OutcomeEvents(i) \in Seq(Into(T))
    BY <1>1, <2>1, <2>3, <2>4, OutcomesInto
  <2>6. run'.state \in T
    BY <1>1, <2>1, <2>5, ReplayInto
  <2> QED
    BY <2>6 DEF T
<1> QED
  BY <1>1, <1>2, <1>3, <1>4 DEF Settles

(* Two sequences of one element.                                           *)
LEMMA TwoOfOnes ==
  ASSUME NEW e, NEW f
  PROVE  <<e>> \o <<f>> = <<e, f>>
<1> DEFINE s == <<e>>
           t == <<e, f>>
<1>1. s \in Seq({e, f}) /\ t \in Seq({e, f}) /\ f \in {e, f}
  OBVIOUS
<1>2. Len(s) = 1 /\ s[1] = e /\ Len(t) = 2 /\ t[1] = e /\ t[2] = f
  OBVIOUS
<1> HIDE DEF s, t
<1>3. Len(t) = Len(s) + 1 /\ (\A m \in 1..Len(s) : t[m] = s[m]) /\ t[Len(s) + 1] = f
  BY <1>2
<1>4. Append(s, f) = t
  BY <1>1, <1>3, Appended
<1>5. s \o <<f>> = Append(s, f)
  BY <1>1, AppendIsConcat
<1> QED
  BY <1>4, <1>5 DEF s, t

(* An accepted submission goes on to reconciliation, or to an incident when*)
(* the budget is spent.                                                    *)
LEMMA SubmissionAnswered ==
  ASSUME NEW r \in Run, NEW c \in Call, NEW answer \in Answer, clock \in Nat,
         c.tool \in ExecutionTools, answer.kind = "ok"
  PROVE  After(r, ResponseEvents(r, c, answer)).state \in SentStates
<1> DEFINE outcome == ResponseOutcome(r, c, answer, "RECONCILING")
           after == After(r, <<outcome>>)
<1>1. ~Late(c.tool)
  BY DEF Late, Unhurried
<1>2. ResponseTarget(r, c.tool, answer) = "RECONCILING"
  BY DEF ResponseTarget, SuccessTarget, ExecutionTools, ResearchTools
<1>3. ResponseEvents(r, c, answer) =
        (<<outcome>> \o PostCallLimit(after))
          \o Automatic(After(r, <<outcome>> \o PostCallLimit(after)), c.tool, answer)
  BY <1>1, <1>2, ResponseShape
<1>4. outcome \in AgentEvent /\ outcome.after = "RECONCILING"
  <2>1. "RECONCILING" \in RunStates \cap RunStates
    BY DEF RunStates, AfterExecutionStates
  <2> QED
    BY <2>1, OutcomeInto, IntoTyped
<1> HIDE DEF outcome
<1>5. after = Absorb(r, outcome) /\ after \in Run /\ after.state = "RECONCILING"
  <2>1. after = Absorb(r, outcome)
    BY AfterOne
  <2>2. Absorb(r, outcome) \in Run
    BY <1>4, AbsorbTyped
  <2>3. Absorb(r, outcome).state = "RECONCILING"
    BY <1>4, AbsorbFields
  <2> QED
    BY <2>1, <2>2, <2>3
<1>6. CASE PostCallLimit(after) = <<>>
  <2>1. Automatic(after, c.tool, answer) = <<>>
    BY <1>5 DEF Automatic
  <2>2. <<outcome>> \o <<>> = <<outcome>>
    OBVIOUS
  <2>3. ResponseEvents(r, c, answer) = <<outcome>>
    BY <1>3, <1>6, <2>1, <2>2
  <2> QED
    BY <1>5, <2>3 DEF SentStates
<1>7. CASE PostCallLimit(after) # <<>>
  <2> DEFINE stop == Stop(after)
             ended == After(r, <<outcome, stop>>)
  <2>1. PostCallLimit(after) = <<stop>>
    BY <1>7 DEF PostCallLimit
  <2>2. stop.after = "INCIDENT"
    BY <1>5, StopFields DEF AfterExecutionStates
  <2> HIDE DEF stop
  <2>3. ended = Absorb(after, stop)
    BY <1>5, TwoSteps
  <2>4. ended.state = "INCIDENT"
    BY <1>5, <2>2, <2>3, AbsorbFields
  <2>5. <<outcome>> \o <<stop>> = <<outcome, stop>>
    BY TwoOfOnes
  <2>6. Automatic(ended, c.tool, answer) = <<>>
    BY <2>4 DEF Automatic
  <2>7. <<outcome, stop>> \o <<>> = <<outcome, stop>>
    OBVIOUS
  <2>8. ResponseEvents(r, c, answer) = <<outcome, stop>>
    BY <1>3, <2>1, <2>5, <2>6, <2>7
  <2> QED
    BY <2>4, <2>8 DEF SentStates
<1> QED
  BY <1>6, <1>7

(* The outcome of a submission: an acceptance reaches reconciliation or an *)
(* incident, a rejection confirms nothing, and anything else is an         *)
(* incident.                                                               *)
LEMMA SubmissionRecorded ==
  ASSUME TypeInv, NEW i \in Instance, Record(i), Stored(i), Reserved(i).tool \in ExecutionTools
  PROVE  /\ run.state = "EXECUTING"
         /\ call[i].answer.kind \notin {"ok", "denied", "arguments"} => run'.state = "INCIDENT"
         /\ call[i].answer.kind = "ok" => run'.state \in SentStates
         /\ call[i].answer.kind \in {"denied", "arguments"} => run'.state \notin ConfirmedStates
<1>1. /\ InPhase(i, "answered") /\ run = call[i].reserved /\ run \in Run
      /\ run' = After(run, OutcomeEvents(i)) /\ Replay(run, OutcomeEvents(i)).ok
  BY RecordedRun
<1>2. /\ run \in Reservations
      /\ Reserved(i) \in Call /\ clock \in Nat /\ call[i].answer \in Answer
      /\ MadeOf(i) \in Answer /\ MadeOf(i).kind \in {"ok", "failed", "denied", "arguments", "raised"}
      /\ MadeOf(i).kind # "raised" => MadeOf(i) = call[i].answer
      /\ OutcomeEvents(i) =
              IF MadeOf(i).kind \in {"ok", "failed"}
              THEN ResponseEvents(run, Reserved(i), MadeOf(i))
              ELSE ExceptionEvents(run, Reserved(i), MadeOf(i))
  BY <1>1, Made
<1>3. run.state = "EXECUTING"
  <2>1. run.state \in RunStates /\ Reserved(i).tool \in StageTools(run.state, run.goal)
    BY <1>1, <1>2 DEF Reservations, Run, Reserved
  <2> QED
    BY <2>1, StageOfTool
<1>4. Reserved(i).tool \in Unhurried
  BY DEF Unhurried
<1>5. MadeOf(i).kind = "raised" => run'.state = "INCIDENT"
  BY <1>1, <1>2, <1>3, <1>4, IncidentRaised DEF AfterExecutionStates
<1>6. ASSUME MadeOf(i).kind = "failed" PROVE run'.state = "INCIDENT"
  <2>1. ResponseTarget(run, Reserved(i).tool, MadeOf(i)) = "INCIDENT"
    BY <1>4, <1>6 DEF ResponseTarget, FailedState
  <2> QED
    BY <1>1, <1>2, <1>4, <1>6, <2>1, IncidentAnswered
<1>7. MadeOf(i).kind = "ok" => run'.state \in SentStates
  BY <1>1, <1>2, SubmissionAnswered
<1>8. ASSUME MadeOf(i).kind \in {"denied", "arguments"} PROVE run'.state \notin ConfirmedStates
  <2> DEFINE T == RunStates \ ConfirmedStates
  <2>1. run.state \in T
    BY <1>1, <1>3 DEF Run, ConfirmedStates
  <2>2. ClosingStates \subseteq T
    BY OpenUnconfirmed
  <2> HIDE DEF T
  <2>3. OutcomeEvents(i) \in Seq(Into(T))
    BY <1>1, <1>8, <2>1, <2>2, OutcomesInto
  <2>4. run'.state \in T
    BY <1>1, <2>1, <2>3, ReplayInto
  <2> QED
    BY <2>4 DEF T
<1>9. "INCIDENT" \in SentStates /\ "INCIDENT" \notin ConfirmedStates
  BY DEF SentStates, ConfirmedStates
<1>10. call[i].answer.kind = "failed" => MadeOf(i).kind \in {"failed", "raised"}
  BY DEF MadeOf, Understood
<1>11. call[i].answer.kind \in {"ok", "denied", "arguments"} =>
         MadeOf(i).kind \in {call[i].answer.kind, "raised"}
  BY DEF MadeOf, Understood
<1>12. call[i].answer.kind \in {"ok", "failed", "denied", "arguments", "raised"}
  BY <1>2, AnswerKinds
<1>13. call[i].answer.kind = "raised" => MadeOf(i).kind = "raised"
  BY DEF MadeOf, Understood
<1> QED
  BY <1>2, <1>3, <1>5, <1>6, <1>7, <1>8, <1>9, <1>10, <1>11, <1>12, <1>13

-----------------------------------------------------------------------------
(* Counting submissions: how often they ran, against what the run says of  *)
(* them.                                                                   *)

(* Instance i is in a tool call.                                           *)
Busy(i) == call[i] # Idle

(* The calls in flight were reserved by the run, each under a number of its*)
(* own.                                                                    *)
CallsNumbered ==
  /\ \A i \in Instance : Busy(i) => run # NoRun /\ Reserved(i).request <= run.calls
  /\ \A i, j \in Instance :
       Busy(i) /\ Busy(j) /\ Reserved(i).request = Reserved(j).request => i = j

(* At most one submission is on its way; it has not run, and the run waits *)
(* for it or is an incident.                                               *)
OneClaim ==
  /\ submitted \in {0, 1}
  /\ \A i \in Instance : Submitting(i) =>
       /\ submitted = 0
       /\ run.pending = Reserved(i) \/ run.state = "INCIDENT"
  /\ \A i, j \in Instance : Submitting(i) /\ Submitting(j) => i = j

(* When orders were sent the run waits for the answer or says so, and it   *)
(* never says so when they were not.                                       *)
OrdersAccounted ==
  /\ submitted = 1 => run # NoRun /\ (WritePending(run) \/ run.state \in SentStates)
  /\ run # NoRun /\ run.state \in ConfirmedStates => submitted = 1

(* An accepted submission was sent, a rejected one the run still waits for *)
(* was not.                                                                *)
AnswersTrue ==
  \A i \in Instance : InPhase(i, "answered") /\ Reserved(i).tool \in ExecutionTools =>
    /\ call[i].answer.kind = "ok" => submitted = 1
    /\ run.pending = Reserved(i) /\ call[i].answer.kind \in {"denied", "arguments"} =>
         submitted = 0

(* The invariant of submissions.                                           *)
SubmissionInv == CallsNumbered /\ OneClaim /\ OrdersAccounted /\ AnswersTrue

(* What is known of a call in flight.                                      *)
LEMMA BusyTyped ==
  ASSUME TypeInv, NEW i \in Instance, Busy(i)
  PROVE  /\ call[i].reserved \in Reservations
         /\ Reserved(i) \in Call /\ Reserved(i).request \in Nat /\ Reserved(i) # None
         /\ InPhase(i, "dispatched") \/ InPhase(i, "answered")
<1>1. call[i] \in InFlight
  BY DEF TypeInv, Busy
<1>2. call[i].reserved \in Reservations /\ call[i].phase \in {"dispatched", "answered"}
  BY <1>1 DEF InFlight
<1>3. Reserved(i) # None /\ Reserved(i) \in Call \cup {None}
  BY <1>2 DEF Reservations, SoundRuns, Run, Reserved
<1>4. Reserved(i).request \in Nat
  BY <1>3 DEF Call
<1> QED
  BY <1>2, <1>3, <1>4 DEF InPhase, Busy

(* And of a submission in flight.                                          *)
LEMMA SubmittingTyped ==
  ASSUME TypeInv, NEW i \in Instance, Submitting(i)
  PROVE  Busy(i) /\ Reserved(i).tool \in ExecutionTools /\ Reserved(i) # None
         /\ (run.pending = Reserved(i) => WritePending(run))
<1>1. Busy(i) /\ Reserved(i).tool \in ExecutionTools
  BY DEF Submitting, InPhase, Busy
<1>2. Reserved(i) # None
  BY <1>1, BusyTyped
<1> QED
  BY <1>1, <1>2 DEF WritePending

(* And of a stored run.                                                    *)
LEMMA RunTyped ==
  ASSUME TypeInv, run # NoRun
  PROVE  run \in SoundRuns /\ run \in Run /\ run.calls \in Nat
         /\ (run.pending # None => Open(run))
BY DEF TypeInv, RunsSound, SoundRuns, Run

(* A step that settles the run, and starts no call, keeps the invariant.   *)
LEMMA SettledKeeps ==
  ASSUME TypeInv, SubmissionInv, run # NoRun, run' \in SoundRuns, submitted' = submitted,
         \A j \in Instance : call'[j] = call[j] \/ call'[j] = Idle,
         run' = run \/ Settles(run, run')
  PROVE  SubmissionInv'
<1>1. ASSUME NEW j \in Instance, Busy(j)'
      PROVE  Busy(j) /\ call'[j] = call[j] /\ Reserved(j)' = Reserved(j)
  BY <1>1 DEF Busy, Reserved
<1>2. ASSUME NEW j \in Instance, Submitting(j)' PROVE Submitting(j) /\ Reserved(j)' = Reserved(j)
  <2>1. Busy(j)'
    BY <1>2 DEF Submitting, InPhase, Busy
  <2>2. call'[j] = call[j]
    BY <1>1, <2>1
  <2> QED
    BY <1>2, <2>2 DEF Submitting, InPhase, Reserved
<1>3. run' # NoRun
  BY RuntimeAssumption DEF RuntimeAssumption, SoundRuns
<1>4. run'.calls >= run.calls /\ run.calls \in Nat /\ run'.calls \in Nat
  <2>1. run.calls \in Nat /\ run'.calls \in Nat
    BY RunTyped DEF SoundRuns, Run
  <2> QED
    BY <2>1 DEF Settles
<1>5. CallsNumbered'
  <2>1. ASSUME NEW i \in Instance, Busy(i)' PROVE Reserved(i)'.request <= run'.calls
    <3>1. Busy(i) /\ Reserved(i)' = Reserved(i)
      BY <1>1, <2>1
    <3>2. Reserved(i).request <= run.calls /\ Reserved(i).request \in Nat
      BY <3>1, BusyTyped DEF SubmissionInv, CallsNumbered
    <3> QED
      BY <1>4, <3>1, <3>2
  <2>2. ASSUME NEW i \in Instance, NEW j \in Instance, Busy(i)', Busy(j)',
               Reserved(i)'.request = Reserved(j)'.request
        PROVE  i = j
    <3>1. Busy(i) /\ Busy(j) /\ Reserved(i)' = Reserved(i) /\ Reserved(j)' = Reserved(j)
      BY <1>1, <2>2
    <3> QED
      BY <2>2, <3>1 DEF SubmissionInv, CallsNumbered
  <2> QED
    BY <1>3, <2>1, <2>2 DEF CallsNumbered
<1>6. OneClaim'
  <2>1. submitted' \in {0, 1}
    BY DEF SubmissionInv, OneClaim
  <2>2. ASSUME NEW i \in Instance, Submitting(i)'
        PROVE  submitted' = 0 /\ (run'.pending = Reserved(i)' \/ run'.state = "INCIDENT")
    <3>1. Submitting(i) /\ Reserved(i)' = Reserved(i)
      BY <1>2, <2>2
    <3>2. submitted = 0 /\ (run.pending = Reserved(i) \/ run.state = "INCIDENT")
      BY <3>1 DEF SubmissionInv, OneClaim
    <3>3. run.pending = Reserved(i) => WritePending(run)
      BY <3>1, SubmittingTyped
    <3>4. Open(run) => run.state # "INCIDENT"
      BY DEF Open, TerminalStates
    <3> QED
      BY <3>1, <3>2, <3>3, <3>4 DEF Settles
  <2>3. ASSUME NEW i \in Instance, NEW j \in Instance, Submitting(i)', Submitting(j)'
        PROVE  i = j
    BY <1>2, <2>3 DEF SubmissionInv, OneClaim
  <2> QED
    BY <2>1, <2>2, <2>3 DEF OneClaim
<1>7. OrdersAccounted'
  <2>1. ASSUME submitted' = 1 PROVE WritePending(run') \/ run'.state \in SentStates
    <3>1. WritePending(run) \/ run.state \in SentStates
      BY <2>1 DEF SubmissionInv, OrdersAccounted
    <3>2. "INCIDENT" \in SentStates
      BY DEF SentStates
    <3>3. WritePending(run) /\ run'.pending = run.pending => WritePending(run')
      BY DEF WritePending
    <3> QED
      BY <3>1, <3>2, <3>3 DEF Settles
  <2>2. run'.state \in ConfirmedStates => submitted' = 1
    BY DEF SubmissionInv, OrdersAccounted, Settles
  <2> QED
    BY <1>3, <2>1, <2>2 DEF OrdersAccounted
<1>8. AnswersTrue'
  <2> SUFFICES ASSUME NEW i \in Instance, InPhase(i, "answered")',
                      Reserved(i)'.tool \in ExecutionTools
               PROVE  /\ call'[i].answer.kind = "ok" => submitted' = 1
                      /\ run'.pending = Reserved(i)' /\ call'[i].answer.kind \in {"denied", "arguments"}
                           => submitted' = 0
    BY DEF AnswersTrue
  <2>1. Busy(i)'
    BY DEF InPhase, Busy
  <2>2. Busy(i) /\ call'[i] = call[i] /\ Reserved(i)' = Reserved(i)
    BY <1>1, <2>1
  <2>3. InPhase(i, "answered") /\ Reserved(i).tool \in ExecutionTools
    BY <2>2 DEF InPhase
  <2>4. Reserved(i) # None
    BY <2>2, BusyTyped
  <2>5. run'.pending = Reserved(i)' => run.pending = Reserved(i)
    BY <2>2, <2>4 DEF Settles
  <2> QED
    BY <2>2, <2>3, <2>5 DEF SubmissionInv, AnswersTrue
<1> QED
  BY <1>5, <1>6, <1>7, <1>8 DEF SubmissionInv

(* Starting a run.                                                         *)
LEMMA StartKeeps ==
  ASSUME TypeInv, SubmissionInv, NEW i \in Instance, NEW goal \in Goal, StartRun(i, goal)
  PROVE  SubmissionInv'
<1>1. /\ run \in {NoRun, Started(goal)} /\ run' = Started(goal)
      /\ call' = call /\ submitted' = submitted
  BY DEF StartRun
<1>2. run' \in SoundRuns
  BY StartType
<1>3. CASE run # NoRun
  BY <1>1, <1>2, <1>3, SettledKeeps
<1>4. CASE run = NoRun
  <2>1. \A j \in Instance : ~Busy(j) /\ ~Busy(j)'
    BY <1>1, <1>4 DEF SubmissionInv, CallsNumbered, Busy
  <2>2. submitted = 0
    BY <1>4 DEF SubmissionInv, OneClaim, OrdersAccounted
  <2>3. run'.state = "SNAPSHOT_READY"
    BY <1>1, StartedFields
  <2>4. \A j \in Instance : ~InPhase(j, "answered")' /\ ~Submitting(j)'
    BY <2>1 DEF InPhase, Submitting, Busy
  <2> QED
    BY <1>1, <2>1, <2>2, <2>3, <2>4 DEF SubmissionInv, CallsNumbered, OneClaim,
       OrdersAccounted, AnswersTrue, ConfirmedStates
<1> QED
  BY <1>3, <1>4

(* A reservation; a submission is reserved only when nothing was sent and  *)
(* nothing is on its way.                                                  *)
LEMMA ReserveKeeps ==
  ASSUME TypeInv, SubmissionInv, NEW i \in Instance, NEW c \in CallsOf(run), Reserve(i, c)
  PROVE  SubmissionInv' /\ (c.tool \in ExecutionTools => submitted = 0)
         /\ \A j \in Instance : ~Submitting(j)
<1> DEFINE e == ToolEvent(run, "TOOL_CALL_RESERVED", c, run.state)
<1>1. /\ run # NoRun /\ Open(run) /\ ~Busy(i)
      /\ call' = [call EXCEPT ![i] = [phase |-> "dispatched", reserved |-> run']]
      /\ submitted' = submitted
  BY DEF Reserve, Passes, Busy
<1>2. /\ run \in SoundRuns /\ c \in Call /\ ReplayStep(Resume(run), e).ok
      /\ run' \in Reservations
      /\ run'.state = run.state /\ run'.pending = c /\ run'.calls = run.calls + 1
  BY ReserveRun
<1>3. c.request = run.calls + 1 /\ run.calls \in Nat
  BY <1>1, CallTyped, RunTyped
<1>4. run.pending = None
  <2>1. MayReserve(run, e)
    BY <1>2, StepOk DEF Resume
  <2>2. e.kind = "TOOL_CALL_RESERVED"
    BY DEF ToolEvent, Move, Event
  <2> QED
    BY <2>1, <2>2 DEF MayReserve
<1> HIDE DEF e
<1>5. run.state # "INCIDENT" /\ run.state # "COMPLETED" /\ run.state \notin TerminalStates
  BY <1>1 DEF Open, TerminalStates
<1>6. ASSUME NEW j \in Instance, Submitting(j) PROVE FALSE
  <2>1. run.pending = Reserved(j) /\ Reserved(j) # None
    BY <1>5, <1>6, SubmittingTyped DEF SubmissionInv, OneClaim
  <2> QED
    BY <1>4, <2>1
<1>7. c.tool \in ExecutionTools => run.state = "EXECUTING"
  <2>1. run.state \in RunStates /\ Offered(run, c)
    BY <1>2 DEF Reserve, SoundRuns, Run
  <2>2. c.tool \in StageTools(run.state, run.goal)
    BY <2>1 DEF Offered, StageValid
  <2> QED
    BY <2>1, <2>2, StageOfTool
<1>8. c.tool \in ExecutionTools => submitted = 0
  <2>1. ~WritePending(run)
    BY <1>4 DEF WritePending
  <2> QED
    BY <1>7, <2>1 DEF SubmissionInv, OneClaim, OrdersAccounted, SentStates
<1>9. \A j \in Instance : j # i => call'[j] = call[j] /\ Reserved(j)' = Reserved(j)
  BY <1>1 DEF TypeInv, Reserved
<1>10. call'[i] = [phase |-> "dispatched", reserved |-> run'] /\ Reserved(i)' = c
  BY <1>1, <1>2 DEF TypeInv, Reserved
<1>11. run' # NoRun
  BY <1>2, RuntimeAssumption DEF RuntimeAssumption, Reservations, SoundRuns
<1>12. ASSUME NEW j \in Instance, j # i, Busy(j)'
       PROVE  /\ Busy(j) /\ Reserved(j).request <= run.calls /\ Reserved(j).request \in Nat
              /\ Reserved(j)' = Reserved(j)
  <2>1. Busy(j)
    BY <1>9, <1>12 DEF Busy
  <2> QED
    BY <1>9, <1>12, <2>1, BusyTyped DEF SubmissionInv, CallsNumbered
<1>13. CallsNumbered'
  <2>1. ASSUME NEW j \in Instance, Busy(j)' PROVE Reserved(j)'.request <= run'.calls
    <3>1. CASE j = i
      BY <1>2, <1>3, <1>10, <3>1
    <3>2. CASE j # i
      BY <1>2, <1>3, <1>12, <2>1, <3>2
    <3> QED
      BY <3>1, <3>2
  <2>2. ASSUME NEW j \in Instance, NEW k \in Instance, Busy(j)', Busy(k)',
               Reserved(j)'.request = Reserved(k)'.request
        PROVE  j = k
    <3>1. CASE j = i /\ k # i
      <4>1. Reserved(k)'.request <= run.calls /\ Reserved(j)'.request = run.calls + 1
        BY <1>3, <1>10, <1>12, <2>2, <3>1
      <4>2. Reserved(k)'.request \in Nat
        BY <1>12, <2>2, <3>1
      <4> QED
        BY <1>3, <2>2, <4>1, <4>2
    <3>2. CASE j # i /\ k = i
      <4>1. Reserved(j)'.request <= run.calls /\ Reserved(k)'.request = run.calls + 1
        BY <1>3, <1>10, <1>12, <2>2, <3>2
      <4>2. Reserved(j)'.request \in Nat
        BY <1>12, <2>2, <3>2
      <4> QED
        BY <1>3, <2>2, <4>1, <4>2
    <3>3. CASE j # i /\ k # i
      <4>1. Busy(j) /\ Busy(k) /\ Reserved(j)' = Reserved(j) /\ Reserved(k)' = Reserved(k)
        BY <1>12, <2>2, <3>3
      <4> QED
        BY <2>2, <4>1 DEF SubmissionInv, CallsNumbered
    <3> QED
      BY <3>1, <3>2, <3>3
  <2> QED
    BY <1>11, <2>1, <2>2 DEF CallsNumbered
<1>14. ASSUME NEW j \in Instance, Submitting(j)' PROVE j = i /\ c.tool \in ExecutionTools
  <2>1. CASE j # i
    <3>1. Submitting(j)
      BY <1>9, <1>14, <2>1 DEF Submitting, InPhase, Reserved
    <3> QED
      BY <1>6, <3>1
  <2>2. CASE j = i
    BY <1>10, <1>14, <2>2 DEF Submitting
  <2> QED
    BY <2>1, <2>2
<1>15. OneClaim'
  <2>1. submitted' \in {0, 1}
    BY <1>1 DEF SubmissionInv, OneClaim
  <2>2. ASSUME NEW j \in Instance, Submitting(j)'
        PROVE  submitted' = 0 /\ run'.pending = Reserved(j)'
    BY <1>1, <1>2, <1>8, <1>10, <1>14, <2>2
  <2>3. \A j, k \in Instance : Submitting(j)' /\ Submitting(k)' => j = k
    BY <1>14
  <2> QED
    BY <2>1, <2>2, <2>3 DEF OneClaim
<1>16. OrdersAccounted'
  <2>1. ASSUME submitted' = 1 PROVE run'.state \in SentStates
    <3>1. ~WritePending(run)
      BY <1>4 DEF WritePending
    <3> QED
      BY <1>1, <1>2, <2>1, <3>1 DEF SubmissionInv, OrdersAccounted
  <2>2. run'.state \in ConfirmedStates => submitted' = 1
    BY <1>1, <1>2 DEF SubmissionInv, OrdersAccounted
  <2> QED
    BY <1>11, <2>1, <2>2 DEF OrdersAccounted
<1>17. AnswersTrue'
  <2> SUFFICES ASSUME NEW j \in Instance, InPhase(j, "answered")',
                      Reserved(j)'.tool \in ExecutionTools
               PROVE  /\ call'[j].answer.kind = "ok" => submitted' = 1
                      /\ run'.pending = Reserved(j)' /\ call'[j].answer.kind \in {"denied", "arguments"}
                           => submitted' = 0
    BY DEF AnswersTrue
  <2>1. j # i
    BY <1>10 DEF InPhase
  <2>2. Busy(j)'
    BY DEF InPhase, Busy
  <2>3. /\ Busy(j) /\ Reserved(j).request <= run.calls /\ Reserved(j).request \in Nat
        /\ Reserved(j)' = Reserved(j) /\ call'[j] = call[j]
    BY <1>9, <1>12, <2>1, <2>2
  <2>4. Reserved(j).request # c.request
    BY <1>3, <2>3
  <2>5. run'.pending # Reserved(j)'
    BY <1>2, <2>3, <2>4
  <2>6. InPhase(j, "answered") /\ Reserved(j).tool \in ExecutionTools
    BY <2>3 DEF InPhase
  <2> QED
    BY <1>1, <2>3, <2>5, <2>6 DEF SubmissionInv, AnswersTrue
<1>18. SubmissionInv'
  BY <1>13, <1>15, <1>16, <1>17 DEF SubmissionInv
<1> QED
  BY <1>6, <1>8, <1>18

(* The registry and the handler; only a claimed submission is sent, once.  *)
LEMMA DispatchKeeps ==
  ASSUME TypeInv, SubmissionInv, NEW i \in Instance, Dispatch(i)
  PROVE  /\ SubmissionInv'
         /\ ~Submitting(i)' /\ \A j \in Instance : j # i => (Submitting(j)' <=> Submitting(j))
         /\ submitted' # submitted => submitted' = 1 /\ submitted = 0 /\ Submitting(i)
<1>1. InPhase(i, "dispatched") /\ run' = run
  BY DEF Dispatch
<1>2. PICK end \in Invocation(ModeOf[run.goal], Reserved(i).tool) :
      \E answer \in Answers(Reserved(i), end) :
        /\ call' = [call EXCEPT ![i] =
             [phase |-> "answered", reserved |-> call[i].reserved, answer |-> answer]]
        /\ submitted' = IF end.ran /\ Reserved(i).tool \in ExecutionTools
                        THEN submitted + 1 ELSE submitted
  BY DEF Dispatch
<1>3. PICK answer \in Answers(Reserved(i), end) :
        /\ call' = [call EXCEPT ![i] =
             [phase |-> "answered", reserved |-> call[i].reserved, answer |-> answer]]
        /\ submitted' = IF end.ran /\ Reserved(i).tool \in ExecutionTools
                        THEN submitted + 1 ELSE submitted
  BY <1>2
<1>4. /\ answer.kind = "ok" => end.ran
      /\ answer.kind \in {"denied", "arguments"} => ~end.ran
  BY AnswersTyped, Endings DEF TypeInv
<1>5. call'[i] = [phase |-> "answered", reserved |-> call[i].reserved, answer |-> answer]
  BY <1>3 DEF TypeInv
<1>6. \A j \in Instance : j # i => call'[j] = call[j]
  BY <1>3 DEF TypeInv
<1>7. Busy(i) /\ Reserved(i) # None
  BY <1>1, BusyTyped DEF InPhase, Busy
<1>8. run # NoRun
  BY <1>7 DEF SubmissionInv, CallsNumbered
<1>9. \A j \in Instance : Reserved(j)' = Reserved(j) /\ (Busy(j)' => Busy(j))
  BY <1>5, <1>6, <1>7 DEF Reserved, Busy
<1>10. ~Submitting(i)'
  BY <1>5 DEF Submitting, InPhase
<1>11. \A j \in Instance : j # i => (Submitting(j)' <=> Submitting(j))
  BY <1>6 DEF Submitting, InPhase, Reserved
<1>12. CallsNumbered'
  BY <1>1, <1>9 DEF SubmissionInv, CallsNumbered
<1>13. Reserved(i).tool \in ExecutionTools => Submitting(i)
  BY <1>1 DEF Submitting
<1>14. Submitting(i) =>
         /\ submitted = 0
         /\ \/ run.pending = Reserved(i) /\ WritePending(run)
            \/ run.state = "INCIDENT"
  BY SubmittingTyped DEF SubmissionInv, OneClaim
<1>15. submitted' # submitted => submitted' = 1 /\ submitted = 0 /\ Submitting(i) /\ end.ran
  BY <1>3, <1>13, <1>14
<1>16. OneClaim'
  <2>1. submitted' \in {0, 1}
    BY <1>15 DEF SubmissionInv, OneClaim
  <2>2. ASSUME NEW j \in Instance, Submitting(j)'
        PROVE  submitted' = 0 /\ (run'.pending = Reserved(j)' \/ run'.state = "INCIDENT")
    <3>1. j # i /\ Submitting(j)
      BY <1>10, <1>11, <2>2
    <3>2. ~Submitting(i)
      BY <3>1 DEF SubmissionInv, OneClaim
    <3>3. submitted' = submitted
      BY <1>15, <3>2
    <3> QED
      BY <1>1, <1>9, <3>1, <3>3 DEF SubmissionInv, OneClaim
  <2>3. ASSUME NEW j \in Instance, NEW k \in Instance, Submitting(j)', Submitting(k)' PROVE j = k
    BY <1>10, <1>11, <2>3 DEF SubmissionInv, OneClaim
  <2> QED
    BY <2>1, <2>2, <2>3 DEF OneClaim
<1>17. OrdersAccounted'
  <2>1. ASSUME submitted' = 1 PROVE WritePending(run') \/ run'.state \in SentStates
    <3>1. CASE submitted = 1
      BY <1>1, <3>1 DEF SubmissionInv, OrdersAccounted
    <3>2. CASE submitted # 1
      BY <1>1, <1>14, <1>15, <2>1, <3>2 DEF SentStates
    <3> QED
      BY <3>1, <3>2
  <2>2. run'.state \in ConfirmedStates => submitted' = 1
    BY <1>1, <1>8, <1>15 DEF SubmissionInv, OrdersAccounted
  <2> QED
    BY <1>1, <1>8, <2>1, <2>2 DEF OrdersAccounted
<1>18. AnswersTrue'
  <2> SUFFICES ASSUME NEW j \in Instance, InPhase(j, "answered")',
                      Reserved(j)'.tool \in ExecutionTools
               PROVE  /\ call'[j].answer.kind = "ok" => submitted' = 1
                      /\ run'.pending = Reserved(j)' /\ call'[j].answer.kind \in {"denied", "arguments"}
                           => submitted' = 0
    BY DEF AnswersTrue
  <2>1. CASE j = i
    <3>1. Submitting(i)
      BY <1>9, <1>13, <2>1
    <3>2. submitted = 0 /\ Reserved(i).tool \in ExecutionTools
      BY <1>14, <3>1 DEF Submitting
    <3>3. call'[j].answer = answer
      BY <1>5, <2>1
    <3> QED
      BY <1>3, <1>4, <3>2, <3>3
  <2>2. CASE j # i
    <3>1. call'[j] = call[j] /\ InPhase(j, "answered") /\ Reserved(j).tool \in ExecutionTools
      BY <1>6, <1>9, <2>2 DEF InPhase
    <3>2. call[j].answer.kind = "ok" => submitted' = 1
      BY <1>15, <3>1 DEF SubmissionInv, AnswersTrue
    <3>3. ASSUME run.pending = Reserved(j), submitted' # submitted PROVE FALSE
      <4>1. Submitting(i) /\ Busy(j) /\ Reserved(j) # None
        BY <1>15, <3>1, <3>3, BusyTyped DEF InPhase, Busy
      <4>2. run.state # "INCIDENT"
        BY <1>8, <3>3, <4>1, RunTyped DEF Open, TerminalStates
      <4>3. Reserved(i) = Reserved(j)
        BY <1>14, <3>3, <4>1, <4>2
      <4> QED
        BY <1>7, <2>2, <4>1, <4>3 DEF SubmissionInv, CallsNumbered
    <3>4. run.pending = Reserved(j) /\ call[j].answer.kind \in {"denied", "arguments"}
            => submitted' = 0
      BY <3>1, <3>3 DEF SubmissionInv, AnswersTrue
    <3> QED
      BY <1>1, <1>9, <3>1, <3>2, <3>4
  <2> QED
    BY <2>1, <2>2
<1>19. SubmissionInv'
  BY <1>12, <1>16, <1>17, <1>18 DEF SubmissionInv
<1> QED
  BY <1>10, <1>11, <1>15, <1>19

(* Recording the outcome of a submission.                                  *)
LEMMA SubmissionKeeps ==
  ASSUME TypeInv, SubmissionInv, NEW i \in Instance, Record(i), Stored(i),
         Reserved(i).tool \in ExecutionTools
  PROVE  SubmissionInv'
<1>1. /\ InPhase(i, "answered") /\ run \in Run /\ run.pending = Reserved(i)
      /\ run'.calls = run.calls /\ run'.pending \in {run.pending, None}
  BY RecordedRun
<1>2. /\ run.state = "EXECUTING"
      /\ call[i].answer.kind \notin {"ok", "denied", "arguments"} => run'.state = "INCIDENT"
      /\ call[i].answer.kind = "ok" => run'.state \in SentStates
      /\ call[i].answer.kind \in {"denied", "arguments"} => run'.state \notin ConfirmedStates
  BY SubmissionRecorded
<1>3. /\ call' = [call EXCEPT ![i] = Idle] /\ submitted' = submitted
  BY DEF Record
<1>4. run # NoRun /\ run' # NoRun
  BY <1>1, RecordRun, RuntimeAssumption DEF RuntimeAssumption, SoundRuns
<1>5. /\ call'[i] = Idle
      /\ \A j \in Instance : j # i => call'[j] = call[j] /\ Reserved(j)' = Reserved(j)
  BY <1>3 DEF TypeInv, Reserved
<1>6. Busy(i) /\ Reserved(i) # None
  BY <1>1, BusyTyped DEF InPhase, Busy
<1>7. ASSUME NEW j \in Instance, j # i, Busy(j) PROVE run.pending # Reserved(j)
  BY <1>1, <1>6, <1>7 DEF SubmissionInv, CallsNumbered
<1>8. ASSUME NEW j \in Instance, Submitting(j)' PROVE FALSE
  <2>1. j # i /\ Submitting(j) /\ Busy(j)
    BY <1>5, <1>8 DEF Submitting, InPhase, Reserved, Busy
  <2> QED
    BY <1>2, <1>7, <2>1 DEF SubmissionInv, OneClaim
<1>9. CallsNumbered'
  <2>1. \A j \in Instance : Busy(j)' => j # i /\ Busy(j) /\ Reserved(j)' = Reserved(j)
    BY <1>5 DEF Busy
  <2> QED
    BY <1>1, <1>4, <2>1 DEF SubmissionInv, CallsNumbered
<1>10. OneClaim'
  BY <1>3, <1>8 DEF SubmissionInv, OneClaim
<1>11. submitted \in {0, 1} /\ (call[i].answer.kind = "ok" => submitted = 1)
       /\ (call[i].answer.kind \in {"denied", "arguments"} => submitted = 0)
  BY <1>1 DEF SubmissionInv, OneClaim, AnswersTrue
<1>12. OrdersAccounted'
  <2>1. "INCIDENT" \in SentStates /\ "INCIDENT" \notin ConfirmedStates
    BY DEF SentStates, ConfirmedStates
  <2>2. submitted = 1 => run'.state \in SentStates
    BY <1>2, <1>11, <2>1
  <2>3. run'.state \in ConfirmedStates => submitted = 1
    BY <1>2, <1>11, <2>1
  <2> QED
    BY <1>3, <1>4, <2>2, <2>3 DEF OrdersAccounted
<1>13. AnswersTrue'
  <2> SUFFICES ASSUME NEW j \in Instance, InPhase(j, "answered")',
                      Reserved(j)'.tool \in ExecutionTools
               PROVE  /\ call'[j].answer.kind = "ok" => submitted' = 1
                      /\ run'.pending = Reserved(j)' /\ call'[j].answer.kind \in {"denied", "arguments"}
                           => submitted' = 0
    BY DEF AnswersTrue
  <2>1. j # i
    BY <1>5 DEF InPhase
  <2>2. /\ call'[j] = call[j] /\ Reserved(j)' = Reserved(j) /\ Busy(j)
        /\ InPhase(j, "answered") /\ Reserved(j).tool \in ExecutionTools
    BY <1>5, <2>1 DEF InPhase, Busy
  <2>3. Reserved(j) # None
    BY <2>2, BusyTyped
  <2>4. run'.pending # Reserved(j)
    BY <1>1, <1>7, <2>1, <2>2, <2>3
  <2> QED
    BY <1>3, <2>2, <2>4 DEF SubmissionInv, AnswersTrue
<1> QED
  BY <1>9, <1>10, <1>12, <1>13 DEF SubmissionInv

(* Recording any outcome.                                                  *)
LEMMA RecordKeeps ==
  ASSUME TypeInv, SubmissionInv, NEW i \in Instance, Record(i)
  PROVE  SubmissionInv'
<1>1. /\ InPhase(i, "answered") /\ call' = [call EXCEPT ![i] = Idle] /\ submitted' = submitted
  BY DEF Record
<1>2. \A j \in Instance : call'[j] = call[j] \/ call'[j] = Idle
  BY <1>1 DEF TypeInv
<1>3. run # NoRun
  BY <1>1 DEF SubmissionInv, CallsNumbered, InPhase, Busy
<1>4. run \in SoundRuns /\ run' \in SoundRuns
  BY <1>3, RecordRun, RunTyped
<1>5. CASE ~Stored(i)
  BY <1>1, <1>2, <1>3, <1>4, <1>5, RecordRun, SettledKeeps
<1>6. CASE Stored(i) /\ Reserved(i).tool \in ExecutionTools
  BY <1>6, SubmissionKeeps
<1>7. CASE Stored(i) /\ Reserved(i).tool \notin ExecutionTools
  <2>1. Settles(run, run')
    BY <1>7, RecordSettles
  <2> QED
    BY <1>1, <1>2, <1>3, <1>4, <2>1, SettledKeeps
<1> QED
  BY <1>5, <1>6, <1>7

(* The calls that are one save.                                            *)
Saves(i) ==
  \/ TimeGate(i) \/ RequestCancel(i) \/ RejectApproval(i)
  \/ \E approval \in Approval : RecordApproval(i, approval)
  \/ StopOnBudget(i) \/ DenyAfterCancel(i)
  \/ \E c \in CallsOf(run) : Deny(i, c)

(* Each settles the run.                                                   *)
LEMMA SavesSettle ==
  ASSUME TypeInv, NEW i \in Instance, Saves(i)
  PROVE  Settles(run, run') /\ Unchanged /\ run # NoRun /\ run' \in SoundRuns
<1>1. CASE TimeGate(i)
  BY <1>1, GateSettles, GateType DEF TimeGate
<1>2. CASE RequestCancel(i)
  BY <1>2, CancelSettles, CancelType DEF RequestCancel, Passes
<1>3. CASE RejectApproval(i)
  BY <1>3, RejectSettles, RejectType DEF RejectApproval, Passes
<1>4. ASSUME NEW approval \in Approval, RecordApproval(i, approval)
      PROVE  Settles(run, run') /\ Unchanged /\ run # NoRun /\ run' \in SoundRuns
  BY <1>4, ApprovalSettles, ApproveType DEF RecordApproval, Passes
<1>5. CASE StopOnBudget(i)
  BY <1>5, StopSettles, StopType DEF StopOnBudget, Passes
<1>6. CASE DenyAfterCancel(i)
  BY <1>6, DenyAfterCancelSettles, DenyAfterCancelType DEF DenyAfterCancel, Passes
<1>7. ASSUME NEW c \in CallsOf(run), Deny(i, c)
      PROVE  Settles(run, run') /\ Unchanged /\ run # NoRun /\ run' \in SoundRuns
  BY <1>7, DenySettles, DenyType DEF Deny, Passes
<1> QED
  BY <1>1, <1>2, <1>3, <1>4, <1>5, <1>6, <1>7 DEF Saves

(* What the steps of the runtime are.                                      *)
LEMMA Steps ==
  ASSUME [Next]_vars
  PROVE  \/ \E i \in Instance : Saves(i) \/ Dispatch(i) \/ Record(i)
         \/ \E i \in Instance : \E goal \in Goal : StartRun(i, goal)
         \/ \E i \in Instance : \E c \in CallsOf(run) : Reserve(i, c)
         \/ UNCHANGED <<run, call, submitted>>
BY DEF Next, vars, Invoke, Saves, Tick

(* Every step keeps the invariant.                                         *)
LEMMA SubmissionStays ==
  ASSUME TypeInv, SubmissionInv, [Next]_vars
  PROVE  SubmissionInv'
<1>1. ASSUME NEW i \in Instance, Saves(i) PROVE SubmissionInv'
  <2>1. Settles(run, run') /\ run # NoRun /\ run' \in SoundRuns
        /\ call' = call /\ submitted' = submitted
    BY <1>1, SavesSettle DEF Unchanged
  <2> QED
    BY <2>1, SettledKeeps
<1>2. CASE UNCHANGED <<run, call, submitted>>
  <2>1. CASE run # NoRun
    <3>1. run' \in SoundRuns
      BY <1>2, <2>1, RunTyped
    <3> QED
      BY <1>2, <2>1, <3>1, SettledKeeps
  <2>2. CASE run = NoRun
    BY <1>2 DEF SubmissionInv, CallsNumbered, OneClaim, OrdersAccounted, AnswersTrue,
       Busy, Reserved, Submitting, InPhase, WritePending
  <2> QED
    BY <2>1, <2>2
<1> QED
  BY <1>1, <1>2, Steps, StartKeeps, ReserveKeeps, DispatchKeeps, RecordKeeps

(* Orders are submitted at most once, and the run accounts for them whoever*)
(* called it in whatever order.                                            *)
THEOREM SubmissionsCounted == Spec => []SubmissionInv
<1>1. Init => SubmissionInv
  BY DEF Init, SubmissionInv, CallsNumbered, OneClaim, OrdersAccounted, AnswersTrue,
     Busy, Submitting, InPhase
<1>2. TypeInv /\ SubmissionInv /\ [Next]_vars => SubmissionInv'
  BY SubmissionStays
<1> QED
  BY <1>1, <1>2, RunsStaySound, PTL DEF Spec

-----------------------------------------------------------------------------
(* The run keeps the promise AgentRunPromise states.                       *)

(* A submission is on its way.                                             *)
Claimed == \E i \in Instance : Submitting(i)

(* What the run says of its orders.                                        *)
Said ==
  IF run = NoRun \/ Open(run) THEN "open"
  ELSE CASE run.state = "COMPLETED" -> "confirmed"
         [] run.state = "INCIDENT"  -> "incident"
         [] OTHER                   -> "nothing sent"

(* The verdict never denies orders that were sent or may still be.         *)
VerdictTrue ==
  /\ Said = "nothing sent" => ~Claimed /\ submitted = 0
  /\ Said = "confirmed" => submitted = 1

(* It follows from the invariant.                                          *)
LEMMA VerdictIsTrue ==
  ASSUME TypeInv, SubmissionInv
  PROVE  VerdictTrue
<1>1. ASSUME Said = "nothing sent" PROVE ~Claimed /\ submitted = 0
  <2>1. run # NoRun /\ ~Open(run) /\ run.state \notin SentStates
    BY <1>1 DEF Said, Open, SentStates, TerminalStates
  <2>2. ~WritePending(run)
    BY <2>1, RunTyped DEF WritePending
  <2>3. submitted = 0
    BY <2>1, <2>2 DEF SubmissionInv, OneClaim, OrdersAccounted
  <2>4. ASSUME NEW i \in Instance, Submitting(i) PROVE FALSE
    BY <2>1, <2>2, <2>4, SubmittingTyped DEF SubmissionInv, OneClaim, SentStates
  <2> QED
    BY <2>3, <2>4 DEF Claimed
<1>2. ASSUME Said = "confirmed" PROVE submitted = 1
  <2>1. run # NoRun /\ run.state = "COMPLETED"
    BY <1>2 DEF Said
  <2> QED
    BY <2>1 DEF SubmissionInv, OrdersAccounted, ConfirmedStates
<1> QED
  BY <1>1, <1>2 DEF VerdictTrue

(* A verdict is given once.                                                *)
LEMMA VerdictSteps ==
  ASSUME TypeInv, [Next]_vars
  PROVE  Said' = Said \/ (Said = "open" /\ Said' \in {"nothing sent", "confirmed", "incident"})
<1>1. CASE run # NoRun /\ ~Open(run)
  <2>1. run' = run
    BY <1>1, EndedStays
  <2> QED
    BY <2>1 DEF Said
<1>2. CASE run = NoRun \/ Open(run)
  <2>1. Said = "open"
    BY <1>2 DEF Said
  <2>2. Said' \in {"open", "nothing sent", "confirmed", "incident"}
    BY DEF Said
  <2> QED
    BY <2>1, <2>2
<1> QED
  BY <1>1, <1>2

(* Saves, outcomes and the start of a run claim nothing.                   *)
LEMMA ClaimsKept ==
  ASSUME TypeInv, NEW i \in Instance,
         Saves(i) \/ Record(i) \/ (\E goal \in Goal : StartRun(i, goal))
  PROVE  (Claimed' <=> Claimed) /\ submitted' = submitted
<1>1. CASE Record(i)
  <2>1. /\ InPhase(i, "answered") /\ call' = [call EXCEPT ![i] = Idle] /\ submitted' = submitted
    BY <1>1 DEF Record
  <2>2. ~Submitting(i) /\ ~Submitting(i)'
    BY <2>1 DEF Submitting, InPhase, TypeInv
  <2>3. \A j \in Instance : j # i => (Submitting(j)' <=> Submitting(j))
    BY <2>1 DEF Submitting, InPhase, Reserved, TypeInv
  <2> QED
    BY <2>1, <2>2, <2>3 DEF Claimed
<1>2. CASE ~Record(i)
  <2>1. call' = call /\ submitted' = submitted
    BY <1>2, SavesSettle DEF Unchanged, StartRun
  <2> QED
    BY <2>1 DEF Claimed, Submitting, InPhase, Reserved
<1> QED
  BY <1>1, <1>2

(* Every step is one the promise allows, or none.                          *)
LEMMA StepKeepsPromise ==
  ASSUME TypeInv, SubmissionInv, VerdictTrue', [Next]_vars
  PROVE  \/ (Claimed' <=> Claimed) /\ submitted' = submitted /\ Said' = Said
         \/ /\ Said = "open" /\ ~Claimed /\ submitted = 0 /\ Claimed'
            /\ submitted' = submitted /\ Said' = Said
         \/ Claimed /\ ~Claimed' /\ submitted' = submitted /\ Said' = Said
         \/ Claimed /\ submitted = 0 /\ submitted' = 1 /\ ~Claimed' /\ Said' = Said
         \/ \E v \in {"nothing sent", "confirmed", "incident"} :
              /\ Said = "open"
              /\ v = "nothing sent" => ~Claimed /\ submitted = 0
              /\ v = "confirmed" => submitted = 1
              /\ Said' = v
              /\ (Claimed' <=> Claimed) /\ submitted' = submitted
<1>1. CASE (Claimed' <=> Claimed) /\ submitted' = submitted
  BY <1>1, VerdictSteps DEF VerdictTrue
<1>2. ASSUME NEW i \in Instance, Dispatch(i)
      PROVE  \/ (Claimed' <=> Claimed) /\ submitted' = submitted
             \/ Claimed /\ ~Claimed' /\ submitted' = submitted
             \/ Claimed /\ submitted = 0 /\ submitted' = 1 /\ ~Claimed'
  <2>1. /\ ~Submitting(i)' /\ \A j \in Instance : j # i => (Submitting(j)' <=> Submitting(j))
        /\ submitted' # submitted => submitted' = 1 /\ submitted = 0 /\ Submitting(i)
    BY <1>2, DispatchKeeps
  <2>2. CASE Submitting(i)
    <3>1. \A j \in Instance : Submitting(j) => j = i
      BY <2>2 DEF SubmissionInv, OneClaim
    <3>2. Claimed /\ ~Claimed'
      BY <2>1, <2>2, <3>1 DEF Claimed
    <3> QED
      BY <2>1, <3>2
  <2>3. CASE ~Submitting(i)
    BY <2>1, <2>3 DEF Claimed
  <2> QED
    BY <2>2, <2>3
<1>3. ASSUME NEW i \in Instance, Dispatch(i) PROVE Said' = Said
  BY <1>3 DEF Dispatch, Said
<1>4. ASSUME NEW i \in Instance, NEW c \in CallsOf(run), Reserve(i, c)
      PROVE  \/ (Claimed' <=> Claimed) /\ submitted' = submitted
             \/ /\ Said = "open" /\ ~Claimed /\ submitted = 0 /\ Claimed'
                /\ submitted' = submitted /\ Said' = Said
  <2>1. /\ c.tool \in ExecutionTools => submitted = 0
        /\ \A j \in Instance : ~Submitting(j)
    BY <1>4, ReserveKeeps
  <2>2. submitted' = submitted /\ Open(run) /\ run # NoRun
        /\ call' = [call EXCEPT ![i] = [phase |-> "dispatched", reserved |-> run']]
    BY <1>4 DEF Reserve, Passes
  <2>3. run'.state = run.state /\ run'.pending = c /\ run' # NoRun
    BY <1>4, ReserveRun, RuntimeAssumption DEF RuntimeAssumption, Reservations, SoundRuns
  <2>4. Said = "open" /\ Said' = "open"
    BY <2>2, <2>3 DEF Said, Open
  <2>5. Submitting(i)' => c.tool \in ExecutionTools
    BY <2>2, <2>3 DEF Submitting, Reserved, TypeInv
  <2>6. \A j \in Instance : j # i => (Submitting(j)' <=> Submitting(j))
    BY <2>2 DEF Submitting, InPhase, Reserved, TypeInv
  <2>7. Claimed' => c.tool \in ExecutionTools
    BY <2>1, <2>5, <2>6 DEF Claimed
  <2> QED
    BY <2>1, <2>2, <2>4, <2>7 DEF Claimed
<1>5. ASSUME UNCHANGED <<run, call, submitted>>
      PROVE  (Claimed' <=> Claimed) /\ submitted' = submitted
  BY <1>5 DEF Claimed, Submitting, InPhase, Reserved
<1> QED
  BY <1>1, <1>2, <1>3, <1>4, <1>5, Steps, ClaimsKept

(* The runtime implements the promise: orders are sent at most once, only  *)
(* under a claim the run recorded first, and the verdict of a run never    *)
(* denies orders that were sent or may be.                                 *)
THEOREM RunKeepsPromise == Spec => ImplementsPromise
<1>1. Init => Promise!Init
  BY DEF Init, Promise!Init, Submitting, InPhase
<1>2. TypeInv /\ SubmissionInv /\ VerdictTrue' /\ [Next]_vars
        => [Promise!Next]_(Promise!promiseVars)
  BY StepKeepsPromise DEF Promise!Next, Promise!Claim, Promise!Withdraw, Promise!Send,
     Promise!Close, Promise!promiseVars, Claimed, Said
<1>3. TypeInv /\ SubmissionInv => VerdictTrue
  BY VerdictIsTrue
<1> QED
  BY <1>1, <1>2, <1>3, RunsStaySound, SubmissionsCounted, PTL
     DEF Spec, ImplementsPromise, Promise!Spec

-----------------------------------------------------------------------------
(* The service and the replay agree: what a stored run, and a reserved     *)
(* call, must have for the outcome to be accepted.                         *)

(* A run the replay can go on from.  A run is never stored as approved     *)
(* only: the approval goes on to execution in the same save.               *)
Acceptable(r) ==
  /\ WithinLimits(r) /\ MilestoneProven(r)
  /\ "ORDER_DRAFT" \in r.artifacts => r.draftExpiry \in Nat
  /\ r.approvalDeadline # None => r.goal = "LIVE_ASSISTED_EXECUTION"
  /\ r.cancelled => r.state \in AfterExecutionStates \cup TerminalStates
  /\ r.state # "APPROVED"

(* A run whose pending call was reserved as the service reserves calls.    *)
Held(r) ==
  /\ Acceptable(r) /\ StageValid(r, r.pending) /\ Strict(r.pending)
  /\ KeepsIdentity(r, r.pending)
  /\ r.invalid < MaxInvalidCalls
  /\ r.pending.tool \in ExecutionTools => ~r.cancelled

(* The invariant.                                                          *)
OutcomeInv ==
  /\ run # NoRun => Acceptable(run)
  /\ \A i \in Instance : call[i] # Idle => Held(call[i].reserved)

(* What one more event makes of a run, in the other fields.                *)
LEMMA AbsorbCounts ==
  ASSUME NEW r \in Run, NEW e
  PROVE  /\ Absorb(r, e).invalid = r.invalid + (IF e.kind = "TOOL_CALL_REJECTED" THEN 1 ELSE 0)
         /\ e.kind # "TOOL_CALL_RESERVED" => Absorb(r, e).reconciliations = r.reconciliations
         /\ e.kind \notin ToolOutcomes => Absorb(r, e).locked = r.locked
         /\ Absorb(r, e).draftExpiry =
              IF e.artifact = "ORDER_DRAFT" /\ "ORDER_DRAFT" \notin r.artifacts
              THEN e.expires ELSE r.draftExpiry
<1>1. Absorb(r, e).invalid = r.invalid + (IF e.kind = "TOOL_CALL_REJECTED" THEN 1 ELSE 0)
  BY DEF Absorb, Run
<1>2. e.kind # "TOOL_CALL_RESERVED" => Absorb(r, e).reconciliations = r.reconciliations
  BY DEF Absorb, Run
<1>3. e.kind \notin ToolOutcomes => Absorb(r, e).locked = r.locked
  BY DEF Absorb, Run
<1>4. Absorb(r, e).draftExpiry =
              IF e.artifact = "ORDER_DRAFT" /\ "ORDER_DRAFT" \notin r.artifacts
              THEN e.expires ELSE r.draftExpiry
  BY DEF Absorb, Run
<1> QED
  BY <1>1, <1>2, <1>3, <1>4

(* The deadline of an approval.                                            *)
LEMMA AbsorbDeadline ==
  ASSUME NEW r \in Run, NEW e
  PROVE  /\ ~OpensApproval(e) /\ e.kind # "APPROVAL_RECORDED" =>
              Absorb(r, e).approvalDeadline = r.approvalDeadline
         /\ ~OpensApproval(e) /\ r.approvalDeadline = None =>
              Absorb(r, e).approvalDeadline = None
         /\ OpensApproval(e) /\ Absorb(r, e).draftExpiry # None =>
              Absorb(r, e).approvalDeadline =
                Earliest({Absorb(r, e).draftExpiry, Timeout, e.at + ApprovalTimeout})
<1> DEFINE draftExpiry == IF e.artifact = "ORDER_DRAFT" /\ "ORDER_DRAFT" \notin r.artifacts
                          THEN e.expires ELSE r.draftExpiry
<1>1. Absorb(r, e).draftExpiry = draftExpiry
  BY AbsorbCounts
<1>2. Absorb(r, e).approvalDeadline =
        IF OpensApproval(e) /\ draftExpiry # None
          THEN Earliest({draftExpiry, Timeout, e.at + ApprovalTimeout})
        ELSE IF e.kind = "APPROVAL_RECORDED" /\ r.approvalDeadline # None
          THEN Earliest({r.approvalDeadline, e.approval.expires})
        ELSE r.approvalDeadline
  BY DEF Absorb, Run
<1> HIDE DEF draftExpiry
<1> QED
  BY <1>1, <1>2

(* Only live runs wait for an approval.                                    *)
LEMMA ApprovalsAreLive ==
  ASSUME NEW goal \in RunGoals, "PENDING_APPROVAL" \in ToSet(GoalPath[goal])
  PROVE  goal = "LIVE_ASSISTED_EXECUTION"
<1>1. RunGoals = {"MARKET_RESEARCH", "BACKTEST_REPORT", "PORTFOLIO_REPORT", "ORDER_DRAFT",
                  "PAPER_EXECUTION", "LIVE_ASSISTED_EXECUTION"}
  BY DEF RunGoals, ReportGoals, ExecutionGoals
<1>2. GoalPath[goal] \in Seq(RunStates)
  BY PathsLaid DEF Laid
<1>3. PICK k \in 1..Len(GoalPath[goal]) : GoalPath[goal][k] = "PENDING_APPROVAL"
  BY <1>2 DEF ToSet
<1>4. goal # "MARKET_RESEARCH" /\ goal # "BACKTEST_REPORT"
  BY <1>3, GoalPaths
<1>5. goal # "PORTFOLIO_REPORT"
  BY <1>3, GoalPaths
<1>6. goal # "ORDER_DRAFT"
  BY <1>3, GoalPaths
<1>7. goal # "PAPER_EXECUTION"
  BY <1>3, GoalPaths
<1> QED
  BY <1>1, <1>4, <1>5, <1>6, <1>7

(* Runs, apart from an approved one, that the replay can go on from.       *)
AcceptedRuns ==
  {r \in SoundRuns :
     /\ WithinLimits(r) /\ MilestoneProven(r)
     /\ "ORDER_DRAFT" \in r.artifacts => r.draftExpiry \in Nat
     /\ r.approvalDeadline # None => r.goal = "LIVE_ASSISTED_EXECUTION"
     /\ r.cancelled => r.state \in AfterExecutionStates \cup TerminalStates}

(* An accepted event keeps the draft of a run with its expiry.             *)
LEMMA DraftKept ==
  ASSUME NEW a, NEW e \in AgentEvent, a.run \in Run, ReplayStep(a, e).ok,
         "ORDER_DRAFT" \in a.run.artifacts => a.run.draftExpiry \in Nat,
         "ORDER_DRAFT" \in Absorb(a.run, e).artifacts
  PROVE  Absorb(a.run, e).draftExpiry \in Nat
<1> DEFINE r == a.run
<1>1. "ORDER_DRAFT" \in Gathered(r, e)
  BY AbsorbFields
<1>2. Absorb(r, e).draftExpiry =
        IF e.artifact = "ORDER_DRAFT" /\ "ORDER_DRAFT" \notin r.artifacts
        THEN e.expires ELSE r.draftExpiry
  BY AbsorbCounts
<1>3. IF e.kind \in ToolOutcomes THEN OutcomeFits(a, e) ELSE e.artifact = None
  BY DEF ReplayStep
<1> HIDE DEF r
<1>4. CASE "ORDER_DRAFT" \in r.artifacts
  BY <1>2, <1>4 DEF r
<1>5. CASE "ORDER_DRAFT" \notin r.artifacts
  <2>1. e.artifact = "ORDER_DRAFT" /\ e.artifact # None
    BY <1>1, <1>5 DEF Gathered
  <2>2. e.expires # None
    BY <1>3, <2>1 DEF OutcomeFits
  <2>3. e.expires \in Nat
    BY <2>2 DEF AgentEvent
  <2> QED
    BY <1>2, <1>5, <2>1, <2>3 DEF r
<1> QED
  BY <1>4, <1>5

(* An approval is asked for on the live path only.                         *)
LEMMA DeadlineKept ==
  ASSUME NEW a, NEW e \in AgentEvent, a.run \in SoundRuns, ReplayStep(a, e).ok,
         a.run.approvalDeadline # None => a.run.goal = "LIVE_ASSISTED_EXECUTION",
         Absorb(a.run, e).approvalDeadline # None
  PROVE  a.run.goal = "LIVE_ASSISTED_EXECUTION"
<1> DEFINE r == a.run
           next == Absorb(r, e)
<1>1. next \in SoundRuns /\ r \in Run
  <2>1. ReplayStep(a, e).run \in SoundRuns
    BY StepSound
  <2>2. ReplayStep(a, e).run = next
    BY StepOk
  <2> QED
    BY <2>1, <2>2 DEF SoundRuns
<1>2. next.goal = r.goal /\ next.state = e.after
  BY <1>1, AbsorbFields
<1>3. CASE OpensApproval(e)
  <2>1. e.after = "PENDING_APPROVAL"
    BY <1>3 DEF OpensApproval
  <2>2. "PENDING_APPROVAL" \in ToSet(GoalPath[r.goal])
    BY <1>1, <1>2, <2>1 DEF SoundRuns, OnPath, OffPath, TerminalStates
  <2> HIDE DEF r
  <2>3. r.goal \in RunGoals
    BY <1>1 DEF Run
  <2>4. r.goal = "LIVE_ASSISTED_EXECUTION"
    BY <2>2, <2>3, ApprovalsAreLive
  <2> QED
    BY <2>4 DEF r
<1>4. CASE ~OpensApproval(e)
  <2>1. r.approvalDeadline = None => next.approvalDeadline = None
    BY <1>1, <1>4, AbsorbDeadline
  <2> QED
    BY <2>1
<1> QED
  BY <1>3, <1>4

(* After a cancellation a run is past execution or ends.                   *)
LEMMA CancelledKept ==
  ASSUME NEW r \in Run, NEW e \in AgentEvent,
         ValidTransition(r.state, e.after, r.goal, e.kind),
         r.cancelled => r.state \in AfterExecutionStates \cup TerminalStates,
         Absorb(r, e).cancelled
  PROVE  e.after \in AfterExecutionStates \cup TerminalStates
<1>1. Absorb(r, e).cancelled = (r.cancelled \/ e.kind = "CANCELLATION_REQUESTED")
  BY AbsorbFields
<1>2. r.state \notin TerminalStates
  BY DEF ValidTransition
<1>3. CASE r.state \in AfterExecutionStates
  <2>1. CASE r.state = e.after
    BY <1>3, <2>1
  <2>2. CASE r.state # e.after
    <3>1. e.after \in LegalTargets(r.state, r.goal)
      BY <2>2 DEF ValidTransition
    <3> QED
      BY <1>3, <3>1 DEF LegalTargets, AfterExecutionStates, TerminalStates
  <2> QED
    BY <2>1, <2>2
<1>4. CASE r.state \notin AfterExecutionStates
  <2>1. e.kind = "CANCELLATION_REQUESTED"
    BY <1>1, <1>2, <1>4
  <2>2. e.after \in {"CANCELLED", "INCIDENT"}
    BY <1>4, <2>1 DEF ValidTransition, ChangingKindFits, SameStateObservations, ToolOutcomes
  <2> QED
    BY <2>2 DEF TerminalStates
<1> QED
  BY <1>3, <1>4

(* An accepted event leaves such a run.                                    *)
LEMMA StepAccepted ==
  \A a, e : e \in AgentEvent /\ a.run \in AcceptedRuns /\ ReplayStep(a, e).ok
              => ReplayStep(a, e).run \in AcceptedRuns
<1> SUFFICES ASSUME NEW a, NEW e \in AgentEvent, a.run \in AcceptedRuns, ReplayStep(a, e).ok
             PROVE  ReplayStep(a, e).run \in AcceptedRuns
  OBVIOUS
<1> DEFINE r == a.run
           next == Absorb(r, e)
<1>1. /\ ReplayStep(a, e).run = next
      /\ e.before = r.state
      /\ ValidTransition(e.before, e.after, r.goal, e.kind)
      /\ WithinLimits(next) /\ MilestoneProven(next)
  BY StepOk
<1>2. r \in SoundRuns /\ r \in Run
  BY DEF AcceptedRuns, SoundRuns
<1>3. next \in SoundRuns
  BY <1>1, <1>2, StepSound
<1>4. next.goal = r.goal /\ next.state = e.after
  BY <1>2, AbsorbFields
<1>5. "ORDER_DRAFT" \in next.artifacts => next.draftExpiry \in Nat
  BY <1>2, DraftKept DEF AcceptedRuns
<1>6. next.approvalDeadline # None => r.goal = "LIVE_ASSISTED_EXECUTION"
  BY <1>2, DeadlineKept DEF AcceptedRuns
<1>7. next.cancelled => next.state \in AfterExecutionStates \cup TerminalStates
  BY <1>1, <1>2, <1>4, CancelledKept DEF AcceptedRuns
<1> HIDE DEF next, r
<1> QED
  BY <1>1, <1>3, <1>4, <1>5, <1>6, <1>7 DEF AcceptedRuns

(* What can be stored after an acceptable run is accepted.                 *)
LEMMA ChainAccepted ==
  \A r \in SoundRuns, events \in Seq(AgentEvent) :
    Acceptable(r) /\ Replayable(r, events) => After(r, events) \in AcceptedRuns
<1> SUFFICES ASSUME NEW r \in SoundRuns, NEW events \in Seq(AgentEvent),
                    Acceptable(r), Replayable(r, events)
             PROVE  After(r, events) \in AcceptedRuns
  OBVIOUS
<1>1. r \in AcceptedRuns
  BY DEF AcceptedRuns, Acceptable
<1>2. Replay(r, events).ok
  BY DEF Replayable
<1> QED
  BY <1>1, <1>2, StepAccepted, ReplayClosed DEF After

(* It is acceptable unless it is approved only.                            *)
LEMMA AcceptedAcceptable ==
  ASSUME NEW r \in AcceptedRuns, r.state # "APPROVED"
  PROVE  Acceptable(r)
BY DEF AcceptedRuns, Acceptable

(* A run that was just started is acceptable.                              *)
LEMMA StartedAcceptable ==
  ASSUME NEW goal \in Goal
  PROVE  Acceptable(Started(goal))
<1> DEFINE r == Created(goal)
           e == Event("STATE_TRANSITION", "SYSTEM", "RECEIVED", "SNAPSHOT_READY", 0)
<1>1. r \in Run
  <2>1. goal \in RunGoals /\ "RECEIVED" \in RunStates
    BY RuntimeAssumption DEF RuntimeAssumption, RunStates, PreExecutionStates
  <2>2. [tool \in WriteTools |-> None] \in [WriteTools -> Identity \cup {None}]
    OBVIOUS
  <2> DEFINE locked == [tool \in WriteTools |-> None]
  <2> HIDE DEF locked
  <2>3. r = [state |-> "RECEIVED", goal |-> goal, calls |-> 0, invalid |-> 0,
             reconciliations |-> 0, cancelled |-> FALSE, artifacts |-> {}, draftExpiry |-> None,
             approved |-> FALSE, approvalSince |-> None, approvalDeadline |-> None,
             pending |-> None, locked |-> locked]
    BY DEF Created, locked
  <2> HIDE DEF r
  <2> QED
    BY <2>1, <2>2, <2>3 DEF Run, locked
<1>2. /\ r.calls = 0 /\ r.invalid = 0 /\ r.reconciliations = 0 /\ r.cancelled = FALSE
      /\ r.artifacts = {} /\ r.approvalDeadline = None
  BY DEF Created
<1>3. e.kind = "STATE_TRANSITION" /\ e.after = "SNAPSHOT_READY" /\ e.artifact = None
  BY DEF Event
<1>4. Started(goal) = Absorb(r, e)
  BY AfterOne DEF Started
<1> HIDE DEF r, e
<1> DEFINE next == Absorb(r, e)
<1>5. /\ next.state = "SNAPSHOT_READY" /\ next.artifacts = {} /\ next.calls = 0
      /\ next.cancelled = FALSE
  <2>1. /\ next.state = e.after /\ next.artifacts = Gathered(r, e)
        /\ next.cancelled = (r.cancelled \/ e.kind = "CANCELLATION_REQUESTED")
        /\ next.calls = r.calls + (IF e.kind = "TOOL_CALL_RESERVED" THEN 1 ELSE 0)
    BY <1>1, AbsorbFields
  <2>2. Gathered(r, e) = {}
    BY <1>2, <1>3 DEF Gathered
  <2>3. next.cancelled = FALSE
    BY <1>2, <1>3, <2>1
  <2>4. next.calls = 0
    BY <1>2, <1>3, <2>1
  <2> QED
    BY <1>3, <2>1, <2>2, <2>3, <2>4
<1>6. next.invalid = 0 /\ next.reconciliations = 0
  BY <1>1, <1>2, <1>3, AbsorbCounts
<1>7. next.approvalDeadline = None
  BY <1>1, <1>2, <1>3, AbsorbDeadline DEF OpensApproval
<1> HIDE DEF next
<1>8. WithinLimits(next)
  BY <1>5, <1>6, LimitsAssumption DEF WithinLimits, LimitsAssumption
<1>9. MilestoneProven(next)
  BY <1>5 DEF MilestoneProven, ProvenStates, AuthorisedStates, AfterExecutionStates
<1> QED
  BY <1>4, <1>5, <1>7, <1>8, <1>9 DEF Acceptable, next

(* A save of one event leaves the run where the event says.                *)
LEMMA OneSaved ==
  \A e \in AgentEvent :
    run \in SoundRuns /\ Acceptable(run) /\ Commit(<<e>>) /\ e.after # "APPROVED"
      => Acceptable(run')
<1> SUFFICES ASSUME NEW e \in AgentEvent, run \in SoundRuns, Acceptable(run), Commit(<<e>>),
                    e.after # "APPROVED"
             PROVE  Acceptable(run')
  OBVIOUS
<1>1. <<e>> \in Seq(AgentEvent) /\ run \in Run
  BY DEF SoundRuns
<1>2. Replayable(run, <<e>>) /\ run' = After(run, <<e>>)
  BY DEF Commit
<1>3. After(run, <<e>>) \in AcceptedRuns
  BY <1>1, <1>2, ChainAccepted, Zenon
<1>4. After(run, <<e>>).state = e.after
  BY <1>1, AfterOne, AbsorbFields
<1> QED
  BY <1>2, <1>3, <1>4, AcceptedAcceptable

(* A denied call leaves an acceptable run.                                 *)
LEMMA DenyAcceptable ==
  ASSUME TypeInv, OutcomeInv, NEW i \in Instance, NEW c \in CallsOf(run), Deny(i, c)
  PROVE  Acceptable(run')
<1> DEFINE E == {e \in AgentEvent : e.after # "APPROVED"}
           S == {r \in Run : r.state # "APPROVED"}
           e == ToolEvent(run, "TOOL_CALL_RESERVED", c, run.state)
           f == [ToolEvent(run, "TOOL_CALL_REJECTED", c, run.state) EXCEPT !.code = "STAGE_REJECTED"]
           g == Stop(run)
<1>1. run # NoRun /\ DenySaves(c) /\ Unchanged
  BY DenySaved
<1>2. run \in SoundRuns /\ run \in Run /\ c \in Call /\ Acceptable(run) /\ run.state # "APPROVED"
      /\ clock \in Nat /\ run.state \in RunStates
  BY <1>1, CallTyped DEF TypeInv, RunsSound, SoundRuns, OutcomeInv, Acceptable, Run
<1>3. e \in E
  BY <1>2, ToolEventTyped DEF ToolEvent, Move, Event, SameStateObservations
<1>4. f \in E
  <2> DEFINE h == ToolEvent(run, "TOOL_CALL_REJECTED", c, run.state)
  <2>1. h \in AgentEvent
    BY <1>2, ToolEventTyped DEF SameStateObservations, ToolOutcomes
  <2>2. [h EXCEPT !.code = "STAGE_REJECTED"] \in AgentEvent
    BY <2>1, CodeTyped DEF Codes
  <2>3. f.after = run.state
    BY DEF ToolEvent, Move, Event
  <2> QED
    BY <1>2, <2>2, <2>3
<1>5. g \in E
  <2>1. g.after # "APPROVED"
    BY StopFields
  <2> QED
    BY <1>2, <2>1, StopTyped
<1>6. DeniedEvents(c) = <<e, f>>
  BY DEF DeniedEvents
<1> HIDE DEF e, f, g, E
<1>7. <<e, f>> \in Seq(E)
  BY <1>3, <1>4
<1>8. DeniedEvents(c) \in Seq(E) /\ Append(DeniedEvents(c), Stop(run)) \in Seq(E)
  BY <1>5, <1>6, <1>7, AppendProperties DEF g
<1>9. PICK events \in Seq(E) : Replayable(run, events) /\ run' = After(run, events)
  BY <1>1, <1>8 DEF DenySaves, Commit
<1>10. events \in Seq(AgentEvent)
  BY SeqGrows DEF E
<1>11. run' \in AcceptedRuns
  BY <1>2, <1>9, <1>10, ChainAccepted, Zenon
<1>12. \A a, x : x \in E /\ a.run \in S => ReplayStep(a, x).run \in S
  BY AbsorbTyped, AbsorbFields DEF ReplayStep, E
<1>13. run \in S
  BY <1>2
<1> HIDE DEF S
<1>14. Replay(run, events).run \in S
  BY <1>12, <1>13, ReplayKept
<1>15. run'.state # "APPROVED"
  BY <1>9, <1>14 DEF S, After
<1> QED
  BY <1>11, <1>15, AcceptedAcceptable

(* An approval leaves an acceptable run: it executes already.              *)
LEMMA ApproveAcceptable ==
  ASSUME TypeInv, OutcomeInv, NEW i \in Instance, NEW approval \in Approval,
         RecordApproval(i, approval)
  PROVE  Acceptable(run')
<1> DEFINE e == [Move(run, "APPROVAL_RECORDED", "HUMAN", "APPROVED") EXCEPT !.approval = approval]
           f == Event("STATE_TRANSITION", "SYSTEM", "APPROVED", "EXECUTING", clock)
<1>1. /\ run # NoRun /\ run \in Run /\ run \in SoundRuns /\ clock \in Nat /\ Acceptable(run)
      /\ Replayable(run, <<e, f>>) /\ run' = After(run, <<e, f>>)
  BY DEF RecordApproval, Passes, Commit, TypeInv, RunsSound, SoundRuns, OutcomeInv
<1>2. e \in AgentEvent
  BY <1>1, ApprovalTyped
<1>3. f \in AgentEvent
  BY <1>1, EventTyped, NamesTyped
<1>4. f.after = "EXECUTING"
  BY DEF Event
<1> HIDE DEF e, f
<1>5. <<e, f>> \in Seq(AgentEvent)
  BY <1>2, <1>3
<1>6. run' \in AcceptedRuns
  BY <1>1, <1>5, ChainAccepted, Zenon
<1>7. run' = Absorb(Absorb(run, e), f)
  BY <1>1, TwoSteps
<1>8. Absorb(run, e) \in Run
  BY <1>1, <1>2, AbsorbTyped
<1>9. run'.state = "EXECUTING"
  BY <1>4, <1>7, <1>8, AbsorbFields
<1> QED
  BY <1>6, <1>9, AcceptedAcceptable

(* Every call that is one save leaves an acceptable run.                   *)
LEMMA SavesAcceptable ==
  ASSUME TypeInv, OutcomeInv, NEW i \in Instance, Saves(i)
  PROVE  Acceptable(run')
<1>1. run # NoRun
  BY SavesSettle
<1>2. run \in SoundRuns /\ run \in Run /\ clock \in Nat /\ Acceptable(run)
      /\ run.state # "APPROVED"
  BY <1>1 DEF TypeInv, RunsSound, SoundRuns, OutcomeInv, Acceptable
<1>3. CASE TimeGate(i)
  <2>1. GateEvent(run) \in AgentEvent /\ GateEvent(run).after # "APPROVED"
    BY <1>2, GateEventTyped DEF GateEvent, Move, Event
  <2> QED
    BY <1>2, <1>3, <2>1, OneSaved DEF TimeGate
<1>4. CASE RequestCancel(i)
  <2> DEFINE e == Move(run, "CANCELLATION_REQUESTED", "CANCELLATION", CancelTarget(run))
  <2>1. e \in AgentEvent
    BY <1>2, CancelTyped
  <2>2. e.after # "APPROVED"
    BY <1>2 DEF Move, Event, CancelTarget
  <2>3. Commit(<<e>>)
    BY <1>4 DEF RequestCancel
  <2> HIDE DEF e
  <2> QED
    BY <1>2, <2>1, <2>2, <2>3, OneSaved
<1>5. CASE RejectApproval(i)
  <2> DEFINE e == Move(run, "APPROVAL_REJECTED", "HUMAN", "REJECTED")
  <2>1. e \in AgentEvent
    BY <1>2, MoveTyped, NamesTyped
  <2>2. e.after # "APPROVED"
    BY DEF Move, Event
  <2>3. Commit(<<e>>)
    BY <1>5 DEF RejectApproval
  <2> HIDE DEF e
  <2> QED
    BY <1>2, <2>1, <2>2, <2>3, OneSaved
<1>6. CASE StopOnBudget(i)
  <2>1. Stop(run) \in AgentEvent /\ Stop(run).after # "APPROVED"
    BY <1>2, StopTyped, StopFields
  <2> QED
    BY <1>2, <1>6, <2>1, OneSaved DEF StopOnBudget
<1>7. CASE DenyAfterCancel(i)
  <2> DEFINE e == Move(run, "INCIDENT_RECORDED", "SYSTEM", "INCIDENT")
  <2>1. e \in AgentEvent
    BY <1>2, MoveTyped, NamesTyped
  <2>2. e.after # "APPROVED"
    BY DEF Move, Event
  <2>3. Commit(<<e>>)
    BY <1>7 DEF DenyAfterCancel
  <2> HIDE DEF e
  <2> QED
    BY <1>2, <2>1, <2>2, <2>3, OneSaved
<1> QED
  BY <1>3, <1>4, <1>5, <1>6, <1>7, ApproveAcceptable, DenyAcceptable DEF Saves

(* A reservation leaves an acceptable run, and the call it reserved.       *)
LEMMA ReserveHeld ==
  ASSUME TypeInv, OutcomeInv, NEW i \in Instance, NEW c \in CallsOf(run), Reserve(i, c)
  PROVE  Acceptable(run') /\ Held(run')
<1> DEFINE e == ToolEvent(run, "TOOL_CALL_RESERVED", c, run.state)
<1>1. /\ run \in SoundRuns /\ run \in Run /\ c \in Call /\ e \in AgentEvent
      /\ run' = Absorb(run, e) /\ run' \in Reservations
      /\ run'.state = run.state /\ run'.goal = run.goal /\ run'.pending = c
      /\ run'.artifacts = run.artifacts /\ run'.cancelled = run.cancelled
  BY ReserveRun DEF SoundRuns
<1>2. run # NoRun /\ Offered(run, c) /\ KeepsIdentity(run, c) /\ Commit(<<e>>) /\ ~BudgetSpent(run)
  BY DEF Reserve, Passes
<1>3. e.kind = "TOOL_CALL_RESERVED" /\ e.after = run.state /\ e.artifact = None
  BY DEF ToolEvent, Move, Event
<1> HIDE DEF e
<1>4. Acceptable(run) /\ run.state # "APPROVED"
  BY <1>2 DEF OutcomeInv, Acceptable
<1>5. Acceptable(run')
  BY <1>1, <1>2, <1>3, <1>4, OneSaved
<1>6. StageValid(run', c)
  BY <1>1, <1>2 DEF Offered, StageValid
<1>7. Strict(c)
  BY <1>2 DEF Offered, StageValid, Strict, BatchTools
<1>8. KeepsIdentity(run', c)
  <2>1. run'.locked = run.locked
    BY <1>1, <1>3, AbsorbCounts DEF ToolOutcomes
  <2> QED
    BY <1>2, <2>1 DEF KeepsIdentity
<1>9. run'.invalid < MaxInvalidCalls
  <2>1. run'.invalid = run.invalid + 0
    BY <1>1, <1>3, AbsorbCounts
  <2>2. run.invalid \in Nat /\ MaxInvalidCalls \in Nat
    BY <1>1, LimitsAssumption DEF Run, LimitsAssumption
  <2>3. ~(run.invalid >= MaxInvalidCalls)
    BY <1>2 DEF BudgetSpent
  <2> QED
    BY <2>1, <2>2, <2>3
<1>10. c.tool \in ExecutionTools => ~run'.cancelled
  BY <1>1, <1>2 DEF Offered
<1> QED
  BY <1>1, <1>5, <1>6, <1>7, <1>8, <1>9, <1>10 DEF Held

(* A response never approves.                                              *)
LEMMA NeverApproves ==
  ASSUME NEW r \in Run, r.state # "APPROVED", NEW tool, NEW answer \in Answer,
         answer.kind \in {"ok", "failed"}
  PROVE  ResponseTarget(r, tool, answer) # "APPROVED"
<1>1. CASE answer.kind = "ok"
  <2>1. answer.verdict \in Verdict
    BY <1>1, AnswerKinds
  <2>2. SuccessTarget(r, tool, answer.verdict) # "APPROVED"
    BY <2>1 DEF SuccessTarget, Verdict
  <2> QED
    BY <1>1, <2>2 DEF ResponseTarget
<1>2. CASE answer.kind = "failed"
  BY <1>2 DEF ResponseTarget, FailedState
<1> QED
  BY <1>1, <1>2

(* A stored outcome leaves an acceptable run.                              *)
LEMMA RecordAcceptable ==
  ASSUME TypeInv, OutcomeInv, NEW i \in Instance, Record(i), Stored(i)
  PROVE  Acceptable(run')
<1> DEFINE T == RunStates \ {"APPROVED"}
<1>1. /\ InPhase(i, "answered") /\ run = call[i].reserved /\ run \in Run
      /\ run' = After(run, OutcomeEvents(i)) /\ Replay(run, OutcomeEvents(i)).ok
  BY RecordedRun
<1>2. Replayable(run, OutcomeEvents(i)) /\ run \in SoundRuns
  BY <1>1, RecordRun DEF Stored
<1>3. Acceptable(run) /\ run.state # "APPROVED" /\ run.state \in RunStates
  BY <1>1 DEF OutcomeInv, Held, InPhase, Acceptable, Run
<1>4. OutcomeEvents(i) \in Seq(AgentEvent)
  BY <1>1, OutcomeTyped
<1>5. run' \in AcceptedRuns
  BY <1>1, <1>2, <1>3, <1>4, ChainAccepted, Zenon
<1>6. OutcomeEvents(i) \in Seq(Into(T))
  <2>1. ClosingStates \subseteq T
    BY AllStates DEF ClosingStates
  <2>2. MadeOf(i).kind \in {"ok", "failed"} =>
          ResponseTarget(run, Reserved(i).tool, MadeOf(i)) \in T
    BY <1>1, <1>3, Made, NeverApproves, ResponseTargetTyped
  <2>3. run.state \in T
    BY <1>3
  <2> HIDE DEF T
  <2> QED
    BY <1>1, <2>1, <2>2, <2>3, OutcomesInto
<1>7. run'.state # "APPROVED"
  <2>1. run.state \in T
    BY <1>3
  <2> HIDE DEF T
  <2>2. After(run, OutcomeEvents(i)).state \in T
    BY <1>1, <1>6, <2>1, ReplayInto
  <2> QED
    BY <1>1, <2>2 DEF T
<1> QED
  BY <1>5, <1>7, AcceptedAcceptable

(* Every step keeps the invariant.                                         *)
LEMMA OutcomeInvStays ==
  ASSUME TypeInv, OutcomeInv, [Next]_vars
  PROVE  OutcomeInv'
<1>1. ASSUME NEW i \in Instance, Saves(i) PROVE OutcomeInv'
  <2>1. Acceptable(run') /\ call' = call
    BY <1>1, SavesAcceptable, SavesSettle DEF Unchanged
  <2> QED
    BY <2>1 DEF OutcomeInv
<1>2. ASSUME NEW i \in Instance, NEW goal \in Goal, StartRun(i, goal) PROVE OutcomeInv'
  <2>1. run' = Started(goal) /\ call' = call
    BY <1>2 DEF StartRun
  <2>2. Acceptable(run')
    BY <2>1, StartedAcceptable
  <2> QED
    BY <2>1, <2>2 DEF OutcomeInv
<1>3. ASSUME NEW i \in Instance, NEW c \in CallsOf(run), Reserve(i, c) PROVE OutcomeInv'
  <2>1. Acceptable(run') /\ Held(run')
    BY <1>3, ReserveHeld
  <2>2. call' = [call EXCEPT ![i] = [phase |-> "dispatched", reserved |-> run']]
    BY <1>3 DEF Reserve
  <2>3. \A j \in Instance : call'[j] # Idle => Held(call'[j].reserved)
    BY <2>1, <2>2 DEF OutcomeInv, TypeInv
  <2> QED
    BY <2>1, <2>3 DEF OutcomeInv
<1>4. ASSUME NEW i \in Instance, Dispatch(i) PROVE OutcomeInv'
  <2>1. InPhase(i, "dispatched") /\ run' = run
    BY <1>4 DEF Dispatch
  <2>2. PICK answer : call' = [call EXCEPT ![i] =
            [phase |-> "answered", reserved |-> call[i].reserved, answer |-> answer]]
    BY <1>4 DEF Dispatch
  <2>3. Held(call[i].reserved)
    BY <2>1 DEF InPhase, OutcomeInv
  <2>4. \A j \in Instance : call'[j] # Idle => Held(call'[j].reserved)
    BY <2>2, <2>3 DEF OutcomeInv, TypeInv
  <2> QED
    BY <2>1, <2>4 DEF OutcomeInv
<1>5. ASSUME NEW i \in Instance, Record(i) PROVE OutcomeInv'
  <2>1. call' = [call EXCEPT ![i] = Idle] /\ (~Stored(i) => run' = run)
    BY <1>5 DEF Record
  <2>2. run' # NoRun => Acceptable(run')
    BY <1>5, <2>1, RecordAcceptable DEF OutcomeInv
  <2>3. \A j \in Instance : call'[j] # Idle => Held(call'[j].reserved)
    BY <2>1 DEF OutcomeInv, TypeInv
  <2> QED
    BY <2>2, <2>3 DEF OutcomeInv
<1>6. CASE UNCHANGED <<run, call, submitted>>
  BY <1>6 DEF OutcomeInv
<1> QED
  BY <1>1, <1>2, <1>3, <1>4, <1>5, <1>6, Steps

-----------------------------------------------------------------------------
(* What the replay asks of the outcome of a held call, and of what follows.*)

(* What one step of the fold leaves, besides its verdict.                  *)
LEMMA StepLeaves ==
  ASSUME NEW a, NEW e
  PROVE  /\ ReplayStep(a, e).run = Absorb(a.run, e)
         /\ ReplayStep(a, e).due =
              IF e.kind \in ToolOutcomes THEN DueAfter(a, e, Absorb(a.run, e)) ELSE {}
BY DEF ReplayStep

(* The outcome of a held call is accepted when it fits and leaves a run    *)
(* with its evidence: the budget of a reserved call counts it already.     *)
LEMMA OutcomeAccepted ==
  ASSUME NEW r \in Run, Held(r), NEW e, e.kind \in ToolOutcomes, e.trigger = "TOOL",
         e.before = r.state, ValidTransition(r.state, e.after, r.goal, e.kind),
         e.after \in {"PENDING_APPROVAL", "EXECUTING"} => e.after = r.state,
         OutcomeFits(Resume(r), e), MilestoneProven(Absorb(r, e))
  PROVE  ReplayStep(Resume(r), e).ok
<1> DEFINE a == Resume(r)
           next == Absorb(r, e)
<1>1. a.run = r /\ a.ok = TRUE /\ a.due = {}
  BY DEF Resume
<1>2. e.trigger \in TriggersOf(e.kind)
  BY DEF TriggersOf, ToolOutcomes, SystemKinds, SameStateObservations
<1>3. e.kind \in {"TOOL_CALL_SUCCEEDED", "TOOL_CALL_FAILED", "TOOL_CALL_REPLAYED",
                  "TOOL_CALL_REJECTED"}
  BY DEF ToolOutcomes
<1>4. /\ FollowsUp(a, e) /\ CancellationFits(r, e) /\ PendingRespected(a, e)
      /\ MayReserve(r, e) /\ ControlFits(r, e) /\ LimitFits(next, e)
  BY <1>1, <1>3 DEF FollowsUp, CancellationFits, PendingRespected, MayReserve, ControlFits,
     LimitFits
<1>5. ~OpensApproval(e)
  BY DEF OpensApproval
<1>6. DeadlineFits(next, e)
  BY <1>3 DEF DeadlineFits
<1>7. WithinLimits(next)
  <2>1. next.calls = r.calls + (IF e.kind = "TOOL_CALL_RESERVED" THEN 1 ELSE 0)
    BY AbsorbFields
  <2>2. /\ next.invalid = r.invalid + (IF e.kind = "TOOL_CALL_REJECTED" THEN 1 ELSE 0)
        /\ next.reconciliations = r.reconciliations
    BY <1>3, AbsorbCounts
  <2> HIDE DEF next
  <2>3. r.calls \in Nat /\ r.invalid \in Nat /\ r.reconciliations \in Nat
    BY DEF Run
  <2>4. WithinLimits(r) /\ r.invalid < MaxInvalidCalls
    BY DEF Held, Acceptable
  <2>5. MaxInvalidCalls \in Nat
    BY LimitsAssumption DEF LimitsAssumption
  <2>6. next.invalid <= MaxInvalidCalls
    BY <2>2, <2>3, <2>4, <2>5
  <2>7. next.calls = r.calls
    BY <1>3, <2>1, <2>3
  <2> QED
    BY <2>2, <2>4, <2>6, <2>7 DEF WithinLimits
<1> HIDE DEF a, next
<1>8. ReplayStep(a, e).ok <=>
          /\ a.ok
          /\ e.before = r.state
          /\ e.trigger \in TriggersOf(e.kind)
          /\ FollowsUp(a, e)
          /\ ValidTransition(e.before, e.after, r.goal, e.kind)
          /\ CancellationFits(r, e)
          /\ PendingRespected(a, e)
          /\ MayReserve(r, e)
          /\ IF e.kind \in ToolOutcomes THEN OutcomeFits(a, e) ELSE e.artifact = None
          /\ ControlFits(r, e)
          /\ OpensApproval(e) => next.draftExpiry # None /\ next.approvalDeadline > e.at
          /\ DeadlineFits(next, e)
          /\ LimitFits(next, e)
          /\ WithinLimits(next)
          /\ MilestoneProven(next)
  BY <1>1 DEF ReplayStep, next
<1>9. OutcomeFits(a, e) /\ MilestoneProven(next)
  BY DEF a, next
<1> QED
  BY <1>1, <1>2, <1>4, <1>5, <1>6, <1>7, <1>8, <1>9 DEF a

(* The run after the outcome.                                              *)
LEMMA OutcomeLeaves ==
  ASSUME NEW r \in Run, NEW e \in AgentEvent, e.kind \in ToolOutcomes,
         e.after \in {"PENDING_APPROVAL", "EXECUTING"} => e.after = e.before
  PROVE  LET next == Absorb(r, e) IN
         /\ next \in Run /\ next.state = e.after /\ next.goal = r.goal
         /\ next.pending = None /\ next.artifacts = Gathered(r, e)
         /\ next.cancelled = r.cancelled /\ next.approved = r.approved
         /\ next.calls = r.calls /\ next.reconciliations = r.reconciliations
         /\ next.invalid = r.invalid + (IF e.kind = "TOOL_CALL_REJECTED" THEN 1 ELSE 0)
         /\ next.approvalDeadline = r.approvalDeadline
<1> DEFINE next == Absorb(r, e)
<1>1. e.kind \in {"TOOL_CALL_SUCCEEDED", "TOOL_CALL_FAILED", "TOOL_CALL_REPLAYED",
                  "TOOL_CALL_REJECTED"}
  BY DEF ToolOutcomes
<1>2. next \in Run
  BY AbsorbTyped
<1>3. next.state = e.after /\ next.goal = r.goal /\ next.artifacts = Gathered(r, e)
  BY AbsorbFields
<1>4. next.pending = None
  <2>1. next.pending =
              IF e.kind = "TOOL_CALL_RESERVED" THEN e.call
              ELSE IF e.kind \in ToolOutcomes \/ e.after \in TerminalStates THEN None
              ELSE r.pending
    BY AbsorbFields
  <2> QED
    BY <1>1, <2>1
<1>5. next.cancelled = r.cancelled
  <2>1. next.cancelled = (r.cancelled \/ e.kind = "CANCELLATION_REQUESTED")
    BY AbsorbFields
  <2>2. r.cancelled \in BOOLEAN
    BY DEF Run
  <2> QED
    BY <1>1, <2>1, <2>2
<1>6. next.approved = r.approved
  <2>1. next.approved = (r.approved \/ e.kind = "APPROVAL_RECORDED")
    BY AbsorbFields
  <2>2. r.approved \in BOOLEAN
    BY DEF Run
  <2> QED
    BY <1>1, <2>1, <2>2
<1>7. next.calls = r.calls
  <2>1. next.calls = r.calls + (IF e.kind = "TOOL_CALL_RESERVED" THEN 1 ELSE 0)
    BY AbsorbFields
  <2>2. r.calls \in Nat
    BY DEF Run
  <2> HIDE DEF next
  <2> QED
    BY <1>1, <2>1, <2>2
<1>8. /\ next.invalid = r.invalid + (IF e.kind = "TOOL_CALL_REJECTED" THEN 1 ELSE 0)
      /\ next.reconciliations = r.reconciliations
  BY <1>1, AbsorbCounts
<1>9. next.approvalDeadline = r.approvalDeadline
  BY <1>1, AbsorbDeadline DEF OpensApproval
<1> HIDE DEF next
<1> QED
  BY <1>2, <1>3, <1>4, <1>5, <1>6, <1>7, <1>8, <1>9 DEF next

(* The kinds of events that may follow an outcome.                         *)
FollowKinds == {"INCIDENT_RECORDED", "LIMIT_REACHED", "TIMEOUT_RECORDED", "STATE_TRANSITION"}

(* What follows an outcome is accepted when it is what must follow.        *)
LEMMA FollowAccepted ==
  ASSUME NEW a, NEW f, a.ok = TRUE, a.run \in Run, WithinLimits(a.run), a.run.pending = None,
         f.kind \in FollowKinds, f.trigger \in TriggersOf(f.kind), f.before = a.run.state,
         f.artifact = None,
         a.due \subseteq {MustFollow(f.kind, f.trigger, f.after, f.at)},
         ValidTransition(f.before, f.after, a.run.goal, f.kind),
         OpensApproval(f) => /\ Absorb(a.run, f).draftExpiry # None
                             /\ Absorb(a.run, f).approvalDeadline > f.at,
         DeadlineFits(Absorb(a.run, f), f), LimitFits(a.run, f),
         MilestoneProven(Absorb(a.run, f))
  PROVE  /\ ReplayStep(a, f).ok /\ ReplayStep(a, f).due = {}
         /\ ReplayStep(a, f).run = Absorb(a.run, f) /\ ReplayStep(a, f).run.pending = None
<1> DEFINE r == a.run
           next == Absorb(r, f)
<1>1. f.kind \notin ToolOutcomes /\ f.kind # "TOOL_CALL_RESERVED"
      /\ f.kind # "CANCELLATION_REQUESTED" /\ f.kind \notin {"APPROVAL_RECORDED", "APPROVAL_REJECTED"}
      /\ f.kind # "TOOL_CALL_REJECTED"
  BY DEF FollowKinds, ToolOutcomes
<1>2. ReplayStep(a, f).run = next /\ ReplayStep(a, f).due = {}
  BY <1>1, StepLeaves
<1>3. /\ next.calls = r.calls + (IF f.kind = "TOOL_CALL_RESERVED" THEN 1 ELSE 0)
      /\ next.pending =
              IF f.kind = "TOOL_CALL_RESERVED" THEN f.call
              ELSE IF f.kind \in ToolOutcomes \/ f.after \in TerminalStates THEN None
              ELSE r.pending
  BY AbsorbFields
<1>4. /\ next.invalid = r.invalid + (IF f.kind = "TOOL_CALL_REJECTED" THEN 1 ELSE 0)
      /\ f.kind # "TOOL_CALL_RESERVED" => next.reconciliations = r.reconciliations
  BY AbsorbCounts
<1>5. r.calls \in Nat /\ r.invalid \in Nat /\ r.reconciliations \in Nat
  BY DEF Run
<1>6. FollowsUp(a, f)
  BY DEF FollowsUp
<1> HIDE DEF next
<1>7. next.pending = None
  BY <1>1, <1>3
<1>8. next.calls = r.calls /\ next.invalid = r.invalid /\ next.reconciliations = r.reconciliations
  BY <1>1, <1>3, <1>4, <1>5
<1>9. WithinLimits(next) /\ LimitFits(next, f)
  BY <1>8 DEF WithinLimits, LimitFits
<1>10. /\ CancellationFits(r, f) /\ PendingRespected(a, f) /\ MayReserve(r, f)
       /\ ControlFits(r, f)
  BY <1>1 DEF CancellationFits, PendingRespected, MayReserve, ControlFits
<1>11. ReplayStep(a, f).ok <=>
          /\ a.ok
          /\ f.before = r.state
          /\ f.trigger \in TriggersOf(f.kind)
          /\ FollowsUp(a, f)
          /\ ValidTransition(f.before, f.after, r.goal, f.kind)
          /\ CancellationFits(r, f)
          /\ PendingRespected(a, f)
          /\ MayReserve(r, f)
          /\ IF f.kind \in ToolOutcomes THEN OutcomeFits(a, f) ELSE f.artifact = None
          /\ ControlFits(r, f)
          /\ OpensApproval(f) => next.draftExpiry # None /\ next.approvalDeadline > f.at
          /\ DeadlineFits(next, f)
          /\ LimitFits(next, f)
          /\ WithinLimits(next)
          /\ MilestoneProven(next)
  BY DEF ReplayStep, next
<1>12. /\ OpensApproval(f) => next.draftExpiry # None /\ next.approvalDeadline > f.at
       /\ DeadlineFits(next, f) /\ MilestoneProven(next)
  BY DEF next
<1>13. ReplayStep(a, f).ok
  BY <1>1, <1>6, <1>9, <1>10, <1>11, <1>12
<1> QED
  BY <1>2, <1>7, <1>13 DEF next

(* An outcome alone can be stored when nothing must follow it.             *)
LEMMA OneStored ==
  ASSUME NEW r, NEW e, ReplayStep(Resume(r), e).ok, ReplayStep(Resume(r), e).due = {},
         ReplayStep(Resume(r), e).run.pending = None
  PROVE  Replayable(r, <<e>>)
<1>1. Replay(r, <<e>>) = ReplayStep(Resume(r), e)
  BY ReplayOne
<1> QED
  BY <1>1 DEF Replayable

(* So can an outcome with the one event that follows.                      *)
LEMMA TwoStored ==
  ASSUME NEW r, NEW e, NEW f,
         ReplayStep(ReplayStep(Resume(r), e), f).ok,
         ReplayStep(ReplayStep(Resume(r), e), f).due = {},
         ReplayStep(ReplayStep(Resume(r), e), f).run.pending = None
  PROVE  Replayable(r, <<e, f>>)
<1>1. Replay(r, <<e, f>>) = ReplayStep(ReplayStep(Resume(r), e), f)
  BY ReplayTwo
<1> QED
  BY <1>1 DEF Replayable

(* The endings that follow an outcome.                                     *)
EndingStates == {"INCIDENT", "LIMIT_EXCEEDED", "TIMED_OUT", "EXPIRED", "REJECTED"}

(* No stage is proven by an ending.                                        *)
LEMMA EndingProven ==
  ASSUME NEW next, next.state \in EndingStates \cup {"FAILED", "DATA_INVALID"}
  PROVE  MilestoneProven(next)
BY DEF EndingStates, MilestoneProven, ProvenStates, AuthorisedStates, AfterExecutionStates

(* An outcome and the ending that must follow it can be stored.            *)
LEMMA EndingStored ==
  ASSUME NEW r \in Run, Held(r), NEW e \in AgentEvent, NEW f,
         ReplayStep(Resume(r), e).ok, e.kind \in ToolOutcomes,
         e.after \in {"PENDING_APPROVAL", "EXECUTING"} => e.after = e.before,
         f.kind \in FollowKinds, f.trigger \in TriggersOf(f.kind), f.before = e.after,
         f.artifact = None, f.after \in EndingStates,
         DueAfter(Resume(r), e, Absorb(r, e)) \subseteq
           {MustFollow(f.kind, f.trigger, f.after, f.at)},
         ValidTransition(e.after, f.after, r.goal, f.kind),
         DeadlineFits(Absorb(Absorb(r, e), f), f), LimitFits(Absorb(r, e), f)
  PROVE  Replayable(r, <<e, f>>)
<1> DEFINE a == ReplayStep(Resume(r), e)
           next == Absorb(r, e)
<1>1. Resume(r).run = r
  BY DEF Resume
<1>2. a.run = next /\ a.due = DueAfter(Resume(r), e, next) /\ WithinLimits(next)
  BY <1>1, StepLeaves, StepOk
<1>3. next \in Run /\ next.state = e.after /\ next.goal = r.goal /\ next.pending = None
  BY OutcomeLeaves
<1>4. a.ok = TRUE
  BY DEF ReplayStep
<1> HIDE DEF a, next
<1>5. Absorb(next, f).state = f.after
  BY <1>3, AbsorbFields
<1>6. MilestoneProven(Absorb(next, f)) /\ ~OpensApproval(f)
  BY <1>5, EndingProven DEF EndingStates, OpensApproval
<1>7. DeadlineFits(Absorb(next, f), f) /\ LimitFits(next, f)
      /\ a.due \subseteq {MustFollow(f.kind, f.trigger, f.after, f.at)}
  BY <1>2 DEF next
<1>8. ReplayStep(a, f).ok /\ ReplayStep(a, f).due = {} /\ ReplayStep(a, f).run.pending = None
  BY <1>2, <1>3, <1>4, <1>6, <1>7, FollowAccepted
<1> QED
  BY <1>8, TwoStored DEF a

(* Once a run executes, and only then, its stage offers calls that may end *)
(* after the deadline.                                                     *)
LEMMA StageUnhurried ==
  ASSUME NEW state \in RunStates, NEW goal, NEW tool \in StageTools(state, goal)
  PROVE  tool \in Unhurried <=> state \in AfterExecutionStates
<1>1. tool \in Unhurried => state \in AfterExecutionStates
  BY StageOfTool DEF Unhurried, AfterExecutionStates
<1>2. state \in AfterExecutionStates => tool \in Unhurried
  BY DEF StageTools, AfterExecutionStates, Unhurried, ExecutionTools
<1> QED
  BY <1>1, <1>2

(* The endings that are legal from an open run.                            *)
LEMMA LegalEndings ==
  ASSUME NEW state \in RunStates \ TerminalStates, NEW goal
  PROVE  /\ \A kind \in SameStateObservations : ValidTransition(state, state, goal, kind)
         /\ ValidTransition(state, "INCIDENT", goal, "INCIDENT_RECORDED")
         /\ ValidTransition(state, "INCIDENT", goal, "TOOL_CALL_FAILED")
         /\ state # "RECONCILING" => ValidTransition(state, "TIMED_OUT", goal, "TIMEOUT_RECORDED")
         /\ state = "DRAFT_READY" => ValidTransition(state, "EXPIRED", goal, "TIMEOUT_RECORDED")
         /\ state \notin AfterExecutionStates =>
              /\ ValidTransition(state, "LIMIT_EXCEEDED", goal, "LIMIT_REACHED")
              /\ ValidTransition(state, "FAILED", goal, "TOOL_CALL_FAILED")
              /\ state # "APPROVED" =>
                   ValidTransition(state, "REJECTED", goal, "STATE_TRANSITION")
<1>1. \A kind \in SameStateObservations : ValidTransition(state, state, goal, kind)
  BY DEF ValidTransition
<1>2. {"INCIDENT", "TIMED_OUT", "EXPIRED", "LIMIT_EXCEEDED", "FAILED", "REJECTED"}
        \subseteq TerminalStates \ {state}
  BY DEF TerminalStates
<1>3. "INCIDENT" \in LegalTargets(state, goal)
  BY DEF LegalTargets
<1>4. state # "RECONCILING" => "TIMED_OUT" \in LegalTargets(state, goal)
  BY DEF LegalTargets
<1>5. state = "DRAFT_READY" => "EXPIRED" \in LegalTargets(state, goal)
  BY DEF LegalTargets
<1>6. state \notin AfterExecutionStates =>
        /\ "LIMIT_EXCEEDED" \in LegalTargets(state, goal)
        /\ "FAILED" \in LegalTargets(state, goal)
        /\ state # "APPROVED" => "REJECTED" \in LegalTargets(state, goal)
  BY DEF LegalTargets, AfterExecutionStates
<1>7. /\ ChangingKindFits(state, "INCIDENT", "INCIDENT_RECORDED")
      /\ ChangingKindFits(state, "INCIDENT", "TOOL_CALL_FAILED")
      /\ ChangingKindFits(state, "TIMED_OUT", "TIMEOUT_RECORDED")
      /\ ChangingKindFits(state, "EXPIRED", "TIMEOUT_RECORDED")
      /\ ChangingKindFits(state, "LIMIT_EXCEEDED", "LIMIT_REACHED")
      /\ ChangingKindFits(state, "FAILED", "TOOL_CALL_FAILED")
      /\ ChangingKindFits(state, "REJECTED", "STATE_TRANSITION")
  BY DEF ChangingKindFits
<1> QED
  BY <1>1, <1>2, <1>3, <1>4, <1>5, <1>6, <1>7 DEF ValidTransition

(* An outcome that does not move the run leaves the evidence it has.       *)
LEMMA StayProven ==
  ASSUME NEW r \in Run, Held(r), NEW e \in AgentEvent, e.kind \in ToolOutcomes,
         e.before = r.state, e.after = r.state
  PROVE  MilestoneProven(Absorb(r, e))
<1> DEFINE next == Absorb(r, e)
<1>1. /\ next.state = r.state /\ next.goal = r.goal /\ next.approved = r.approved
      /\ next.artifacts = Gathered(r, e)
  BY OutcomeLeaves
<1>2. MilestoneProven(r)
  BY DEF Held, Acceptable
<1>3. r.artifacts \subseteq next.artifacts
  BY <1>1 DEF Gathered
<1> HIDE DEF next
<1>4. MilestoneProven(next)
  BY <1>1, <1>2, <1>3 DEF MilestoneProven
<1> QED
  BY <1>4 DEF next

(* A late outcome is recorded where the run is, and the run times out.     *)
LEMMA LateStored ==
  ASSUME NEW r \in Run, Held(r), Open(r), clock \in Nat, NEW e \in AgentEvent,
         e.kind \in ToolOutcomes, e.trigger = "TOOL",
         e.before = r.state, e.after = r.state, e.at = clock,
         e.call = r.pending, Late(r.pending.tool),
         OutcomeFits(Resume(r), e),
         ~(e.artifact = "ORDER_DRAFT" /\ e.expires <= e.at)
  PROVE  Replayable(r, <<e, TimedOut(r)>>)
<1> DEFINE f == TimedOut(r)
           a == Resume(r)
           next == Absorb(r, e)
<1>1. r.state \in RunStates \ TerminalStates /\ r.pending.tool \in StageTools(r.state, r.goal)
  BY DEF Run, Open, Held, StageValid
<1>2. r.state \notin AfterExecutionStates /\ r.state # "RECONCILING"
  <2>1. r.pending.tool \notin Unhurried
    BY DEF Late
  <2> QED
    BY <1>1, <2>1, StageUnhurried DEF AfterExecutionStates
<1>3. Overdue(e) /\ clock >= Timeout /\ Timeout \in Nat
  BY LimitsAssumption DEF Late, Overdue, LimitsAssumption
<1>4. e.kind \in SameStateObservations
  BY DEF SameStateObservations
<1>5. ValidTransition(r.state, e.after, r.goal, e.kind) /\ MilestoneProven(next)
  BY <1>1, <1>4, LegalEndings, StayProven
<1>6. ReplayStep(a, e).ok
  BY <1>5, OutcomeAccepted
<1>7. /\ f.kind = "TIMEOUT_RECORDED" /\ f.trigger = "TIMEOUT" /\ f.before = r.state
      /\ f.after = "TIMED_OUT" /\ f.at = clock /\ f.artifact = None
  BY DEF TimedOut, Move, Event
<1>8. DueAfter(a, e, next) \subseteq {MustFollow("TIMEOUT_RECORDED", "TIMEOUT", "TIMED_OUT", clock)}
  <2>1. ~(e.at < Timeout)
    BY <1>3
  <2> HIDE DEF a, next
  <2> QED
    BY <1>2, <1>3, <2>1 DEF DueAfter
<1> HIDE DEF f, a, next
<1>9. f.kind \in FollowKinds /\ f.trigger \in TriggersOf(f.kind) /\ f.after \in EndingStates
  BY <1>7 DEF FollowKinds, TriggersOf, SystemKinds, SameStateObservations, ToolOutcomes,
     EndingStates
<1>10. ValidTransition(e.after, f.after, r.goal, f.kind)
  BY <1>1, <1>2, <1>7, LegalEndings
<1>11. DeadlineFits(Absorb(next, f), f) /\ LimitFits(next, f)
  BY <1>3, <1>7 DEF DeadlineFits, LimitFits
<1>12. DueAfter(a, e, next) \subseteq {MustFollow(f.kind, f.trigger, f.after, f.at)}
  BY <1>7, <1>8
<1>13. Replayable(r, <<e, f>>)
  BY <1>6, <1>7, <1>9, <1>10, <1>11, <1>12, EndingStored DEF a, next
<1> QED
  BY <1>13 DEF f

(* The event of a call that the registry rejected or that raised.          *)
ExceptionOutcome(r, c, kind, code, after) ==
  [ToolEvent(r, kind, c, after) EXCEPT !.code = code]

(* Its fields.                                                             *)
LEMMA ExceptionFields ==
  ASSUME NEW r \in Run, NEW c \in Call, NEW kind \in ToolOutcomes, NEW code \in Codes,
         NEW after \in RunStates, clock \in Nat
  PROVE  LET e == ExceptionOutcome(r, c, kind, code, after) IN
         /\ e \in AgentEvent /\ e.kind = kind /\ e.trigger = "TOOL" /\ e.before = r.state
         /\ e.after = after /\ e.at = clock /\ e.call = c /\ e.code = code
         /\ e.artifact = None /\ e.expires = None
<1> DEFINE h == ToolEvent(r, kind, c, after)
           e == [h EXCEPT !.code = code]
<1>1. h \in AgentEvent
  BY ToolEventTyped DEF SameStateObservations
<1>2. e \in AgentEvent
  BY <1>1, CodeTyped
<1>3. /\ e.kind = kind /\ e.trigger = "TOOL" /\ e.before = r.state /\ e.after = after
      /\ e.at = clock /\ e.call = c /\ e.code = code /\ e.artifact = None /\ e.expires = None
  BY DEF ToolEvent, Move, Event
<1>4. e = ExceptionOutcome(r, c, kind, code, after)
  BY DEF ExceptionOutcome
<1> HIDE DEF e
<1> QED
  BY <1>2, <1>3, <1>4

(* What the tools yield.                                                   *)
LEMMA YieldsOf ==
  /\ AllTools = {"get_market_snapshot", "validate_market_data", "detect_market_regime",
                 "rank_market_themes", "rank_theme_leaders", "rank_stock_candidates",
                 "explain_candidate", "run_backtest", "get_portfolio_snapshot",
                 "build_target_portfolio", "check_portfolio_risk", "create_order_draft",
                 "get_order_draft", "submit_paper_orders", "submit_approved_orders",
                 "reconcile_account", "generate_decision_report"}
  /\ \A tool \in AllTools : Yields[tool] \in ArtifactKinds /\ Yields[tool] # None
  /\ \A tool \in AllTools :
       Yields[tool] = "ORDER_DRAFT" <=> tool \in {"create_order_draft", "get_order_draft"}
  /\ None # "ORDER_DRAFT"
<1>1. AllTools = {"get_market_snapshot", "validate_market_data", "detect_market_regime",
                 "rank_market_themes", "rank_theme_leaders", "rank_stock_candidates",
                 "explain_candidate", "run_backtest", "get_portfolio_snapshot",
                 "build_target_portfolio", "check_portfolio_risk", "create_order_draft",
                 "get_order_draft", "submit_paper_orders", "submit_approved_orders",
                 "reconcile_account", "generate_decision_report"}
  BY DEF AllTools, CapabilityOf
<1>2. \A tool \in AllTools : Yields[tool] \in ArtifactKinds /\ Yields[tool] # None
  BY LimitsAssumption DEF ArtifactKinds, LimitsAssumption
<1>3. \A tool \in AllTools :
       Yields[tool] = "ORDER_DRAFT" <=> tool \in {"create_order_draft", "get_order_draft"}
  BY <1>1 DEF Yields
<1>4. Yields["create_order_draft"] = "ORDER_DRAFT"
  BY DEF Yields
<1>5. None # "ORDER_DRAFT"
  BY <1>1, <1>2, <1>4
<1> QED
  BY <1>1, <1>2, <1>3, <1>5

(* Such an event fits a held call: it carries no artifact.                 *)
LEMMA ExceptionFits ==
  ASSUME NEW r \in Run, Held(r), NEW e, e.call = r.pending, e.before = r.state,
         e.artifact = None,
         \/ e.kind = "TOOL_CALL_REJECTED" /\ e.after = r.state
         \/ /\ e.kind = "TOOL_CALL_FAILED"
            /\ Overdue(e) => e.after = r.state
            /\ e.after \in {r.state, "REJECTED", "DATA_INVALID", "FAILED", "INCIDENT"}
            /\ e.at < Timeout \/ r.pending.tool \in Unhurried =>
                 e.after = FailedState(r.state, r.pending.tool, e.code)
  PROVE  OutcomeFits(Resume(r), e)
<1> DEFINE a == Resume(r)
<1>1. a.run = r /\ a.strict /\ a.stageValid
  BY DEF Resume
<1>2. KeepsIdentity(r, r.pending) /\ None # "ORDER_DRAFT"
  BY YieldsOf DEF Held
<1> HIDE DEF a
<1>3. ~Succeeded(e)
  BY DEF Succeeded
<1> QED
  BY <1>1, <1>2, <1>3 DEF OutcomeFits, a

-----------------------------------------------------------------------------
(* Calls that the registry rejected or that raised.                        *)

(* A call before the deadline, or one that need not hurry, is not overdue. *)
LEMMA NotOverdue ==
  ASSUME NEW c, NEW e, e.at = clock, e.call = c, ~Late(c.tool), clock \in Nat
  PROVE  ~Overdue(e) /\ (c.tool \notin Unhurried => e.at < Timeout)
<1>1. Timeout \in Nat
  BY LimitsAssumption DEF LimitsAssumption
<1> QED
  BY <1>1 DEF Overdue, Late

(* What a held call is.                                                    *)
LEMMA HeldCall ==
  ASSUME NEW r \in Run, Held(r), Open(r)
  PROVE  /\ r.state \in RunStates \ TerminalStates /\ r.state # "APPROVED"
         /\ r.pending.tool \in StageTools(r.state, r.goal)
         /\ r.pending.tool \in Unhurried <=> r.state \in AfterExecutionStates
         /\ r.pending.tool \in ExecutionTools => r.state = "EXECUTING" /\ ~r.cancelled
         /\ r.pending.tool = "reconcile_account" => r.state = "RECONCILING"
         /\ r.state = "EXECUTING" => r.pending.tool \in ExecutionTools
         /\ r.state = "RECONCILING" => r.pending.tool = "reconcile_account"
         /\ r.cancelled => r.state \in AfterExecutionStates
         /\ r.invalid < MaxInvalidCalls
<1>1. /\ r.state \in RunStates \ TerminalStates /\ r.state # "APPROVED"
      /\ r.pending.tool \in StageTools(r.state, r.goal)
      /\ r.cancelled => r.state \in AfterExecutionStates
      /\ r.invalid < MaxInvalidCalls
  BY DEF Run, Open, Held, Acceptable, StageValid
<1>2. r.pending.tool \in ExecutionTools => ~r.cancelled
  BY DEF Held
<1>3. r.state = "EXECUTING" => r.pending.tool \in ExecutionTools
  BY <1>1 DEF StageTools, ExecutionTools
<1>4. r.state = "RECONCILING" => r.pending.tool = "reconcile_account"
  BY <1>1 DEF StageTools
<1> QED
  BY <1>1, <1>2, <1>3, <1>4, StageOfTool, StageUnhurried

(* A call that raised is recorded as an incident once the run executes,    *)
(* and as a failure before.                                                *)
LEMMA RaisedStored ==
  ASSUME NEW r \in Run, Held(r), Open(r), r.pending \in Call, clock \in Nat,
         ~Late(r.pending.tool), NEW after,
         after = IF r.state \in AfterExecutionStates THEN "INCIDENT" ELSE "FAILED"
  PROVE  Replayable(r, <<ExceptionOutcome(r, r.pending, "TOOL_CALL_FAILED", "INTERNAL", after)>>)
<1> DEFINE c == r.pending
           e == ExceptionOutcome(r, c, "TOOL_CALL_FAILED", "INTERNAL", after)
           a == Resume(r)
           next == Absorb(r, e)
<1>1. after \in RunStates /\ after \in TerminalStates /\ after \in {"INCIDENT", "FAILED"}
  BY DEF RunStates, TerminalStates
<1>2. "TOOL_CALL_FAILED" \in ToolOutcomes /\ "INTERNAL" \in Codes
  BY DEF ToolOutcomes, Codes, ResponseCodes
<1>3. /\ e \in AgentEvent /\ e.kind = "TOOL_CALL_FAILED" /\ e.trigger = "TOOL"
      /\ e.before = r.state /\ e.after = after /\ e.at = clock /\ e.call = c
      /\ e.code = "INTERNAL" /\ e.artifact = None /\ e.expires = None
  BY <1>1, <1>2, ExceptionFields
<1> HIDE DEF e
<1>4. ~Overdue(e)
  BY <1>3, NotOverdue
<1>5. after = FailedState(r.state, c.tool, "INTERNAL")
  BY HeldCall DEF FailedState
<1>6. OutcomeFits(a, e)
  BY <1>1, <1>3, <1>4, <1>5, ExceptionFits
<1>7. ValidTransition(r.state, e.after, r.goal, e.kind)
  BY <1>3, HeldCall, LegalEndings
<1>8. next.state = e.after /\ next.pending = None
  BY <1>1, <1>2, <1>3, OutcomeLeaves
<1>9. MilestoneProven(next)
  BY <1>1, <1>3, <1>8, EndingProven DEF EndingStates
<1>10. ReplayStep(a, e).ok
  BY <1>1, <1>2, <1>3, <1>6, <1>7, <1>9, OutcomeAccepted
<1> HIDE DEF next
<1>11. DueAfter(a, e, next) = {}
  <2>1. None # "ORDER_DRAFT"
    BY YieldsOf
  <2> QED
    BY <1>1, <1>3, <1>4, <2>1 DEF DueAfter
<1>12. a.run = r
  BY DEF Resume
<1>13. ReplayStep(a, e).due = {} /\ ReplayStep(a, e).run.pending = None
  BY <1>2, <1>3, <1>8, <1>11, <1>12, StepLeaves DEF next
<1> QED
  BY <1>10, <1>13, OneStored DEF e

(* The rejection of a call, with its code.                                 *)
Rejection(r, code) == ExceptionOutcome(r, r.pending, "TOOL_CALL_REJECTED", code, r.state)

(* It is accepted, and leaves the run with one more invalid call.          *)
LEMMA RejectionAccepted ==
  ASSUME NEW r \in Run, Held(r), Open(r), r.pending \in Call, clock \in Nat,
         NEW code \in Codes
  PROVE  LET e == Rejection(r, code)
             next == Absorb(r, e) IN
         /\ e \in AgentEvent /\ e.kind = "TOOL_CALL_REJECTED" /\ e.kind \in ToolOutcomes
         /\ e.trigger = "TOOL" /\ e.before = r.state /\ e.after = r.state /\ e.at = clock
         /\ e.call = r.pending /\ e.code = code /\ e.artifact = None /\ e.expires = None
         /\ OutcomeFits(Resume(r), e) /\ ReplayStep(Resume(r), e).ok
         /\ next.state = r.state /\ next.pending = None /\ next.calls = r.calls
         /\ next.invalid = r.invalid + 1
<1> DEFINE e == Rejection(r, code)
           next == Absorb(r, e)
<1>1. "TOOL_CALL_REJECTED" \in ToolOutcomes /\ "TOOL_CALL_REJECTED" \in SameStateObservations
      /\ r.state \in RunStates
  BY DEF ToolOutcomes, SameStateObservations, Run
<1>2. /\ e \in AgentEvent /\ e.kind = "TOOL_CALL_REJECTED" /\ e.trigger = "TOOL"
      /\ e.before = r.state /\ e.after = r.state /\ e.at = clock /\ e.call = r.pending
      /\ e.code = code /\ e.artifact = None /\ e.expires = None
  BY <1>1, ExceptionFields DEF Rejection
<1> HIDE DEF e
<1>3. OutcomeFits(Resume(r), e)
  BY <1>2, ExceptionFits
<1>4. ValidTransition(r.state, e.after, r.goal, e.kind)
  BY <1>1, <1>2, HeldCall, LegalEndings
<1>5. ReplayStep(Resume(r), e).ok
  BY <1>1, <1>2, <1>3, <1>4, StayProven, OutcomeAccepted
<1>6. /\ next.state = r.state /\ next.pending = None /\ next.calls = r.calls
      /\ next.invalid = r.invalid + 1
  BY <1>1, <1>2, OutcomeLeaves
<1> HIDE DEF next
<1> QED
  BY <1>1, <1>2, <1>3, <1>5, <1>6 DEF e, next

(* Past execution a rejection may end as an incident.                      *)
LEMMA IncidentFollows ==
  ASSUME NEW r \in Run, Held(r), Open(r), r.pending \in Call, clock \in Nat,
         NEW code \in Codes, r.state \in AfterExecutionStates
  PROVE  Replayable(r, <<Rejection(r, code), Move(r, "INCIDENT_RECORDED", "SYSTEM", "INCIDENT")>>)
<1> DEFINE e == Rejection(r, code)
           f == Move(r, "INCIDENT_RECORDED", "SYSTEM", "INCIDENT")
           a == Resume(r)
           next == Absorb(r, e)
<1>1. /\ e \in AgentEvent /\ e.kind = "TOOL_CALL_REJECTED" /\ e.kind \in ToolOutcomes
      /\ e.before = r.state /\ e.after = r.state /\ e.at = clock /\ e.call = r.pending
      /\ e.artifact = None /\ ReplayStep(a, e).ok
  BY RejectionAccepted
<1>2. /\ f.kind = "INCIDENT_RECORDED" /\ f.trigger = "SYSTEM" /\ f.before = r.state
      /\ f.after = "INCIDENT" /\ f.at = clock /\ f.artifact = None
  BY DEF Move, Event
<1> HIDE DEF e, f, a, next
<1>3. ~Overdue(e)
  BY <1>1, HeldCall DEF Overdue
<1>4. DueAfter(a, e, next) \subseteq {MustFollow(f.kind, f.trigger, f.after, f.at)}
  <2>1. None # "ORDER_DRAFT"
    BY YieldsOf
  <2> QED
    BY <1>1, <1>2, <1>3, <2>1 DEF DueAfter
<1>5. f.kind \in FollowKinds /\ f.trigger \in TriggersOf(f.kind) /\ f.after \in EndingStates
  BY <1>2 DEF FollowKinds, TriggersOf, SystemKinds, SameStateObservations, ToolOutcomes,
     EndingStates
<1>6. ValidTransition(e.after, f.after, r.goal, f.kind)
  BY <1>1, <1>2, HeldCall, LegalEndings
<1>7. DeadlineFits(Absorb(next, f), f) /\ LimitFits(next, f)
  BY <1>2 DEF DeadlineFits, LimitFits
<1>8. Replayable(r, <<e, f>>)
  BY <1>1, <1>2, <1>4, <1>5, <1>6, <1>7, EndingStored DEF a, next
<1> QED
  BY <1>8 DEF e, f

(* Before, one that spends the budget ends the run at its limit.           *)
LEMMA LimitFollows ==
  ASSUME NEW r \in Run, Held(r), Open(r), r.pending \in Call, clock \in Nat,
         NEW code \in Codes, r.state \notin AfterExecutionStates, ~Late(r.pending.tool),
         r.invalid + 1 >= MaxInvalidCalls \/ r.calls >= MaxToolCalls
  PROVE  Replayable(r, <<Rejection(r, code),
                         Move(r, "LIMIT_REACHED", "SYSTEM", "LIMIT_EXCEEDED")>>)
<1> DEFINE e == Rejection(r, code)
           f == Move(r, "LIMIT_REACHED", "SYSTEM", "LIMIT_EXCEEDED")
           a == Resume(r)
           next == Absorb(r, e)
<1>1. /\ e \in AgentEvent /\ e.kind = "TOOL_CALL_REJECTED" /\ e.kind \in ToolOutcomes
      /\ e.before = r.state /\ e.after = r.state /\ e.at = clock /\ e.call = r.pending
      /\ e.artifact = None /\ ReplayStep(a, e).ok
      /\ next.calls = r.calls /\ next.invalid = r.invalid + 1
  BY RejectionAccepted
<1>2. /\ f.kind = "LIMIT_REACHED" /\ f.trigger = "SYSTEM" /\ f.before = r.state
      /\ f.after = "LIMIT_EXCEEDED" /\ f.at = clock /\ f.artifact = None
  BY DEF Move, Event
<1> HIDE DEF e, f, a, next
<1>3. ~Overdue(e)
  BY <1>1, NotOverdue
<1>4. next.invalid >= MaxInvalidCalls \/ (e.before # "RECONCILING" /\ next.calls >= MaxToolCalls)
  BY <1>1 DEF AfterExecutionStates
<1>5. DueAfter(a, e, next) \subseteq {MustFollow(f.kind, f.trigger, f.after, f.at)}
  <2>1. None # "ORDER_DRAFT"
    BY YieldsOf
  <2> QED
    BY <1>1, <1>2, <1>3, <1>4, <2>1 DEF DueAfter
<1>6. f.kind \in FollowKinds /\ f.trigger \in TriggersOf(f.kind) /\ f.after \in EndingStates
  BY <1>2 DEF FollowKinds, TriggersOf, SystemKinds, SameStateObservations, ToolOutcomes,
     EndingStates
<1>7. ValidTransition(e.after, f.after, r.goal, f.kind)
  BY <1>1, <1>2, HeldCall, LegalEndings
<1>8. DeadlineFits(Absorb(next, f), f)
  BY <1>2 DEF DeadlineFits
<1>9. LimitFits(next, f)
  BY <1>1, <1>2, <1>4 DEF LimitFits
<1>10. Replayable(r, <<e, f>>)
  BY <1>1, <1>2, <1>5, <1>6, <1>7, <1>8, <1>9, EndingStored DEF a, next
<1> QED
  BY <1>10 DEF e, f

(* A denial within the budget rejects the run.                             *)
LEMMA DenialFollows ==
  ASSUME NEW r \in Run, Held(r), Open(r), r.pending \in Call, clock \in Nat,
         r.state \notin AfterExecutionStates, ~Late(r.pending.tool),
         ~(r.invalid + 1 >= MaxInvalidCalls), ~(r.calls >= MaxToolCalls)
  PROVE  Replayable(r, <<Rejection(r, "PERMISSION_DENIED"),
                         Move(r, "STATE_TRANSITION", "SYSTEM", "REJECTED")>>)
<1> DEFINE e == Rejection(r, "PERMISSION_DENIED")
           f == Move(r, "STATE_TRANSITION", "SYSTEM", "REJECTED")
           a == Resume(r)
           next == Absorb(r, e)
<1>1. /\ e \in AgentEvent /\ e.kind = "TOOL_CALL_REJECTED" /\ e.kind \in ToolOutcomes
      /\ e.before = r.state /\ e.after = r.state /\ e.at = clock /\ e.call = r.pending
      /\ e.artifact = None /\ ReplayStep(a, e).ok
      /\ next.calls = r.calls /\ next.invalid = r.invalid + 1
  <2>1. "PERMISSION_DENIED" \in Codes
    BY DEF Codes
  <2> QED
    BY <2>1, RejectionAccepted
<1>2. /\ f.kind = "STATE_TRANSITION" /\ f.trigger = "SYSTEM" /\ f.before = r.state
      /\ f.after = "REJECTED" /\ f.at = clock /\ f.artifact = None
  BY DEF Move, Event
<1> HIDE DEF e, f, a, next
<1>3. ~Overdue(e) /\ clock < Timeout
  BY <1>1, NotOverdue, HeldCall
<1>4. DueAfter(a, e, next) \subseteq {MustFollow(f.kind, f.trigger, f.after, f.at)}
  <2>1. None # "ORDER_DRAFT" /\ ~(next.invalid >= MaxInvalidCalls) /\ ~(next.calls >= MaxToolCalls)
    BY <1>1, YieldsOf
  <2> QED
    BY <1>1, <1>2, <1>3, <2>1 DEF DueAfter
<1>5. f.kind \in FollowKinds /\ f.trigger \in TriggersOf(f.kind) /\ f.after \in EndingStates
  BY <1>2 DEF FollowKinds, TriggersOf, SystemKinds, SameStateObservations, ToolOutcomes,
     EndingStates
<1>6. ValidTransition(e.after, f.after, r.goal, f.kind)
  BY <1>1, <1>2, HeldCall, LegalEndings
<1>7. DeadlineFits(Absorb(next, f), f) /\ LimitFits(next, f)
  <2>1. ~(clock >= Timeout)
    BY <1>3, LimitsAssumption DEF LimitsAssumption
  <2> QED
    BY <1>2, <2>1 DEF DeadlineFits, LimitFits
<1>8. Replayable(r, <<e, f>>)
  BY <1>1, <1>2, <1>4, <1>5, <1>6, <1>7, EndingStored DEF a, next
<1> QED
  BY <1>8 DEF e, f

(* Rejected arguments within the budget leave the run open to another try. *)
LEMMA NothingFollows ==
  ASSUME NEW r \in Run, Held(r), Open(r), r.pending \in Call, clock \in Nat,
         ~Late(r.pending.tool), ~r.cancelled,
         ~(r.invalid + 1 >= MaxInvalidCalls),
         r.state # "RECONCILING" => ~(r.calls >= MaxToolCalls)
  PROVE  Replayable(r, <<Rejection(r, "INVALID_ARGUMENTS")>>)
<1> DEFINE e == Rejection(r, "INVALID_ARGUMENTS")
           a == Resume(r)
           next == Absorb(r, e)
<1>1. /\ e \in AgentEvent /\ e.kind = "TOOL_CALL_REJECTED" /\ e.kind \in ToolOutcomes
      /\ e.before = r.state /\ e.after = r.state /\ e.at = clock /\ e.call = r.pending
      /\ e.code = "INVALID_ARGUMENTS" /\ e.artifact = None /\ ReplayStep(a, e).ok
      /\ next.calls = r.calls /\ next.invalid = r.invalid + 1 /\ next.pending = None
  <2>1. "INVALID_ARGUMENTS" \in Codes
    BY DEF Codes
  <2> QED
    BY <2>1, RejectionAccepted
<1>2. a.run = r /\ a.strict /\ a.stageValid
  BY DEF Resume
<1> HIDE DEF e, a, next
<1>3. ~Overdue(e) /\ SafeArguments(a, e)
  BY <1>1, <1>2, NotOverdue DEF SafeArguments
<1>4. DueAfter(a, e, next) = {}
  <2>1. None # "ORDER_DRAFT" /\ ~(next.invalid >= MaxInvalidCalls)
        /\ (r.state # "RECONCILING" => ~(next.calls >= MaxToolCalls))
    BY <1>1, YieldsOf
  <2> QED
    BY <1>1, <1>3, <2>1 DEF DueAfter
<1>5. ReplayStep(a, e).due = {} /\ ReplayStep(a, e).run.pending = None
  BY <1>1, <1>2, <1>4, StepLeaves DEF next
<1>6. Replayable(r, <<e>>)
  BY <1>1, <1>5, OneStored DEF a
<1> QED
  BY <1>6 DEF e

(* The code a rejected or raised call is recorded with.                    *)
ExceptionCode(answer) ==
  CASE answer.kind = "denied"    -> "PERMISSION_DENIED"
    [] answer.kind = "arguments" -> "INVALID_ARGUMENTS"
    [] answer.kind = "raised"    -> "INTERNAL"

(* A late call that was rejected or that raised lets the run time out.     *)
LEMMA LateExceptionStored ==
  ASSUME NEW r \in Run, Held(r), Open(r), r.pending \in Call, clock \in Nat,
         NEW answer, answer.kind \in {"denied", "arguments", "raised"}, Late(r.pending.tool)
  PROVE  Replayable(r, ExceptionEvents(r, r.pending, answer))
<1> DEFINE kind == IF answer.kind # "raised" THEN "TOOL_CALL_REJECTED" ELSE "TOOL_CALL_FAILED"
           e == ExceptionOutcome(r, r.pending, kind, ExceptionCode(answer), r.state)
<1>1. kind \in {"TOOL_CALL_REJECTED", "TOOL_CALL_FAILED"} /\ kind \in ToolOutcomes
      /\ ExceptionCode(answer) \in Codes /\ r.state \in RunStates
  BY DEF ToolOutcomes, ExceptionCode, Codes, ResponseCodes, Run
<1>2. ExceptionEvents(r, r.pending, answer) = <<e, TimedOut(r)>>
  BY DEF ExceptionEvents, ExceptionOutcome, ExceptionCode
<1> HIDE DEF kind
<1>3. /\ e \in AgentEvent /\ e.kind = kind /\ e.trigger = "TOOL" /\ e.before = r.state
      /\ e.after = r.state /\ e.at = clock /\ e.call = r.pending
      /\ e.artifact = None /\ e.expires = None
  BY <1>1, ExceptionFields
<1> HIDE DEF e
<1>4. ~(e.at < Timeout) /\ r.pending.tool \notin Unhurried
  <2>1. Timeout \in Nat /\ clock >= Timeout /\ r.pending.tool \notin Unhurried
    BY LimitsAssumption DEF LimitsAssumption, Late
  <2> QED
    BY <1>3, <2>1
<1>5. OutcomeFits(Resume(r), e)
  BY <1>1, <1>3, <1>4, ExceptionFits
<1>6. None # "ORDER_DRAFT"
  BY YieldsOf
<1>7. Replayable(r, <<e, TimedOut(r)>>)
  BY <1>1, <1>3, <1>5, <1>6, LateStored
<1> QED
  BY <1>2, <1>7

(* A call that raised in time.                                             *)
LEMMA RaiseStored ==
  ASSUME NEW r \in Run, Held(r), Open(r), r.pending \in Call, clock \in Nat,
         NEW answer, answer.kind = "raised", ~Late(r.pending.tool)
  PROVE  Replayable(r, ExceptionEvents(r, r.pending, answer))
<1> DEFINE after == IF r.state \in AfterExecutionStates THEN "INCIDENT" ELSE "FAILED"
<1>1. ExceptionTarget(r, r.pending, answer) = after
  BY DEF ExceptionTarget
<1>2. ExceptionEvents(r, r.pending, answer) =
        <<ExceptionOutcome(r, r.pending, "TOOL_CALL_FAILED", "INTERNAL", after)>>
  BY <1>1 DEF ExceptionEvents, ExceptionOutcome
<1>3. Replayable(r, <<ExceptionOutcome(r, r.pending, "TOOL_CALL_FAILED", "INTERNAL", after)>>)
  BY RaisedStored
<1> QED
  BY <1>2, <1>3

(* The events of a call that was rejected in time.                         *)
LEMMA RejectionShape ==
  ASSUME NEW r \in Run, Open(r), ~Late(r.pending.tool),
         NEW answer, answer.kind \in {"denied", "arguments"}
  PROVE  LET e == Rejection(r, ExceptionCode(answer))
             exhausted == \/ r.invalid + 1 >= MaxInvalidCalls
                          \/ /\ answer.kind = "arguments" /\ r.state # "RECONCILING"
                             /\ r.calls >= MaxToolCalls
             events == ExceptionEvents(r, r.pending, answer) IN
         /\ exhausted => events = <<e, Stop(r)>>
         /\ ~exhausted /\ answer.kind = "arguments" => events = <<e>>
         /\ ~exhausted /\ answer.kind = "denied" =>
              events = <<e, IF r.state \in AfterExecutionStates
                            THEN Move(r, "INCIDENT_RECORDED", "SYSTEM", "INCIDENT")
                            ELSE Move(r, "STATE_TRANSITION", "SYSTEM", "REJECTED")>>
<1> DEFINE e == Rejection(r, ExceptionCode(answer))
           exhausted == \/ r.invalid + 1 >= MaxInvalidCalls
                        \/ /\ answer.kind = "arguments" /\ r.state # "RECONCILING"
                           /\ r.calls >= MaxToolCalls
           events == ExceptionEvents(r, r.pending, answer)
           target == ExceptionTarget(r, r.pending, answer)
           incident == Move(r, "INCIDENT_RECORDED", "SYSTEM", "INCIDENT")
           reject == Move(r, "STATE_TRANSITION", "SYSTEM", "REJECTED")
<1>1. /\ answer.kind = "arguments" => target = r.state
      /\ answer.kind = "denied" =>
           target = IF r.state \in AfterExecutionStates THEN "INCIDENT" ELSE "REJECTED"
  BY DEF ExceptionTarget
<1>2. r.state # "INCIDENT" /\ r.state # "REJECTED"
  BY DEF Open, TerminalStates
<1>3. e = [ToolEvent(r, "TOOL_CALL_REJECTED", r.pending, r.state) EXCEPT
             !.code = ExceptionCode(answer)]
  BY DEF Rejection, ExceptionOutcome
<1> DEFINE spent == \/ answer.kind # "raised" /\ r.invalid + 1 >= MaxInvalidCalls
                    \/ target = r.state /\ r.state # "RECONCILING" /\ r.calls >= MaxToolCalls
<1>4. events = <<e>> \o
         (CASE spent                              -> <<Stop(r)>>
            [] ~spent /\ target = r.state         -> <<>>
            [] ~spent /\ target = "INCIDENT"      -> <<incident>>
            [] ~spent /\ target = "REJECTED"      -> <<reject>>)
  BY <1>3 DEF ExceptionEvents, ExceptionCode
<1>5. spent <=> exhausted
  BY <1>1, <1>2
<1> HIDE DEF e, exhausted, events, target, incident, reject, spent
<1>6. exhausted => events = <<e, Stop(r)>>
  BY <1>4, <1>5, TwoOfOnes
<1>7. ~exhausted /\ answer.kind = "arguments" => events = <<e>>
  <2>1. <<e>> \o <<>> = <<e>>
    OBVIOUS
  <2> QED
    BY <1>1, <1>2, <1>4, <1>5, <2>1
<1>8. ~exhausted /\ answer.kind = "denied" =>
        events = <<e, IF r.state \in AfterExecutionStates THEN incident ELSE reject>>
  <2>1. <<e>> \o <<incident>> = <<e, incident>> /\ <<e>> \o <<reject>> = <<e, reject>>
    BY TwoOfOnes
  <2> QED
    BY <1>1, <1>2, <1>4, <1>5, <2>1
<1> QED
  BY <1>6, <1>7, <1>8 DEF e, exhausted, events, incident, reject

(* Where a call led that the registry rejected or that raised can be       *)
(* stored, but for a cancelled reconciliation whose arguments are rejected *)
(* and a denial of the last call of the budget.                            *)
LEMMA ExceptionStored ==
  ASSUME NEW r \in Run, Held(r), Open(r), r.pending \in Call, clock \in Nat,
         NEW answer, answer.kind \in {"denied", "arguments", "raised"},
         ~(r.pending.tool = "reconcile_account" /\ answer.kind = "arguments" /\ r.cancelled),
         ~(/\ answer.kind = "denied" /\ r.calls >= MaxToolCalls
           /\ r.invalid + 1 < MaxInvalidCalls /\ r.state \notin AfterExecutionStates
           /\ ~Late(r.pending.tool))
  PROVE  Replayable(r, ExceptionEvents(r, r.pending, answer))
<1>1. CASE Late(r.pending.tool)
  BY <1>1, LateExceptionStored
<1>2. CASE ~Late(r.pending.tool) /\ answer.kind = "raised"
  BY <1>2, RaiseStored
<1>3. CASE ~Late(r.pending.tool) /\ answer.kind # "raised"
  <2> DEFINE code == ExceptionCode(answer)
             exhausted == \/ r.invalid + 1 >= MaxInvalidCalls
                          \/ /\ answer.kind = "arguments" /\ r.state # "RECONCILING"
                             /\ r.calls >= MaxToolCalls
             events == ExceptionEvents(r, r.pending, answer)
  <2>1. answer.kind \in {"denied", "arguments"}
    BY <1>3
  <2>2. code \in Codes /\ (answer.kind = "denied" => code = "PERMISSION_DENIED")
        /\ (answer.kind = "arguments" => code = "INVALID_ARGUMENTS")
    BY <2>1 DEF ExceptionCode, Codes
  <2>3. /\ exhausted => events = <<Rejection(r, code), Stop(r)>>
        /\ ~exhausted /\ answer.kind = "arguments" => events = <<Rejection(r, code)>>
        /\ ~exhausted /\ answer.kind = "denied" =>
             events = <<Rejection(r, code),
                        IF r.state \in AfterExecutionStates
                        THEN Move(r, "INCIDENT_RECORDED", "SYSTEM", "INCIDENT")
                        ELSE Move(r, "STATE_TRANSITION", "SYSTEM", "REJECTED")>>
    BY <1>3, <2>1, RejectionShape
  <2>4. CASE r.state \in AfterExecutionStates /\ (exhausted \/ answer.kind = "denied")
    <3>1. Stop(r) = Move(r, "INCIDENT_RECORDED", "SYSTEM", "INCIDENT")
      BY <2>4 DEF Stop
    <3>2. events = <<Rejection(r, code), Move(r, "INCIDENT_RECORDED", "SYSTEM", "INCIDENT")>>
      BY <2>3, <2>4, <3>1
    <3> HIDE DEF events, code
    <3>3. Replayable(r, events)
      BY <2>2, <2>4, <3>2, IncidentFollows
    <3> QED
      BY <3>3 DEF events
  <2>5. CASE r.state \notin AfterExecutionStates /\ exhausted
    <3>1. Stop(r) = Move(r, "LIMIT_REACHED", "SYSTEM", "LIMIT_EXCEEDED")
      BY <2>5 DEF Stop
    <3>2. events = <<Rejection(r, code), Move(r, "LIMIT_REACHED", "SYSTEM", "LIMIT_EXCEEDED")>>
      BY <2>3, <2>5, <3>1
    <3>3. r.invalid + 1 >= MaxInvalidCalls \/ r.calls >= MaxToolCalls
      BY <2>5
    <3> HIDE DEF events, code, exhausted
    <3>4. Replayable(r, events)
      BY <1>3, <2>2, <2>5, <3>2, <3>3, LimitFollows
    <3> QED
      BY <3>4 DEF events
  <2>6. CASE r.state \notin AfterExecutionStates /\ ~exhausted /\ answer.kind = "denied"
    <3>1. ~(r.invalid + 1 >= MaxInvalidCalls) /\ ~(r.calls >= MaxToolCalls)
      <4>1. r.invalid \in Nat /\ MaxInvalidCalls \in Nat
        BY LimitsAssumption DEF Run, LimitsAssumption
      <4> QED
        BY <1>3, <2>6, <4>1
    <3>2. events = <<Rejection(r, "PERMISSION_DENIED"),
                     Move(r, "STATE_TRANSITION", "SYSTEM", "REJECTED")>>
      BY <2>2, <2>3, <2>6
    <3> HIDE DEF events, code, exhausted
    <3>3. Replayable(r, events)
      BY <1>3, <2>6, <3>1, <3>2, DenialFollows
    <3> QED
      BY <3>3 DEF events
  <2>7. CASE ~exhausted /\ answer.kind = "arguments"
    <3>1. events = <<Rejection(r, "INVALID_ARGUMENTS")>>
      BY <2>2, <2>3, <2>7
    <3>2. /\ ~(r.invalid + 1 >= MaxInvalidCalls)
          /\ r.state # "RECONCILING" => ~(r.calls >= MaxToolCalls)
      BY <2>7
    <3>3. r.cancelled \in BOOLEAN
      BY DEF Run
    <3> HIDE DEF events, code, exhausted
    <3>4. ~r.cancelled
      <4>1. CASE r.state \in AfterExecutionStates
        BY <2>7, <4>1, HeldCall DEF AfterExecutionStates
      <4>2. CASE r.state \notin AfterExecutionStates
        BY <4>2, HeldCall
      <4> QED
        BY <4>1, <4>2
    <3>5. Replayable(r, events)
      BY <1>3, <3>1, <3>2, <3>4, NothingFollows
    <3> QED
      BY <3>5 DEF events
  <2> QED
    BY <2>1, <2>4, <2>5, <2>6, <2>7
<1> QED
  BY <1>1, <1>2, <1>3

-----------------------------------------------------------------------------
(* Calls that were answered.                                               *)

(* The fields of a response's event.                                       *)
LEMMA ResponseFields ==
  ASSUME NEW r \in Run, NEW c \in Call, NEW answer \in Answer, NEW after \in RunStates,
         clock \in Nat
  PROVE  LET e == ResponseOutcome(r, c, answer, after) IN
         /\ e \in AgentEvent /\ e.kind = ResponseKind(answer) /\ e.trigger = "TOOL"
         /\ e.before = r.state /\ e.after = after /\ e.at = clock /\ e.call = c
         /\ answer.kind = "failed" => e.code = answer.code
         /\ e.artifact = IF answer.kind = "ok" /\ Yields[c.tool] \notin r.artifacts
                         THEN Yields[c.tool] ELSE None
         /\ e.expires = IF answer.kind = "ok" /\ c.tool = "create_order_draft"
                        THEN answer.expires ELSE None
<1> DEFINE code == IF answer.kind = "failed" THEN answer.code ELSE None
           artifact == IF answer.kind = "ok" /\ Yields[c.tool] \notin r.artifacts
                       THEN Yields[c.tool] ELSE None
           expires == IF answer.kind = "ok" /\ c.tool = "create_order_draft"
                      THEN answer.expires ELSE None
           e == [ToolEvent(r, ResponseKind(answer), c, after)
                         EXCEPT !.code = code, !.artifact = artifact, !.expires = expires]
<1>1. e = ResponseOutcome(r, c, answer, after)
  BY DEF ResponseOutcome
<1>2. e \in AgentEvent
  <2>1. after \in RunStates \cap RunStates
    OBVIOUS
  <2>2. ResponseOutcome(r, c, answer, after) \in Into(RunStates)
    BY <2>1, OutcomeInto
  <2> HIDE DEF e
  <2> QED
    BY <1>1, <2>2 DEF Into
<1>3. answer.kind = "failed" => code = answer.code
  OBVIOUS
<1> HIDE DEF code, artifact, expires
<1>4. /\ e.kind = ResponseKind(answer) /\ e.trigger = "TOOL"
      /\ e.before = r.state /\ e.after = after /\ e.at = clock /\ e.call = c
      /\ e.code = code /\ e.artifact = artifact /\ e.expires = expires
  BY DEF ToolEvent, Move, Event
<1> HIDE DEF e
<1>5. /\ artifact = IF answer.kind = "ok" /\ Yields[c.tool] \notin r.artifacts
                    THEN Yields[c.tool] ELSE None
      /\ expires = IF answer.kind = "ok" /\ c.tool = "create_order_draft"
                   THEN answer.expires ELSE None
  BY DEF artifact, expires
<1> QED
  BY <1>1, <1>2, <1>3, <1>4, <1>5

(* Where a response leads: a failure to where it is or to an end, a success*)
(* by its tool.                                                            *)
LEMMA ResponseLeads ==
  ASSUME NEW r \in Run, NEW tool, NEW answer \in Answer, answer.kind \in {"ok", "failed"},
         NEW after, after = ResponseTarget(r, tool, answer)
  PROVE  /\ answer.kind = "failed" =>
              after \in {r.state, "REJECTED", "DATA_INVALID", "FAILED", "INCIDENT"}
         /\ answer.kind = "failed" /\ tool \in Unhurried => after = "INCIDENT"
         /\ answer.kind = "ok" /\ tool \in ExecutionTools => after = "RECONCILING"
         /\ answer.kind = "ok" /\ tool = "reconcile_account" => after \in {"COMPLETED", "INCIDENT"}
         /\ answer.kind = "ok" /\ tool = "create_order_draft" => after = "DRAFT_READY"
         /\ after \in {"PENDING_APPROVAL", "EXECUTING"} => after = r.state
         /\ after = "RECONCILING" => tool \in ExecutionTools \/ after = r.state
<1>1. CASE answer.kind = "ok"
  <2>1. answer.verdict \in {"accepted", "rejected", "error"}
    BY <1>1, AnswerKinds DEF Verdict
  <2>2. after = SuccessTarget(r, tool, answer.verdict)
    BY <1>1 DEF ResponseTarget
  <2>3. tool \in ExecutionTools => after = "RECONCILING"
    BY <2>2 DEF SuccessTarget, ResearchTools, ExecutionTools
  <2>4. tool = "reconcile_account" => after \in {"COMPLETED", "INCIDENT"}
    BY <2>2 DEF SuccessTarget, ResearchTools, ExecutionTools
  <2>5. tool = "create_order_draft" => after = "DRAFT_READY"
    BY <2>2 DEF SuccessTarget, ResearchTools, ExecutionTools
  <2>6. /\ after \in {"PENDING_APPROVAL", "EXECUTING"} => after = r.state
        /\ after = "RECONCILING" => tool \in ExecutionTools \/ after = r.state
    BY <2>1, <2>2 DEF SuccessTarget
  <2> QED
    BY <1>1, <2>3, <2>4, <2>5, <2>6
<1>2. CASE answer.kind = "failed"
  <2>1. after = FailedState(r.state, tool, answer.code)
    BY <1>2 DEF ResponseTarget
  <2> QED
    BY <1>2, <2>1 DEF FailedState
<1> QED
  BY <1>1, <1>2

(* Only a new draft is yielded as one, and its expiry comes with it.       *)
LEMMA NewDraft ==
  ASSUME NEW r \in Run, Held(r), r.pending \in Call, NEW answer \in Answer,
         Yields[r.pending.tool] = "ORDER_DRAFT", "ORDER_DRAFT" \notin r.artifacts
  PROVE  r.pending.tool = "create_order_draft"
<1>1. r.pending.tool \in AllTools
  BY DEF Call
<1>2. r.pending.tool \in {"create_order_draft", "get_order_draft"}
  BY <1>1, YieldsOf
<1>3. r.pending.tool \notin BatchTools
  BY DEF Held, StageValid
<1> QED
  BY <1>2, <1>3 DEF BatchTools

(* The event of a response, late or in time, fits the held call.           *)
LEMMA ResponseFits ==
  ASSUME NEW r \in Run, Held(r), r.pending \in Call, clock \in Nat,
         NEW answer \in Answer, answer.kind \in {"ok", "failed"}, NEW after \in RunStates,
         after = IF Late(r.pending.tool) THEN r.state
                 ELSE ResponseTarget(r, r.pending.tool, answer)
  PROVE  OutcomeFits(Resume(r), ResponseOutcome(r, r.pending, answer, after))
<1> DEFINE a == Resume(r)
           e == ResponseOutcome(r, r.pending, answer, after)
           tool == r.pending.tool
<1>1. /\ e.kind = ResponseKind(answer)
      /\ e.before = r.state /\ e.after = after /\ e.at = clock /\ e.call = r.pending
      /\ answer.kind = "failed" => e.code = answer.code
      /\ e.artifact = IF answer.kind = "ok" /\ Yields[tool] \notin r.artifacts
                      THEN Yields[tool] ELSE None
      /\ e.expires = IF answer.kind = "ok" /\ tool = "create_order_draft"
                     THEN answer.expires ELSE None
  BY ResponseFields
<1>2. a.run = r /\ a.strict /\ a.stageValid /\ KeepsIdentity(r, r.pending)
  BY DEF Resume, Held
<1>3. /\ answer.kind = "ok" => e.kind = "TOOL_CALL_SUCCEEDED"
      /\ answer.kind = "failed" => e.kind = "TOOL_CALL_FAILED"
      /\ Succeeded(e) <=> answer.kind = "ok"
  BY <1>1 DEF ResponseKind, Succeeded
<1>4. tool \in AllTools /\ Yields[tool] # None /\ None # "ORDER_DRAFT"
  BY YieldsOf DEF Call
<1> HIDE DEF a, e
<1>5. /\ Overdue(e) <=> Late(tool)
      /\ e.at < Timeout \/ tool \in Unhurried => ~Late(tool)
  BY <1>1, LimitsAssumption DEF Overdue, Late, LimitsAssumption
<1>6. tool \in Unhurried => ~Late(tool)
  BY DEF Late
<1>7. e.kind = "TOOL_CALL_FAILED" =>
       /\ e.after \in {e.before, "REJECTED", "DATA_INVALID", "FAILED", "INCIDENT"}
       /\ e.at < Timeout \/ tool \in Unhurried =>
            e.after = FailedState(r.state, tool, e.code)
  <2> SUFFICES ASSUME e.kind = "TOOL_CALL_FAILED"
               PROVE  /\ e.after \in {e.before, "REJECTED", "DATA_INVALID", "FAILED", "INCIDENT"}
                      /\ e.at < Timeout \/ tool \in Unhurried =>
                           e.after = FailedState(r.state, tool, e.code)
    OBVIOUS
  <2>1. answer.kind = "failed"
    BY <1>3
  <2>2. ~Late(tool) => e.after = FailedState(r.state, tool, e.code)
    BY <1>1, <2>1 DEF ResponseTarget
  <2>3. e.after \in {e.before, "REJECTED", "DATA_INVALID", "FAILED", "INCIDENT"}
    BY <1>1, <2>1, ResponseLeads
  <2> QED
    BY <1>5, <2>2, <2>3
<1>8. Succeeded(e) =>
       /\ tool \in ExecutionTools => e.after = "RECONCILING"
       /\ tool = "reconcile_account" => e.after \in {"COMPLETED", "INCIDENT"}
       /\ e.artifact # None \/ Yields[tool] \in r.artifacts
  BY <1>1, <1>3, <1>4, <1>6, ResponseLeads DEF Unhurried
<1>9. e.artifact # None => Succeeded(e) /\ e.artifact = Yields[tool]
  BY <1>1, <1>3
<1>10. e.artifact = "ORDER_DRAFT" => e.expires # None
  <2> SUFFICES ASSUME e.artifact = "ORDER_DRAFT" PROVE e.expires # None
    OBVIOUS
  <2>1. answer.kind = "ok" /\ Yields[tool] = "ORDER_DRAFT" /\ "ORDER_DRAFT" \notin r.artifacts
    BY <1>1, <1>4
  <2>2. tool = "create_order_draft"
    BY <2>1, NewDraft
  <2>3. answer.expires \in Nat
    BY <2>1, AnswerKinds
  <2> QED
    BY <1>1, <2>1, <2>2, <2>3, LimitsAssumption DEF LimitsAssumption
<1>11. OutcomeFits(a, e)
  BY <1>1, <1>2, <1>3, <1>5, <1>7, <1>8, <1>9, <1>10 DEF OutcomeFits
<1> QED
  BY <1>11 DEF a, e

(* A stage that a successful call enters is proven by what it yields.      *)
LEMMA TargetProven ==
  ASSUME NEW r \in Run, NEW tool \in StageTools(r.state, r.goal), tool \in AllTools,
         NEW verdict \in Verdict, NEW after, after = SuccessTarget(r, tool, verdict),
         after # r.state, after \in ProvenStates
  PROVE  Yields[tool] \in Proof(after, r.goal)
<1>1. verdict \in {"accepted", "rejected", "error"} /\ r.state \in RunStates
  BY DEF Verdict, Run
<1>2. after \notin {"DATA_INVALID", "REJECTED", "INCIDENT"}
  BY DEF ProvenStates, AuthorisedStates
<1>3. CASE tool \in ResearchTools
  <2>1. after = "ANALYZED" /\ (r.goal = "MARKET_RESEARCH" \/ tool = "rank_stock_candidates")
    BY <1>3 DEF SuccessTarget, ResearchTools, ExecutionTools
  <2>2. CASE r.goal = "MARKET_RESEARCH"
    BY <1>3, <2>1, <2>2 DEF Proof, AuthorisedStates, ResearchArtifacts
  <2>3. CASE r.goal # "MARKET_RESEARCH"
    <3>1. tool = "rank_stock_candidates"
      BY <2>1, <2>3
    <3>2. r.goal # "BACKTEST_REPORT"
      BY <3>1 DEF StageTools, ResearchTools
    <3>3. Yields[tool] = "STOCK_CANDIDATES"
      BY <3>1 DEF Yields
    <3> QED
      BY <2>1, <2>3, <3>2, <3>3 DEF Proof, AuthorisedStates
  <2> QED
    BY <2>2, <2>3
<1>4. CASE tool = "run_backtest"
  <2>1. after = "ANALYZED" /\ Yields[tool] = "BACKTEST_REPORT"
    BY <1>4 DEF SuccessTarget, ResearchTools, ExecutionTools, Yields
  <2>2. r.goal = "BACKTEST_REPORT"
    BY <1>4 DEF StageTools, ResearchTools
  <2> QED
    BY <2>1, <2>2 DEF Proof, AuthorisedStates
<1>5. CASE tool = "validate_market_data"
  <2>1. after = "DATA_VALIDATED" /\ Yields[tool] = "DATA_QUALITY"
    BY <1>2, <1>5 DEF SuccessTarget, ResearchTools, ExecutionTools, Yields
  <2> QED
    BY <2>1 DEF Proof, AuthorisedStates
<1>6. CASE tool = "build_target_portfolio"
  <2>1. after = "PORTFOLIO_READY" /\ Yields[tool] = "TARGET_PORTFOLIO"
    BY <1>6 DEF SuccessTarget, ResearchTools, ExecutionTools, Yields
  <2> QED
    BY <2>1 DEF Proof, AuthorisedStates
<1>7. CASE tool = "check_portfolio_risk"
  <2>1. after = "RISK_CHECKED" /\ Yields[tool] = "RISK_CHECK"
    BY <1>1, <1>2, <1>7 DEF SuccessTarget, ResearchTools, ExecutionTools, Yields
  <2> QED
    BY <2>1 DEF Proof, AuthorisedStates
<1>8. CASE tool = "create_order_draft"
  <2>1. after = "DRAFT_READY" /\ Yields[tool] = "ORDER_DRAFT"
    BY <1>8 DEF SuccessTarget, ResearchTools, ExecutionTools, Yields
  <2> QED
    BY <2>1 DEF Proof, AuthorisedStates
<1>9. CASE tool \in ExecutionTools
  <2>1. after = "RECONCILING" /\ Yields[tool] = "EXECUTION_RECEIPT"
    BY <1>9 DEF SuccessTarget, ResearchTools, ExecutionTools, Yields
  <2> QED
    BY <2>1 DEF Proof, AuthorisedStates
<1>10. CASE tool = "reconcile_account"
  <2>1. after = "COMPLETED" /\ Yields[tool] = "RECONCILIATION"
    BY <1>2, <1>10 DEF SuccessTarget, ResearchTools, ExecutionTools, Yields
  <2> QED
    BY <2>1 DEF Proof, AuthorisedStates
<1>11. CASE tool = "generate_decision_report"
  <2>1. after = "REPORTED" /\ Yields[tool] = "DECISION_REPORT"
    BY <1>11 DEF SuccessTarget, ResearchTools, ExecutionTools, Yields
  <2> QED
    BY <2>1 DEF Proof, AuthorisedStates
<1>12. CASE tool \in {"get_market_snapshot", "get_portfolio_snapshot", "get_order_draft"}
  <2>1. after = r.state
    BY <1>12 DEF SuccessTarget, ResearchTools, ExecutionTools
  <2> QED
    BY <2>1
<1> QED
  BY <1>3, <1>4, <1>5, <1>6, <1>7, <1>8, <1>9, <1>10, <1>11, <1>12, YieldsOf
     DEF ResearchTools, ExecutionTools

(* The outcome of a response in time, where it leads.                      *)
Reply(r, answer) ==
  ResponseOutcome(r, r.pending, answer, ResponseTarget(r, r.pending.tool, answer))

(* Its fields.                                                             *)
LEMMA ReplyFields ==
  ASSUME NEW r \in Run, r.pending \in Call, NEW answer \in Answer,
         answer.kind \in {"ok", "failed"}, clock \in Nat
  PROVE  LET e == Reply(r, answer) IN
         /\ e \in AgentEvent /\ e.trigger = "TOOL" /\ e.kind \in ToolOutcomes
         /\ e.kind = ResponseKind(answer) /\ e.kind # "TOOL_CALL_REJECTED"
         /\ e.before = r.state /\ e.after = ResponseTarget(r, r.pending.tool, answer)
         /\ e.at = clock /\ e.call = r.pending
         /\ e.artifact = IF answer.kind = "ok" /\ Yields[r.pending.tool] \notin r.artifacts
                         THEN Yields[r.pending.tool] ELSE None
         /\ e.expires = IF answer.kind = "ok" /\ r.pending.tool = "create_order_draft"
                        THEN answer.expires ELSE None
         /\ e.after \in {"PENDING_APPROVAL", "EXECUTING"} => e.after = r.state
<1> DEFINE e == Reply(r, answer)
           after == ResponseTarget(r, r.pending.tool, answer)
<1>1. after \in RunStates
  BY ResponseTargetTyped
<1>2. ResponseKind(answer) \in ToolOutcomes /\ ResponseKind(answer) # "TOOL_CALL_REJECTED"
  BY DEF ResponseKind, ToolOutcomes
<1>3. after \in {"PENDING_APPROVAL", "EXECUTING"} => after = r.state
  BY ResponseLeads
<1>4. e = ResponseOutcome(r, r.pending, answer, after)
  BY DEF Reply
<1> HIDE DEF e, after
<1>5. /\ e \in AgentEvent /\ e.kind = ResponseKind(answer) /\ e.trigger = "TOOL"
      /\ e.before = r.state /\ e.after = after /\ e.at = clock /\ e.call = r.pending
      /\ e.artifact = IF answer.kind = "ok" /\ Yields[r.pending.tool] \notin r.artifacts
                      THEN Yields[r.pending.tool] ELSE None
      /\ e.expires = IF answer.kind = "ok" /\ r.pending.tool = "create_order_draft"
                     THEN answer.expires ELSE None
  BY <1>1, <1>4, ResponseFields
<1> QED
  BY <1>2, <1>3, <1>5 DEF e, after

(* It leaves a run that holds the evidence of the stage it reached.        *)
LEMMA ReplyProven ==
  ASSUME NEW r \in Run, Held(r), Open(r), r.pending \in Call, NEW answer \in Answer,
         answer.kind \in {"ok", "failed"}, clock \in Nat
  PROVE  MilestoneProven(Absorb(r, Reply(r, answer)))
<1> DEFINE e == Reply(r, answer)
           next == Absorb(r, e)
           tool == r.pending.tool
           after == ResponseTarget(r, tool, answer)
<1>1. /\ e \in AgentEvent /\ e.kind \in ToolOutcomes /\ e.before = r.state /\ e.after = after
      /\ e.artifact = IF answer.kind = "ok" /\ Yields[tool] \notin r.artifacts
                      THEN Yields[tool] ELSE None
      /\ e.after \in {"PENDING_APPROVAL", "EXECUTING"} => e.after = r.state
  BY ReplyFields
<1> HIDE DEF e
<1>2. /\ next.state = after /\ next.goal = r.goal /\ next.approved = r.approved
      /\ next.artifacts = Gathered(r, e)
  BY <1>1, OutcomeLeaves
<1>3. tool \in AllTools /\ Yields[tool] # None /\ tool \in StageTools(r.state, r.goal)
  BY YieldsOf DEF Call, Held, StageValid
<1>4. CASE after = r.state
  <2>1. e.after = r.state
    BY <1>1, <1>4
  <2> HIDE DEF after
  <2> QED
    BY <1>1, <2>1, StayProven DEF e
<1>5. CASE after # r.state /\ answer.kind = "failed"
  <2>1. after \in {"REJECTED", "DATA_INVALID", "FAILED", "INCIDENT"}
    BY <1>5, ResponseLeads
  <2> HIDE DEF after, next
  <2>2. MilestoneProven(next)
    BY <1>2, <2>1, EndingProven DEF EndingStates
  <2> QED
    BY <2>2 DEF next, e
<1>6. CASE after # r.state /\ answer.kind = "ok"
  <2>1. answer.verdict \in Verdict
    BY <1>6, AnswerKinds
  <2>2. after = SuccessTarget(r, tool, answer.verdict)
    BY <1>6 DEF ResponseTarget
  <2> HIDE DEF after
  <2>3. after \in ProvenStates => Yields[tool] \in Proof(after, r.goal)
    BY <1>3, <1>6, <2>1, <2>2, TargetProven
  <2>4. Yields[tool] \in next.artifacts
    BY <1>1, <1>2, <1>3, <1>6 DEF Gathered
  <2>5. after \in {"APPROVED", "COMPLETED"} \cup AfterExecutionStates
          => r.state \in AfterExecutionStates
    <3>1. after # "APPROVED"
      BY <2>1, <2>2, <1>6 DEF SuccessTarget, Verdict
    <3>2. after = "COMPLETED" => tool = "reconcile_account"
      BY <2>1, <2>2, <1>6, HeldCall DEF SuccessTarget, Verdict, TerminalStates
    <3>3. after = "RECONCILING" => tool \in ExecutionTools
      BY <1>6, ResponseLeads DEF after
    <3>4. after # "EXECUTING"
      BY <1>6, ResponseLeads DEF after
    <3> QED
      BY <3>1, <3>2, <3>3, <3>4, HeldCall DEF AfterExecutionStates
  <2>6. MilestoneProven(r)
    BY DEF Held, Acceptable
  <2>7. after \in {"APPROVED", "COMPLETED"} \cup AfterExecutionStates
        /\ r.goal = "LIVE_ASSISTED_EXECUTION" => r.approved
    BY <2>5, <2>6 DEF MilestoneProven
  <2> HIDE DEF next
  <2>8. MilestoneProven(next)
    BY <1>2, <2>3, <2>4, <2>7 DEF MilestoneProven
  <2> QED
    BY <2>8 DEF next, e
<1> QED
  BY <1>4, <1>5, <1>6

(* The replay accepts it, and leaves a run that is not out of its budget of*)
(* invalid calls.                                                          *)
LEMMA ReplyAccepted ==
  ASSUME NEW r \in Run, Held(r), Open(r), r.pending \in Call, NEW answer \in Answer,
         answer.kind \in {"ok", "failed"}, clock \in Nat, ~Late(r.pending.tool),
         ValidTransition(r.state, ResponseTarget(r, r.pending.tool, answer), r.goal,
                         ResponseKind(answer))
  PROVE  LET e == Reply(r, answer)
             next == Absorb(r, e) IN
         /\ OutcomeFits(Resume(r), e) /\ ReplayStep(Resume(r), e).ok
         /\ ~Overdue(e) /\ MilestoneProven(next)
         /\ next \in Run /\ next.state = ResponseTarget(r, r.pending.tool, answer)
         /\ next.goal = r.goal /\ next.pending = None
         /\ next.calls = r.calls /\ next.reconciliations = r.reconciliations
         /\ next.invalid < MaxInvalidCalls /\ next.approvalDeadline = r.approvalDeadline
         /\ "ORDER_DRAFT" \in next.artifacts => next.draftExpiry \in Nat
         /\ e.artifact = "ORDER_DRAFT" =>
              /\ next.draftExpiry = e.expires /\ answer.kind = "ok"
              /\ r.pending.tool = "create_order_draft" /\ next.state = "DRAFT_READY"
<1> DEFINE e == Reply(r, answer)
           next == Absorb(r, e)
           tool == r.pending.tool
           after == ResponseTarget(r, tool, answer)
<1>1. /\ e \in AgentEvent /\ e.trigger = "TOOL" /\ e.kind \in ToolOutcomes
      /\ e.kind = ResponseKind(answer) /\ e.kind # "TOOL_CALL_REJECTED"
      /\ e.before = r.state /\ e.after = after /\ e.at = clock /\ e.call = r.pending
      /\ e.artifact = IF answer.kind = "ok" /\ Yields[tool] \notin r.artifacts
                      THEN Yields[tool] ELSE None
      /\ e.after \in {"PENDING_APPROVAL", "EXECUTING"} => e.after = r.state
  BY ReplyFields
<1>2. OutcomeFits(Resume(r), e)
  <2>1. after \in RunStates
    BY ResponseTargetTyped
  <2> QED
    BY <2>1, ResponseFits DEF Reply
<1>3. MilestoneProven(next)
  BY ReplyProven
<1> HIDE DEF e
<1>4. ReplayStep(Resume(r), e).ok
  BY <1>1, <1>2, <1>3, OutcomeAccepted
<1>5. ~Overdue(e)
  BY <1>1, NotOverdue
<1>6. /\ next \in Run /\ next.state = after /\ next.goal = r.goal /\ next.pending = None
      /\ next.calls = r.calls /\ next.reconciliations = r.reconciliations
      /\ next.invalid = r.invalid + (IF e.kind = "TOOL_CALL_REJECTED" THEN 1 ELSE 0)
      /\ next.approvalDeadline = r.approvalDeadline
  BY <1>1, OutcomeLeaves
<1>7. next.invalid < MaxInvalidCalls
  <2>1. r.invalid \in Nat /\ r.invalid < MaxInvalidCalls
    BY DEF Run, Held
  <2> HIDE DEF next
  <2> QED
    BY <1>1, <1>6, <2>1
<1>8. "ORDER_DRAFT" \in next.artifacts => next.draftExpiry \in Nat
  <2>1. Resume(r).run = r
    BY DEF Resume
  <2>2. "ORDER_DRAFT" \in r.artifacts => r.draftExpiry \in Nat
    BY DEF Held, Acceptable
  <2> QED
    BY <1>1, <1>4, <2>1, <2>2, DraftKept
<1>9. next.draftExpiry = IF e.artifact = "ORDER_DRAFT" /\ "ORDER_DRAFT" \notin r.artifacts
                         THEN e.expires ELSE r.draftExpiry
  BY AbsorbCounts
<1> HIDE DEF next
<1>10. ASSUME e.artifact = "ORDER_DRAFT"
       PROVE  /\ next.draftExpiry = e.expires /\ answer.kind = "ok"
              /\ tool = "create_order_draft" /\ after = "DRAFT_READY"
  <2>1. None # "ORDER_DRAFT"
    BY YieldsOf
  <2>2. answer.kind = "ok" /\ Yields[tool] = "ORDER_DRAFT" /\ "ORDER_DRAFT" \notin r.artifacts
    BY <1>1, <1>10, <2>1
  <2>3. tool = "create_order_draft"
    BY <2>2, NewDraft
  <2> QED
    BY <1>9, <1>10, <2>2, <2>3, ResponseLeads
<1> QED
  BY <1>2, <1>3, <1>4, <1>5, <1>6, <1>7, <1>8, <1>10 DEF e, next

(* A run that goes on after a response, other than to be reconciled, has   *)
(* not executed yet.                                                       *)
LEMMA GoesOnBefore ==
  ASSUME NEW r \in Run, Held(r), Open(r), NEW answer \in Answer,
         answer.kind \in {"ok", "failed"},
         ResponseTarget(r, r.pending.tool, answer) \notin TerminalStates \cup {"RECONCILING"}
  PROVE  /\ r.state \notin AfterExecutionStates
         /\ ResponseTarget(r, r.pending.tool, answer) \notin AfterExecutionStates
<1> DEFINE tool == r.pending.tool
           after == ResponseTarget(r, tool, answer)
<1>1. {"COMPLETED", "INCIDENT"} \subseteq TerminalStates
  BY DEF TerminalStates
<1>2. tool \notin Unhurried
  <2>1. ASSUME tool \in Unhurried PROVE after \in {"COMPLETED", "INCIDENT", "RECONCILING"}
    BY <2>1, ResponseLeads DEF Unhurried
  <2> QED
    BY <1>1, <2>1
<1>3. r.state \notin AfterExecutionStates
  BY <1>2, HeldCall
<1>4. after \in {"PENDING_APPROVAL", "EXECUTING"} => after = r.state
  BY ResponseLeads
<1> HIDE DEF after
<1>5. after \notin AfterExecutionStates
  BY <1>3, <1>4 DEF AfterExecutionStates, after
<1> QED
  BY <1>3, <1>5 DEF after

(* What must follow a response in time.                                    *)
LEMMA ReplyDue ==
  ASSUME NEW r \in Run, Held(r), Open(r), r.pending \in Call, NEW answer \in Answer,
         answer.kind \in {"ok", "failed"}, clock \in Nat, ~Late(r.pending.tool),
         ValidTransition(r.state, ResponseTarget(r, r.pending.tool, answer), r.goal,
                         ResponseKind(answer))
  PROVE  LET e == Reply(r, answer)
             after == ResponseTarget(r, r.pending.tool, answer)
             due == DueAfter(Resume(r), e, Absorb(r, e))
             ended == after \in TerminalStates \cup {"RECONCILING"} IN
         /\ ended => due = {}
         /\ ~ended /\ r.calls >= MaxToolCalls =>
              due \subseteq {MustFollow("LIMIT_REACHED", "SYSTEM", "LIMIT_EXCEEDED", clock)}
         /\ ~ended /\ ~(r.calls >= MaxToolCalls) =>
              due \subseteq {MustFollow("TIMEOUT_RECORDED", "TIMEOUT", "EXPIRED", clock)}
         /\ ~(r.calls >= MaxToolCalls) /\ ~(e.artifact = "ORDER_DRAFT" /\ e.expires <= clock)
              => due = {}
<1> DEFINE e == Reply(r, answer)
           a == Resume(r)
           next == Absorb(r, e)
           after == ResponseTarget(r, r.pending.tool, answer)
           due == DueAfter(a, e, next)
           ended == after \in TerminalStates \cup {"RECONCILING"}
<1>1. /\ e.kind # "TOOL_CALL_REJECTED" /\ e.before = r.state /\ e.after = after /\ e.at = clock
  BY ReplyFields
<1>2. /\ ~Overdue(e) /\ next.state = after /\ next.calls = r.calls
      /\ next.invalid < MaxInvalidCalls /\ next \in Run
      /\ e.artifact = "ORDER_DRAFT" => next.state = "DRAFT_READY"
  BY ReplyAccepted
<1>3. ~ended => r.state \notin AfterExecutionStates
  BY GoesOnBefore
<1> HIDE DEF e, a, next, after
<1>4. ~(next.invalid >= MaxInvalidCalls)
  <2>1. next.invalid \in Nat /\ MaxInvalidCalls \in Nat
    BY <1>2, LimitsAssumption DEF LimitsAssumption, Run
  <2> QED
    BY <1>2, <2>1
<1>5. ended => due = {}
  <2>1. "DRAFT_READY" # "RECONCILING" /\ "DRAFT_READY" \notin TerminalStates
    BY DEF TerminalStates
  <2> QED
    BY <1>1, <1>2, <1>4, <2>1 DEF DueAfter
<1>6. ~ended /\ r.calls >= MaxToolCalls =>
        due \subseteq {MustFollow("LIMIT_REACHED", "SYSTEM", "LIMIT_EXCEEDED", clock)}
  BY <1>1, <1>2, <1>3, <1>4 DEF DueAfter
<1>7. ~ended /\ ~(r.calls >= MaxToolCalls) =>
        due \subseteq {MustFollow("TIMEOUT_RECORDED", "TIMEOUT", "EXPIRED", clock)}
  BY <1>1, <1>2, <1>3, <1>4 DEF DueAfter
<1>8. ~(r.calls >= MaxToolCalls) /\ ~(e.artifact = "ORDER_DRAFT" /\ e.expires <= clock)
        => due = {}
  BY <1>1, <1>2, <1>4 DEF DueAfter
<1> QED
  BY <1>5, <1>6, <1>7, <1>8 DEF e, a, next, after

(* A response in time is its outcome, and then the limit or the automatic  *)
(* step.                                                                   *)
LEMMA ReplyShape ==
  ASSUME NEW r \in Run, r.pending \in Call, NEW answer \in Answer,
         answer.kind \in {"ok", "failed"}, clock \in Nat, ~Late(r.pending.tool)
  PROVE  LET e == Reply(r, answer)
             next == Absorb(r, e)
             events == ResponseEvents(r, r.pending, answer) IN
         /\ PostCallLimit(next) = <<>> =>
              events = <<e>> \o Automatic(next, r.pending.tool, answer)
         /\ PostCallLimit(next) = <<Stop(next)>> => events = <<e, Stop(next)>>
<1> DEFINE e == Reply(r, answer)
           next == Absorb(r, e)
           f == Stop(next)
           events == ResponseEvents(r, r.pending, answer)
<1>1. events = (<<e>> \o PostCallLimit(After(r, <<e>>)))
                 \o Automatic(After(r, <<e>> \o PostCallLimit(After(r, <<e>>))),
                              r.pending.tool, answer)
  BY ResponseShape DEF Reply
<1>2. After(r, <<e>>) = next
  BY AfterOne
<1>3. e \in AgentEvent
  BY ReplyFields
<1>4. next \in Run
  BY <1>3, AbsorbTyped
<1>5. f.after \in {"INCIDENT", "LIMIT_EXCEEDED"}
  BY DEF Stop, Move, Event
<1> HIDE DEF e, next, events, f
<1>6. <<e>> \o <<>> = <<e>>
  OBVIOUS
<1>7. PostCallLimit(next) = <<>> => events = <<e>> \o Automatic(next, r.pending.tool, answer)
  BY <1>1, <1>2, <1>6
<1>8. ASSUME PostCallLimit(next) = <<f>> PROVE events = <<e, f>>
  <2>1. <<e>> \o <<f>> = <<e, f>>
    BY TwoOfOnes
  <2>2. After(r, <<e, f>>) = Absorb(next, f)
    BY TwoSteps DEF next
  <2>3. Absorb(next, f).state = f.after
    BY <1>4, AbsorbFields
  <2>4. Automatic(After(r, <<e, f>>), r.pending.tool, answer) = <<>>
    BY <1>5, <2>2, <2>3 DEF Automatic
  <2>5. events = <<e, f>> \o <<>>
    BY <1>1, <1>2, <1>8, <2>1, <2>4
  <2>6. <<e, f>> \o <<>> = <<e, f>>
    OBVIOUS
  <2> QED
    BY <2>5, <2>6
<1> QED
  BY <1>7, <1>8 DEF e, next, events, f

(* An outcome after which nothing is due can be stored alone.              *)
LEMMA ReplyAlone ==
  ASSUME NEW r \in Run, Held(r), Open(r), r.pending \in Call, NEW answer \in Answer,
         answer.kind \in {"ok", "failed"}, clock \in Nat, ~Late(r.pending.tool),
         ValidTransition(r.state, ResponseTarget(r, r.pending.tool, answer), r.goal,
                         ResponseKind(answer)),
         DueAfter(Resume(r), Reply(r, answer), Absorb(r, Reply(r, answer))) = {}
  PROVE  Replayable(r, <<Reply(r, answer)>>)
<1> DEFINE e == Reply(r, answer)
<1>1. ReplayStep(Resume(r), e).ok /\ Absorb(r, e).pending = None
  BY ReplyAccepted
<1>2. e.kind \in ToolOutcomes
  BY ReplyFields
<1>3. Resume(r).run = r
  BY DEF Resume
<1> HIDE DEF e
<1>4. ReplayStep(Resume(r), e).due = {} /\ ReplayStep(Resume(r), e).run.pending = None
  BY <1>1, <1>2, <1>3, StepLeaves DEF e
<1>5. Replayable(r, <<e>>)
  BY <1>1, <1>4, OneStored
<1> QED
  BY <1>5 DEF e

(* A response after which the budget is spent.                             *)
LEMMA SpentStored ==
  ASSUME NEW r \in Run, Held(r), Open(r), r.pending \in Call, NEW answer \in Answer,
         answer.kind \in {"ok", "failed"}, clock \in Nat, ~Late(r.pending.tool),
         ValidTransition(r.state, ResponseTarget(r, r.pending.tool, answer), r.goal,
                         ResponseKind(answer)),
         ResponseTarget(r, r.pending.tool, answer) \notin TerminalStates,
         ResponseTarget(r, r.pending.tool, answer) # "RECONCILING" => r.calls >= MaxToolCalls
  PROVE  Replayable(r, <<Reply(r, answer), Stop(Absorb(r, Reply(r, answer)))>>)
<1> DEFINE e == Reply(r, answer)
           a == Resume(r)
           next == Absorb(r, e)
           f == Stop(next)
           after == ResponseTarget(r, r.pending.tool, answer)
<1>1. /\ e \in AgentEvent /\ e.kind \in ToolOutcomes /\ e.before = r.state /\ e.after = after
      /\ e.after \in {"PENDING_APPROVAL", "EXECUTING"} => e.after = r.state
  BY ReplyFields
<1>2. /\ ReplayStep(a, e).ok /\ next.state = after /\ next.calls = r.calls /\ next \in Run
  BY ReplyAccepted
<1>3. after # "RECONCILING" => after \notin AfterExecutionStates
  BY GoesOnBefore
<1>4. /\ after = "RECONCILING" => DueAfter(a, e, next) = {}
      /\ after # "RECONCILING" => DueAfter(a, e, next) \subseteq
           {MustFollow("LIMIT_REACHED", "SYSTEM", "LIMIT_EXCEEDED", clock)}
  BY ReplyDue
<1>5. /\ after \in RunStates \ TerminalStates /\ r.state \in RunStates
      /\ after # "RECONCILING" => r.calls >= MaxToolCalls
  BY ResponseTargetTyped DEF Run
<1> HIDE DEF e, a, next, after
<1>6. /\ f.before = after /\ f.at = clock /\ f.artifact = None /\ f.trigger = "SYSTEM"
      /\ after = "RECONCILING" => f.kind = "INCIDENT_RECORDED" /\ f.after = "INCIDENT"
      /\ after # "RECONCILING" => f.kind = "LIMIT_REACHED" /\ f.after = "LIMIT_EXCEEDED"
  BY <1>2, <1>3 DEF Stop, Move, Event, AfterExecutionStates
<1> HIDE DEF f
<1>7. f.kind \in FollowKinds /\ f.trigger \in TriggersOf(f.kind) /\ f.after \in EndingStates
  BY <1>6 DEF FollowKinds, TriggersOf, SystemKinds, SameStateObservations, ToolOutcomes,
     EndingStates
<1>8. DueAfter(a, e, next) \subseteq {MustFollow(f.kind, f.trigger, f.after, f.at)}
  BY <1>4, <1>6
<1>9. ValidTransition(e.after, f.after, r.goal, f.kind)
  BY <1>1, <1>3, <1>5, <1>6, LegalEndings
<1>10. DeadlineFits(Absorb(next, f), f) /\ LimitFits(next, f)
  BY <1>2, <1>5, <1>6 DEF DeadlineFits, LimitFits
<1>11. Replayable(r, <<e, f>>)
  BY <1>1, <1>2, <1>6, <1>7, <1>8, <1>9, <1>10, EndingStored DEF a, next
<1> QED
  BY <1>11 DEF e, f, next

(* The end of an expired draft.                                            *)
LEMMA ExpiryStored ==
  ASSUME NEW r \in Run, Held(r), Open(r), r.pending \in Call, NEW answer \in Answer,
         answer.kind \in {"ok", "failed"}, clock \in Nat, ~Late(r.pending.tool),
         ValidTransition(r.state, ResponseTarget(r, r.pending.tool, answer), r.goal,
                         ResponseKind(answer)),
         ResponseTarget(r, r.pending.tool, answer) = "DRAFT_READY",
         ~(r.calls >= MaxToolCalls),
         Absorb(r, Reply(r, answer)).draftExpiry <= clock
  PROVE  Replayable(r, <<Reply(r, answer),
                         Move(Absorb(r, Reply(r, answer)), "TIMEOUT_RECORDED", "TIMEOUT",
                              "EXPIRED")>>)
<1> DEFINE e == Reply(r, answer)
           a == Resume(r)
           next == Absorb(r, e)
           f == Move(next, "TIMEOUT_RECORDED", "TIMEOUT", "EXPIRED")
<1>1. "DRAFT_READY" \in RunStates \ TerminalStates /\ "DRAFT_READY" # "RECONCILING"
  BY DEF RunStates, PreExecutionStates, TerminalStates
<1>2. /\ e \in AgentEvent /\ e.kind \in ToolOutcomes /\ e.before = r.state
      /\ e.after = "DRAFT_READY"
      /\ e.after \in {"PENDING_APPROVAL", "EXECUTING"} => e.after = r.state
  BY ReplyFields
<1>3. /\ ReplayStep(a, e).ok /\ next.state = "DRAFT_READY" /\ next \in Run
      /\ MilestoneProven(next)
      /\ "ORDER_DRAFT" \in next.artifacts => next.draftExpiry \in Nat
  BY ReplyAccepted
<1>4. DueAfter(a, e, next) \subseteq {MustFollow("TIMEOUT_RECORDED", "TIMEOUT", "EXPIRED", clock)}
  BY <1>1, ReplyDue
<1> HIDE DEF e, a, next
<1>5. /\ f.before = "DRAFT_READY" /\ f.at = clock /\ f.artifact = None /\ f.trigger = "TIMEOUT"
      /\ f.kind = "TIMEOUT_RECORDED" /\ f.after = "EXPIRED"
  BY <1>3 DEF Move, Event
<1> HIDE DEF f
<1>6. f.kind \in FollowKinds /\ f.trigger \in TriggersOf(f.kind) /\ f.after \in EndingStates
  BY <1>5 DEF FollowKinds, TriggersOf, SystemKinds, SameStateObservations, ToolOutcomes,
     EndingStates
<1>7. DueAfter(a, e, next) \subseteq {MustFollow(f.kind, f.trigger, f.after, f.at)}
  BY <1>4, <1>5
<1>8. ValidTransition(e.after, f.after, r.goal, f.kind)
  BY <1>1, <1>2, <1>5, LegalEndings
<1>9. next.draftExpiry # None
  <2>1. Proof("DRAFT_READY", next.goal) = {"ORDER_DRAFT"}
    BY DEF Proof, AuthorisedStates
  <2>2. "ORDER_DRAFT" \in next.artifacts
    BY <1>3, <2>1 DEF MilestoneProven, ProvenStates, AuthorisedStates
  <2> QED
    BY <1>3, <2>2, LimitsAssumption DEF LimitsAssumption
<1>10. Absorb(next, f).draftExpiry = next.draftExpiry
  <2>1. None # "ORDER_DRAFT"
    BY YieldsOf
  <2> QED
    BY <1>3, <1>5, <2>1, AbsorbCounts
<1>11. DeadlineFits(Absorb(next, f), f) /\ LimitFits(next, f)
  <2>1. next.draftExpiry <= clock
    BY DEF next, e
  <2>2. next.draftExpiry \in Nat
    BY <1>3, <1>9 DEF Run
  <2>3. Expired(Absorb(next, f), clock)
    BY <1>9, <1>10, <2>1, <2>2 DEF Expired
  <2> QED
    BY <1>5, <2>3 DEF DeadlineFits, LimitFits
<1>12. Replayable(r, <<e, f>>)
  BY <1>2, <1>3, <1>5, <1>6, <1>7, <1>8, <1>11, EndingStored DEF a, next
<1> QED
  BY <1>12 DEF e, f, next

(* Where a locked draft goes on to.                                        *)
LEMMA DraftSuccessors ==
  /\ "EXECUTING" \in LegalTargets("DRAFT_READY", "PAPER_EXECUTION")
  /\ "PENDING_APPROVAL" \in LegalTargets("DRAFT_READY", "LIVE_ASSISTED_EXECUTION")
<1> DEFINE p == GoalPath["PAPER_EXECUTION"]
           q == GoalPath["LIVE_ASSISTED_EXECUTION"]
<1>1. /\ Len(p) = 10 /\ p[7] = "DRAFT_READY" /\ p[8] = "EXECUTING"
      /\ Len(q) = 12 /\ q[7] = "DRAFT_READY" /\ q[8] = "PENDING_APPROVAL"
  BY GoalPaths
<1> HIDE DEF p, q
<1>2. 7 \in {k \in 1..Len(p) - 1 : p[k] = "DRAFT_READY"}
      /\ 7 \in {k \in 1..Len(q) - 1 : q[k] = "DRAFT_READY"} /\ 7 + 1 = 8
  BY <1>1
<1>3. p[7 + 1] = "EXECUTING" /\ q[7 + 1] = "PENDING_APPROVAL"
  BY <1>1, <1>2
<1>4. "EXECUTING" \in PathSuccessors("PAPER_EXECUTION", "DRAFT_READY")
  BY <1>2, <1>3 DEF PathSuccessors, p
<1>5. "PENDING_APPROVAL" \in PathSuccessors("LIVE_ASSISTED_EXECUTION", "DRAFT_READY")
  BY <1>2, <1>3 DEF PathSuccessors, q
<1> QED
  BY <1>4, <1>5 DEF LegalTargets, TerminalStates

(* Of three times that have not come, none has.                            *)
LEMMA EarliestLater ==
  ASSUME NEW t \in Nat, NEW u \in Nat, NEW v \in Nat, NEW now \in Nat,
         t > now, u > now, v > now
  PROVE  Earliest({t, u, v}) > now
<1>1. \E x \in {t, u, v} : \A w \in {t, u, v} : x <= w
  BY LeastNat
<1>2. Earliest({t, u, v}) \in {t, u, v}
  BY <1>1 DEF Earliest
<1> QED
  BY <1>2

(* The automatic step of a draft that has not expired.                     *)
LEMMA AdvanceStored ==
  ASSUME NEW r \in Run, Held(r), Open(r), r.pending \in Call, NEW answer \in Answer,
         answer.kind \in {"ok", "failed"}, clock \in Nat, ~Late(r.pending.tool),
         ValidTransition(r.state, ResponseTarget(r, r.pending.tool, answer), r.goal,
                         ResponseKind(answer)),
         ResponseTarget(r, r.pending.tool, answer) = "DRAFT_READY",
         ~(r.calls >= MaxToolCalls),
         ~(Absorb(r, Reply(r, answer)).draftExpiry <= clock), ~(Timeout <= clock),
         NEW after,
         \/ r.goal = "PAPER_EXECUTION" /\ after = "EXECUTING"
         \/ r.goal = "LIVE_ASSISTED_EXECUTION" /\ after = "PENDING_APPROVAL"
  PROVE  Replayable(r, <<Reply(r, answer),
                         Move(Absorb(r, Reply(r, answer)), "STATE_TRANSITION", "SYSTEM", after)>>)
<1> DEFINE e == Reply(r, answer)
           a == Resume(r)
           b == ReplayStep(a, e)
           next == Absorb(r, e)
           f == Move(next, "STATE_TRANSITION", "SYSTEM", after)
           last == Absorb(next, f)
<1>1. /\ b.ok /\ next.state = "DRAFT_READY" /\ next \in Run /\ next.goal = r.goal
      /\ MilestoneProven(next)
      /\ "ORDER_DRAFT" \in next.artifacts => next.draftExpiry \in Nat
      /\ next.pending = None /\ next.approvalDeadline = r.approvalDeadline
      /\ e.artifact = "ORDER_DRAFT" => next.draftExpiry = e.expires
  BY ReplyAccepted
<1>2. e.kind \in ToolOutcomes
  BY ReplyFields
<1>3. ~(next.draftExpiry <= clock)
  OBVIOUS
<1>4. DueAfter(a, e, next) = {}
  <2>1. ~(e.artifact = "ORDER_DRAFT" /\ e.expires <= clock)
    BY <1>1, <1>3
  <2> QED
    BY <2>1, ReplyDue
<1>5. a.run = r
  BY DEF Resume
<1>6. b.run = next /\ b.due = {} /\ b.ok = TRUE /\ WithinLimits(next)
  <2>1. b.run = next /\ b.due = {}
    BY <1>2, <1>4, <1>5, StepLeaves
  <2>2. WithinLimits(next)
    BY <1>1, <1>5, StepOk
  <2>3. b.ok = TRUE
    BY <1>1 DEF ReplayStep
  <2> QED
    BY <2>1, <2>2, <2>3
<1> HIDE DEF e, a, b, next
<1>7. /\ f.before = "DRAFT_READY" /\ f.at = clock /\ f.artifact = None /\ f.trigger = "SYSTEM"
      /\ f.kind = "STATE_TRANSITION" /\ f.after = after
  BY <1>1 DEF Move, Event
<1> HIDE DEF f
<1>8. f.kind \in FollowKinds /\ f.trigger \in TriggersOf(f.kind)
  BY <1>7 DEF FollowKinds, TriggersOf, SystemKinds, SameStateObservations, ToolOutcomes
<1>9. ValidTransition(f.before, f.after, next.goal, f.kind)
  BY <1>1, <1>7, DraftSuccessors DEF ValidTransition, TerminalStates, ChangingKindFits
<1>10. "ORDER_DRAFT" \in next.artifacts
  <2>1. Proof("DRAFT_READY", next.goal) = {"ORDER_DRAFT"}
    BY DEF Proof, AuthorisedStates
  <2> QED
    BY <1>1, <2>1 DEF MilestoneProven, ProvenStates, AuthorisedStates
<1>11. next.draftExpiry \in Nat /\ next.draftExpiry > clock /\ Timeout \in Nat
       /\ Timeout > clock /\ None \notin Nat
  BY <1>1, <1>3, <1>10, LimitsAssumption DEF LimitsAssumption
<1>12. /\ last.draftExpiry = next.draftExpiry /\ last.state = after /\ last.goal = r.goal
       /\ "ORDER_DRAFT" \in last.artifacts
  <2>1. None # "ORDER_DRAFT"
    BY YieldsOf
  <2>2. last.draftExpiry = next.draftExpiry
    BY <1>1, <1>7, <2>1, AbsorbCounts
  <2>3. last.state = after /\ last.goal = r.goal /\ last.artifacts = Gathered(next, f)
    BY <1>1, <1>7, AbsorbFields
  <2> HIDE DEF last
  <2> QED
    BY <1>10, <2>2, <2>3 DEF Gathered
<1>13. OpensApproval(f) => last.approvalDeadline > f.at
  <2> SUFFICES ASSUME OpensApproval(f) PROVE last.approvalDeadline > f.at
    OBVIOUS
  <2>1. last.draftExpiry # None
    BY <1>11, <1>12
  <2>2. last.approvalDeadline =
          Earliest({last.draftExpiry, Timeout, f.at + ApprovalTimeout})
    BY <1>1, <2>1, AbsorbDeadline
  <2>3. clock + ApprovalTimeout \in Nat /\ clock + ApprovalTimeout > clock
    BY LimitsAssumption DEF LimitsAssumption
  <2>4. Earliest({next.draftExpiry, Timeout, clock + ApprovalTimeout}) > clock
    BY <1>11, <2>3, EarliestLater
  <2> HIDE DEF last
  <2> QED
    BY <1>7, <1>12, <2>2, <2>4
<1>14. DeadlineFits(last, f)
  <2>1. CASE r.goal = "PAPER_EXECUTION" /\ after = "EXECUTING"
    <3>1. ~OpensApproval(f)
      BY <1>7, <2>1 DEF OpensApproval
    <3>2. r.approvalDeadline = None
      BY <2>1 DEF Held, Acceptable
    <3>3. last.approvalDeadline = None
      BY <1>1, <3>1, <3>2, AbsorbDeadline
    <3> HIDE DEF last
    <3>4. ~Expired(last, clock)
      BY <1>11, <1>12, <3>3 DEF Expired
    <3> QED
      BY <1>7, <1>11, <3>4 DEF DeadlineFits
  <2>2. CASE r.goal = "LIVE_ASSISTED_EXECUTION" /\ after = "PENDING_APPROVAL"
    BY <1>7, <1>11, <2>2 DEF DeadlineFits
  <2> QED
    BY <2>1, <2>2
<1>15. LimitFits(next, f)
  BY <1>7 DEF LimitFits
<1>16. MilestoneProven(last)
  <2>1. Proof(after, r.goal) = {"ORDER_DRAFT"}
    BY DEF Proof, AuthorisedStates
  <2> HIDE DEF last
  <2> QED
    BY <1>12, <2>1 DEF MilestoneProven, AfterExecutionStates
<1>17. OpensApproval(f) => last.draftExpiry # None
  BY <1>11, <1>12
<1>18. ReplayStep(b, f).ok /\ ReplayStep(b, f).due = {} /\ ReplayStep(b, f).run.pending = None
  BY <1>1, <1>6, <1>7, <1>8, <1>9, <1>13, <1>14, <1>15, <1>16, <1>17, FollowAccepted
<1>19. Replayable(r, <<e, f>>)
  BY <1>18, TwoStored DEF a, b
<1> QED
  BY <1>19 DEF e, f, next

(* A late response is recorded, unless it drafted what has expired.        *)
LEMMA LateResponseStored ==
  ASSUME NEW r \in Run, Held(r), Open(r), r.pending \in Call, NEW answer \in Answer,
         answer.kind \in {"ok", "failed"}, clock \in Nat, Late(r.pending.tool),
         ~(/\ r.pending.tool = "create_order_draft"
           /\ answer.kind = "ok" /\ answer.expires <= clock)
  PROVE  Replayable(r, ResponseEvents(r, r.pending, answer))
<1> DEFINE e == ResponseOutcome(r, r.pending, answer, r.state)
           f == TimedOut(r)
           after == After(r, <<e, f>>)
<1>1. ResponseEvents(r, r.pending, answer) =
        (<<e, f>> \o PostCallLimit(after))
          \o Automatic(After(r, <<e, f>> \o PostCallLimit(after)), r.pending.tool, answer)
  BY ResponseShape
<1>2. r.state \in RunStates
  BY DEF Run
<1>3. /\ e \in AgentEvent /\ e.kind = ResponseKind(answer) /\ e.trigger = "TOOL"
      /\ e.before = r.state /\ e.after = r.state /\ e.at = clock /\ e.call = r.pending
      /\ e.artifact = IF answer.kind = "ok" /\ Yields[r.pending.tool] \notin r.artifacts
                      THEN Yields[r.pending.tool] ELSE None
      /\ e.expires = IF answer.kind = "ok" /\ r.pending.tool = "create_order_draft"
                     THEN answer.expires ELSE None
  BY <1>2, ResponseFields
<1>4. OutcomeFits(Resume(r), e)
  BY <1>2, ResponseFits
<1>5. f.after = "TIMED_OUT"
  BY DEF TimedOut, Move, Event
<1> HIDE DEF e
<1>6. e.kind \in ToolOutcomes
  BY <1>3 DEF ResponseKind, ToolOutcomes
<1>7. ~(e.artifact = "ORDER_DRAFT" /\ e.expires <= e.at)
  <2> SUFFICES ASSUME e.artifact = "ORDER_DRAFT", e.expires <= e.at PROVE FALSE
    OBVIOUS
  <2>1. None # "ORDER_DRAFT"
    BY YieldsOf
  <2>2. answer.kind = "ok" /\ Yields[r.pending.tool] = "ORDER_DRAFT"
        /\ "ORDER_DRAFT" \notin r.artifacts
    BY <1>3, <2>1
  <2>3. r.pending.tool = "create_order_draft"
    BY <2>2, NewDraft
  <2> QED
    BY <1>3, <2>2, <2>3
<1>8. Replayable(r, <<e, f>>)
  BY <1>3, <1>4, <1>6, <1>7, LateStored
<1> HIDE DEF f
<1>9. after.state = "TIMED_OUT"
  <2>1. after = Absorb(Absorb(r, e), f)
    BY TwoSteps
  <2>2. Absorb(r, e) \in Run
    BY <1>3, AbsorbTyped
  <2> QED
    BY <1>5, <2>1, <2>2, AbsorbFields
<1> HIDE DEF after
<1>10. PostCallLimit(after) = <<>>
  BY <1>9 DEF PostCallLimit, Open, TerminalStates
<1>11. Automatic(after, r.pending.tool, answer) = <<>>
  BY <1>9 DEF Automatic
<1>12. <<e, f>> \o <<>> = <<e, f>>
  OBVIOUS
<1>13. ResponseEvents(r, r.pending, answer) = <<e, f>>
  BY <1>1, <1>10, <1>11, <1>12 DEF after
<1> QED
  BY <1>8, <1>13

(* A response in time that ends the run, or leaves it to be reconciled     *)
(* within the budget, is recorded alone.                                   *)
LEMMA EndedReplyStored ==
  ASSUME NEW r \in Run, Held(r), Open(r), r.pending \in Call, NEW answer \in Answer,
         answer.kind \in {"ok", "failed"}, clock \in Nat, ~Late(r.pending.tool),
         ValidTransition(r.state, ResponseTarget(r, r.pending.tool, answer), r.goal,
                         ResponseKind(answer)),
         \/ ResponseTarget(r, r.pending.tool, answer) \in TerminalStates
         \/ /\ ResponseTarget(r, r.pending.tool, answer) = "RECONCILING"
            /\ r.reconciliations < MaxReconciliations
  PROVE  Replayable(r, ResponseEvents(r, r.pending, answer))
<1> DEFINE e == Reply(r, answer)
           next == Absorb(r, e)
           after == ResponseTarget(r, r.pending.tool, answer)
<1>1. next.state = after /\ next.reconciliations = r.reconciliations
  BY ReplyAccepted
<1>2. DueAfter(Resume(r), e, next) = {}
  BY ReplyDue
<1>3. Replayable(r, <<e>>)
  BY <1>2, ReplyAlone
<1>4. PostCallLimit(next) = <<>> =>
        ResponseEvents(r, r.pending, answer) = <<e>> \o Automatic(next, r.pending.tool, answer)
  BY ReplyShape
<1>5. after \in TerminalStates
        \/ (after = "RECONCILING" /\ next.reconciliations < MaxReconciliations)
  BY <1>1
<1> HIDE DEF e, next, after
<1>6. PostCallLimit(next) = <<>>
  BY <1>1, <1>5 DEF PostCallLimit, Open
<1>7. Automatic(next, r.pending.tool, answer) = <<>>
  BY <1>1, <1>5 DEF Automatic, TerminalStates
<1>8. <<e>> \o <<>> = <<e>>
  OBVIOUS
<1>9. ResponseEvents(r, r.pending, answer) = <<e>>
  BY <1>4, <1>6, <1>7, <1>8
<1> QED
  BY <1>3, <1>9

(* A response in time that spends the budget stops the run.                *)
LEMMA SpentReplyStored ==
  ASSUME NEW r \in Run, Held(r), Open(r), r.pending \in Call, NEW answer \in Answer,
         answer.kind \in {"ok", "failed"}, clock \in Nat, ~Late(r.pending.tool),
         ValidTransition(r.state, ResponseTarget(r, r.pending.tool, answer), r.goal,
                         ResponseKind(answer)),
         ResponseTarget(r, r.pending.tool, answer) \notin TerminalStates,
         IF ResponseTarget(r, r.pending.tool, answer) = "RECONCILING"
         THEN ~(r.reconciliations < MaxReconciliations) ELSE ~(r.calls < MaxToolCalls)
  PROVE  Replayable(r, ResponseEvents(r, r.pending, answer))
<1> DEFINE e == Reply(r, answer)
           next == Absorb(r, e)
           after == ResponseTarget(r, r.pending.tool, answer)
<1>1. next.state = after /\ next.reconciliations = r.reconciliations /\ next.calls = r.calls
  BY ReplyAccepted
<1>2. after # "RECONCILING" => r.calls >= MaxToolCalls
  <2>1. r.calls \in Nat /\ MaxToolCalls \in Nat
    BY LimitsAssumption DEF Run, LimitsAssumption
  <2> QED
    BY <2>1
<1>3. Replayable(r, <<e, Stop(next)>>)
  BY <1>2, SpentStored
<1>4. PostCallLimit(next) = <<Stop(next)>> =>
        ResponseEvents(r, r.pending, answer) = <<e, Stop(next)>>
  BY ReplyShape
<1>5. /\ after \notin TerminalStates
      /\ after = "RECONCILING" => ~(next.reconciliations < MaxReconciliations)
      /\ after # "RECONCILING" => ~(next.calls < MaxToolCalls)
  BY <1>1
<1> HIDE DEF e, next, after
<1>6. PostCallLimit(next) = <<Stop(next)>>
  BY <1>1, <1>5 DEF PostCallLimit, Open
<1> QED
  BY <1>3, <1>4, <1>6

(* A response in time that lets the run go on within its budget is recorded*)
(* with the automatic step of its draft, if it locked one.                 *)
LEMMA OngoingReplyStored ==
  ASSUME NEW r \in Run, Held(r), Open(r), r.pending \in Call, NEW answer \in Answer,
         answer.kind \in {"ok", "failed"}, clock \in Nat, ~Late(r.pending.tool),
         ValidTransition(r.state, ResponseTarget(r, r.pending.tool, answer), r.goal,
                         ResponseKind(answer)),
         ResponseTarget(r, r.pending.tool, answer) \notin TerminalStates \cup {"RECONCILING"},
         r.calls < MaxToolCalls
  PROVE  Replayable(r, ResponseEvents(r, r.pending, answer))
<1> DEFINE e == Reply(r, answer)
           next == Absorb(r, e)
           tool == r.pending.tool
           after == ResponseTarget(r, tool, answer)
           expire == Move(next, "TIMEOUT_RECORDED", "TIMEOUT", "EXPIRED")
           execute == Move(next, "STATE_TRANSITION", "SYSTEM", "EXECUTING")
           ask == Move(next, "STATE_TRANSITION", "SYSTEM", "PENDING_APPROVAL")
           skips == \/ after # "DRAFT_READY" \/ answer.kind # "ok"
                    \/ tool \notin {"create_order_draft", "get_order_draft"}
<1>1. /\ next.state = after /\ next.calls = r.calls /\ next.goal = r.goal
      /\ e.artifact = "ORDER_DRAFT" => next.draftExpiry = e.expires /\ ~skips
  BY ReplyAccepted
<1>2. ~(r.calls >= MaxToolCalls)
  <2>1. r.calls \in Nat /\ MaxToolCalls \in Nat
    BY LimitsAssumption DEF Run, LimitsAssumption
  <2> QED
    BY <2>1
<1>3. after \notin TerminalStates /\ after # "RECONCILING"
  OBVIOUS
<1>4. PostCallLimit(next) = <<>>
  <2> HIDE DEF next, after
  <2> QED
    BY <1>1, <1>3 DEF PostCallLimit
<1>5. ResponseEvents(r, r.pending, answer) = <<e>> \o Automatic(next, tool, answer)
  BY <1>4, ReplyShape
<1>6. \/ skips /\ Automatic(next, tool, answer) = <<>>
      \/ ~skips /\ (next.draftExpiry <= clock \/ Timeout <= clock)
          /\ Automatic(next, tool, answer) = <<expire>>
      \/ ~skips /\ ~(next.draftExpiry <= clock) /\ ~(Timeout <= clock)
          /\ r.goal = "PAPER_EXECUTION" /\ Automatic(next, tool, answer) = <<execute>>
      \/ ~skips /\ ~(next.draftExpiry <= clock) /\ ~(Timeout <= clock)
          /\ r.goal = "LIVE_ASSISTED_EXECUTION" /\ Automatic(next, tool, answer) = <<ask>>
      \/ ~skips /\ ~(next.draftExpiry <= clock) /\ ~(Timeout <= clock)
          /\ Automatic(next, tool, answer) = <<>>
  <2> HIDE DEF next, expire, execute, ask, after
  <2> QED
    BY <1>1 DEF Automatic, expire, execute, ask
<1>7. CASE Automatic(next, tool, answer) = <<>> /\ (skips \/ ~(next.draftExpiry <= clock))
  <2>1. ~(e.artifact = "ORDER_DRAFT" /\ e.expires <= clock)
    BY <1>1, <1>7
  <2>2. DueAfter(Resume(r), e, next) = {}
    BY <1>2, <2>1, ReplyDue
  <2>3. Replayable(r, <<e>>)
    BY <2>2, ReplyAlone
  <2> HIDE DEF e, next
  <2>4. <<e>> \o <<>> = <<e>>
    OBVIOUS
  <2> QED
    BY <1>5, <1>7, <2>3, <2>4
<1>8. CASE ~skips /\ (next.draftExpiry <= clock \/ Timeout <= clock)
           /\ Automatic(next, tool, answer) = <<expire>>
  <2>1. after = "DRAFT_READY" /\ tool \in {"create_order_draft", "get_order_draft"}
    BY <1>8
  <2>2. ~(Timeout <= clock)
    <3>1. tool \notin Unhurried /\ Timeout \in Nat
      BY <2>1, LimitsAssumption DEF Unhurried, ExecutionTools, LimitsAssumption
    <3> QED
      BY <3>1 DEF Late
  <2>3. next.draftExpiry <= clock
    BY <1>8, <2>2
  <2>4. Replayable(r, <<e, expire>>)
    BY <1>2, <2>1, <2>3, ExpiryStored
  <2> HIDE DEF e, expire, next
  <2>5. <<e>> \o <<expire>> = <<e, expire>>
    BY TwoOfOnes
  <2> QED
    BY <1>5, <1>8, <2>4, <2>5
<1>9. CASE ~skips /\ ~(next.draftExpiry <= clock) /\ ~(Timeout <= clock)
           /\ r.goal = "PAPER_EXECUTION" /\ Automatic(next, tool, answer) = <<execute>>
  <2>1. after = "DRAFT_READY"
    BY <1>9
  <2>2. Replayable(r, <<e, execute>>)
    BY <1>2, <1>9, <2>1, AdvanceStored
  <2> HIDE DEF e, execute, next
  <2>3. <<e>> \o <<execute>> = <<e, execute>>
    BY TwoOfOnes
  <2> QED
    BY <1>5, <1>9, <2>2, <2>3
<1>10. CASE ~skips /\ ~(next.draftExpiry <= clock) /\ ~(Timeout <= clock)
            /\ r.goal = "LIVE_ASSISTED_EXECUTION" /\ Automatic(next, tool, answer) = <<ask>>
  <2>1. after = "DRAFT_READY"
    BY <1>10
  <2>2. Replayable(r, <<e, ask>>)
    BY <1>2, <1>10, <2>1, AdvanceStored
  <2> HIDE DEF e, ask, next
  <2>3. <<e>> \o <<ask>> = <<e, ask>>
    BY TwoOfOnes
  <2> QED
    BY <1>5, <1>10, <2>2, <2>3
<1> HIDE DEF e, next, skips, expire, execute, ask
<1> QED
  BY <1>6, <1>7, <1>8, <1>9, <1>10

(* Every response can be stored, but a late draft that has expired.        *)
LEMMA ResponseStored ==
  ASSUME NEW r \in Run, Held(r), Open(r), r.pending \in Call, NEW answer \in Answer,
         answer.kind \in {"ok", "failed"}, clock \in Nat,
         ValidTransition(r.state, ResponseTarget(r, r.pending.tool, answer), r.goal,
                         ResponseKind(answer)),
         ~(/\ r.pending.tool = "create_order_draft" /\ Late("create_order_draft")
           /\ answer.kind = "ok" /\ answer.expires <= clock)
  PROVE  Replayable(r, ResponseEvents(r, r.pending, answer))
<1> DEFINE after == ResponseTarget(r, r.pending.tool, answer)
<1>1. CASE Late(r.pending.tool)
  BY <1>1, LateResponseStored
<1>2. CASE ~Late(r.pending.tool) /\ (after \in TerminalStates
             \/ (after = "RECONCILING" /\ r.reconciliations < MaxReconciliations))
  BY <1>2, EndedReplyStored
<1>3. CASE ~Late(r.pending.tool) /\ after \notin TerminalStates
           /\ (IF after = "RECONCILING" THEN ~(r.reconciliations < MaxReconciliations)
                                        ELSE ~(r.calls < MaxToolCalls))
  BY <1>3, SpentReplyStored
<1>4. CASE ~Late(r.pending.tool) /\ after \notin TerminalStates \cup {"RECONCILING"}
           /\ r.calls < MaxToolCalls
  BY <1>4, OngoingReplyStored
<1> HIDE DEF after
<1> QED
  BY <1>1, <1>2, <1>3, <1>4

-----------------------------------------------------------------------------
(* The outcomes of an instance.                                            *)

(* An outcome the replay does not refuse for the reasons it has can be     *)
(* stored.                                                                 *)
LEMMA OutcomeStored ==
  ASSUME TypeInv, OutcomeInv, NEW i \in Instance, InPhase(i, "answered"),
         ~RefusedReconciliation(i), ~RefusedDraft(i), ~RefusedDenial(i)
  PROVE  Replayable(call[i].reserved, OutcomeEvents(i))
<1> DEFINE r == call[i].reserved
           answer == MadeOf(i)
<1>1. /\ r \in Run /\ r \in Reservations /\ Reserved(i) \in Call /\ clock \in Nat
      /\ answer \in Answer /\ answer.kind \in {"ok", "failed", "denied", "arguments", "raised"}
      /\ answer.kind # "raised" => answer = call[i].answer
      /\ OutcomeEvents(i) =
           IF answer.kind \in {"ok", "failed"}
           THEN ResponseEvents(r, Reserved(i), answer)
           ELSE ExceptionEvents(r, Reserved(i), answer)
  BY Made
<1>2. Reserved(i) = r.pending
  BY DEF Reserved
<1>3. Held(r) /\ Open(r)
  BY <1>1 DEF OutcomeInv, InPhase, Reservations, SoundRuns
<1>4. answer.kind \in {"ok", "failed"} =>
        ValidTransition(r.state, ResponseTarget(r, r.pending.tool, answer), r.goal,
                        ResponseKind(answer))
  BY <1>2 DEF MadeOf, Understood, Void
<1>5. ~(/\ r.pending.tool = "create_order_draft" /\ Late("create_order_draft")
        /\ answer.kind = "ok" /\ answer.expires <= clock)
  BY <1>1, <1>2 DEF RefusedDraft
<1>6. ~(r.pending.tool = "reconcile_account" /\ answer.kind = "arguments" /\ r.cancelled)
  BY <1>1, <1>2 DEF RefusedReconciliation
<1>7. ~(/\ answer.kind = "denied" /\ r.calls >= MaxToolCalls
        /\ r.invalid + 1 < MaxInvalidCalls /\ r.state \notin AfterExecutionStates
        /\ ~Late(r.pending.tool))
  BY <1>1, <1>2 DEF RefusedDenial
<1> HIDE DEF r, answer
<1>8. CASE answer.kind \in {"ok", "failed"}
  <2>1. Replayable(r, ResponseEvents(r, r.pending, answer))
    BY <1>1, <1>2, <1>3, <1>4, <1>5, <1>8, ResponseStored
  <2> QED
    BY <1>1, <1>2, <1>8, <2>1 DEF r
<1>9. CASE answer.kind \in {"denied", "arguments", "raised"}
  <2>1. Replayable(r, ExceptionEvents(r, r.pending, answer))
    BY <1>1, <1>2, <1>3, <1>6, <1>7, <1>9, ExceptionStored
  <2> QED
    BY <1>1, <1>2, <1>9, <2>1 DEF r
<1> QED
  BY <1>1, <1>8, <1>9

(* As long as no one else moved the run, the save of an outcome is not     *)
(* refused: the service and the replay agree on every outcome but three.   *)
THEOREM OutcomesStored == Spec => []OutcomesCanBeStored
<1>1. Init => OutcomeInv
  BY DEF Init, OutcomeInv
<1>2. TypeInv /\ OutcomeInv /\ [Next]_vars => OutcomeInv'
  BY OutcomeInvStays
<1>3. TypeInv /\ OutcomeInv => OutcomesCanBeStored
  BY OutcomeStored DEF OutcomesCanBeStored, Recordable, Stored
<1> QED
  BY <1>1, <1>2, <1>3, RunsStaySound, PTL DEF Spec

=============================================================================
