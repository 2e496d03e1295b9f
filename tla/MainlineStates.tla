--------------------------- MODULE MainlineStates ---------------------------
(* The lifecycle of leading industries of                                  *)
(* packages/quant_agent/features/mainline: an engine that is given, once   *)
(* per session, the ranked industries and the session's stabilized market  *)
(* state, and keeps for every industry a window of ranks and, for those it *)
(* tracks, EMERGING, CONFIRMED, CROWDED or FADING.                         *)
(*                                                                         *)
(* An engine is a value, as in MarketRegime.  Rule weights are in units of *)
(* 1/Whole; a mainline score in units of 1/MainlinePoint.                  *)
EXTENDS MarketRegime, Sequences, SequencesExt

CONSTANTS MainlinePolicy, Whole

Heat == {"TURNOVER_GROWTH", "NEW_HIGH_HEAT", "TURNOVER_CONCENTRATION"}

\* MainlineConfig.__post_init__
ValidMainlinePolicy(p) ==
    /\ {p.top_k, p.retention} \subseteq Nat \ {0}
    /\ p.window \in Nat \ {0, 1}
    /\ p.minimum_hits \in 2 .. p.window
    /\ p.regimes # {} /\ p.regimes \subseteq Regimes
    /\ p.crowding_signals \in 1 .. 3
    /\ p.minimum_strength \in -100 .. 100
    /\ p.growth_min \in Nat
    /\ {p.new_high_min, p.share_min} \subseteq Percent
    /\ {p.strength_weight, p.rank_weight, p.persistence_weight} \subseteq Nat
    /\ p.strength_weight + p.rank_weight + p.persistence_weight = Whole

ASSUME MainlineStatesAssumption ==
    /\ Whole \in Nat \ {0}
    /\ ValidMainlinePolicy(MainlinePolicy)

MainlinePoint == 2 * MainlinePolicy.top_k * MainlinePolicy.window * Whole

\* MainlineEngine.__init__
NewMainlineEngine ==
    [last |-> 0, histories |-> << >>, tracked |-> << >>, sessions |-> 0]

Known(table, id) == IF id \in DOMAIN table THEN table[id] ELSE Missing

-----------------------------------------------------------------------------
(* A snapshot of ranked industries: its session, data version and, for the *)
(* industries it lists, a row with the status, the rank and strength of a  *)
(* READY one and what its heat is read from.                               *)

\* _validate_next (the regime outcome must be the one of the same session)
ConsumesOutcome(engine, snapshot, outcome) ==
    /\ snapshot.session = outcome.session
    /\ snapshot.version = outcome.version
    /\ snapshot.session > engine.last

ReadyRows(rows) == {id \in DOMAIN rows : rows[id].ready}

\* _source_rows: ready ranks are contiguous from one
WellRanked(rows) ==
    {rows[id].rank : id \in ReadyRows(rows)} = 1 .. Cardinality(ReadyRows(rows))

Rank(rows, id) == IF id \in ReadyRows(rows) THEN rows[id].rank ELSE Missing
InTopK(rank) == rank # Missing /\ rank <= MainlinePolicy.top_k

Latest(seq, n) == SubSeq(seq, Max({1, Len(seq) - n + 1}), Len(seq))

\* _next_histories: an industry seen for the first time missed the sessions before
PriorRanks(engine, id) ==
    IF id \in DOMAIN engine.histories THEN engine.histories[id]
    ELSE [k \in 1 .. Min({engine.sessions, MainlinePolicy.window - 1}) |-> Missing]
NextHistories(engine, rows) ==
    [id \in DOMAIN engine.histories \cup DOMAIN rows |->
        Latest(Append(PriorRanks(engine, id), Rank(rows, id)),
               MainlinePolicy.window)]

\* _persistence
Hits(ranks) == Cardinality({k \in DOMAIN ranks : InTopK(ranks[k])})

\* _crowding_signals
CrowdingSignals(rows, id) ==
    IF id \notin ReadyRows(rows) THEN {}
    ELSE {h \in Heat :
            CASE h = "TURNOVER_GROWTH" ->
                    /\ rows[id].growth # Missing
                    /\ rows[id].growth >= MainlinePolicy.growth_min
              [] h = "NEW_HIGH_HEAT" ->
                    /\ rows[id].new_high # Missing
                    /\ rows[id].new_high >= MainlinePolicy.new_high_min
              [] h = "TURNOVER_CONCENTRATION" ->
                    Max(rows[id].shares \cup {0}) >= MainlinePolicy.share_min}

\* the gates of _decide_industry
MarketEligible(outcome) == outcome.final \in MainlinePolicy.regimes
StrengthEligible(rows, id) ==
    id \in ReadyRows(rows) /\ rows[id].strength >= MainlinePolicy.minimum_strength
Confirmable(rows, id, ranks, previous, outcome) ==
    /\ MarketEligible(outcome)
    /\ StrengthEligible(rows, id)
    /\ Hits(ranks) >= MainlinePolicy.minimum_hits

\* a confirmed industry that lost the market or its strength fades first
StillEmerging(rows, id, previous, outcome) ==
    /\ InTopK(Rank(rows, id))
    /\ ~(/\ previous # Missing
         /\ previous.state \in {"CONFIRMED", "CROWDED"}
         /\ ~(MarketEligible(outcome) /\ StrengthEligible(rows, id)))

\* _decide_industry: the next tracked state, or Missing when it is forgotten
\* (FadedMutant: the fading counter starts anew each session)
FadedMutant(previous) == 1
Faded(previous) == IF previous.state = "FADING" THEN previous.fading + 1 ELSE 1

NextTracked(rows, id, ranks, previous, outcome) ==
    CASE Confirmable(rows, id, ranks, previous, outcome) ->
            [state  |-> IF /\ InTopK(Rank(rows, id))
                           /\ Cardinality(CrowdingSignals(rows, id))
                                 >= MainlinePolicy.crowding_signals
                        THEN "CROWDED" ELSE "CONFIRMED",
             fading |-> 0]
      [] ~Confirmable(rows, id, ranks, previous, outcome)
         /\ StillEmerging(rows, id, previous, outcome) ->
            [state |-> "EMERGING", fading |-> 0]
      [] OTHER ->
            IF \/ previous = Missing
               \/ /\ ~InTopK(Rank(rows, id))
                  /\ Faded(previous) > MainlinePolicy.retention
            THEN Missing
            ELSE [state |-> "FADING", fading |-> Faded(previous)]

\* _mainline_score
MainlineScore(rows, id, ranks) ==
    LET k == MainlinePolicy.top_k
        w == MainlinePolicy.window
        strength == IF id \in ReadyRows(rows)
                    THEN Max({0, Min({200, rows[id].strength + 100})}) ELSE 0
        place    == IF InTopK(Rank(rows, id)) THEN k - rows[id].rank + 1 ELSE 0
    IN  MainlinePolicy.strength_weight * strength * k * w
          + 200 * MainlinePolicy.rank_weight * place * w
          + 200 * MainlinePolicy.persistence_weight * Hits(ranks) * k

\* process: the next engine and the snapshot of the tracked industries
Candidates(engine, rows) ==
    {id \in DOMAIN rows : InTopK(Rank(rows, id))} \cup DOMAIN engine.tracked

ProcessMainlines(engine, snapshot, outcome) ==
    LET rows == snapshot.rows
        histories == NextHistories(engine, rows)
        next == [id \in Candidates(engine, rows) |->
                    NextTracked(rows, id, histories[id],
                                Known(engine.tracked, id), outcome)]
        kept == {id \in DOMAIN next : next[id] # Missing}
    IN  IF ~ConsumesOutcome(engine, snapshot, outcome) \/ ~WellRanked(rows)
        THEN Refused
        ELSE [engine |->
                [last |-> snapshot.session, histories |-> histories,
                 tracked |-> [id \in kept |-> next[id]],
                 sessions |-> engine.sessions + 1],
              mainline |->
                [session |-> snapshot.session, version |-> snapshot.version,
                 outcome |-> outcome,
                 industries |->
                    [id \in kept |->
                        [state |-> next[id].state,
                         score |-> MainlineScore(rows, id, histories[id]),
                         crowding |-> Cardinality(CrowdingSignals(rows, id))]]]]
=============================================================================
