------------------------ MODULE OrderSafeguardsProofs ------------------------
(***************************************************************************)
(* What TLAPS proves of the two safeguards an order passes before it       *)
(* reaches the paper service, each for every value of its constants.       *)
(*                                                                         *)
(* The kill switch (KillSwitch), for every set of accounts, keys and       *)
(* sources: the type invariant, that the gate never lets an order in or    *)
(* keeps it in under a switch that is on, that a block is final, that      *)
(* every scope's chain explains its state and its recoveries, and that     *)
(* every event has the one cause it names.  With it the repository         *)
(* implements OrderGate.                                                   *)
(*                                                                         *)
(* The agent's tools (OrderTools), for any number of threads, keys,        *)
(* decisions and times.  What they promise rests on two tables that never  *)
(* hold two rows for one key (DraftsAreUnique, ReceiptsAreUnique), and on  *)
(* every answer being a row of them (AnswerIsStored).  A retry of an       *)
(* answered order is answered before it can be refused (KnownIsAnswered).  *)
(* The tables only grow, so what an answer or another thread rests on      *)
(* stays.                                                                  *)
(***************************************************************************)
EXTENDS KillSwitch, OrderTools, TLAPS

-----------------------------------------------------------------------------
(* PART ONE: THE KILL SWITCH                                               *)

EventTypes == {"INITIALIZED", "ACTIVATED", "TRIGGER_ADDED", "RECOVERED", "ORDER_BLOCKED"}

-----------------------------------------------------------------------------
(* The three states a command can produce are states.                      *)
LEMMA InitialStateType ==
  ASSUME NEW at \in Time
  PROVE  InitialState(at) \in State
BY KillSwitchAssumption, PaperOrdersAssumption DEF InitialState, State, Time

LEMMA ActivatedStateType ==
  ASSUME NEW st \in State, st.revision < MaxRevision,
         NEW incident \in Incident, NEW at \in Time
  PROVE  ActivatedState(st, incident, at) \in State
<1>1. st.revision + 1 \in 0..MaxRevision
  BY KillSwitchAssumption DEF State
<1>2. incident.source \in Sources /\ incident.at \in Time
  BY DEF Incident
<1>3. (IF st.status = "ACTIVE" THEN st.since ELSE incident.at) \in Time \cup {None}
  BY <1>2 DEF State
<1>4. st.incidents \cup {incident.source} \in SUBSET Sources
  BY <1>2 DEF State
<1> QED BY <1>1, <1>3, <1>4 DEF ActivatedState, State

LEMMA RecoveredStateType ==
  ASSUME NEW st \in State, st.revision < MaxRevision, NEW at \in Time
  PROVE  RecoveredState(st, at) \in State
<1>1. st.revision + 1 \in 0..MaxRevision
  BY KillSwitchAssumption DEF State
<1> QED BY <1>1 DEF RecoveredState, State

(* A commit of well-typed data keeps the three variables it writes typed.  *)
LEMMA CommitType ==
  ASSUME TypeOK, NEW s \in Scopes, NEW k \in OpKeys, NEW op \in Operation,
         NEW type \in EventTypes, NEW after \in State,
         Commit(s, k, op, type, after)
  PROVE  /\ ks' \in [Scopes -> State \cup {None}]
         /\ chain' \in [Scopes -> Seq(Event)]
         /\ ops' \in [Scopes -> [OpKeys -> CommittedOp \cup {None}]]
<1> DEFINE e == [type |-> type, before |-> ks[s], after |-> after,
                 cause |-> op, at |-> after.changedAt]
<1>1. ks' \in [Scopes -> State \cup {None}]
  BY DEF TypeOK, Commit
<1>2. e \in Event
  BY DEF TypeOK, Event, EventTypes, State
<1>3. chain[s] \in Seq(Event)
  BY DEF TypeOK
<1>4. chain' \in [Scopes -> Seq(Event)]
  <2>1. Append(chain[s], e) \in Seq(Event)
    BY <1>2, <1>3
  <2> QED BY <2>1 DEF TypeOK, Commit
<1>5. ops' \in [Scopes -> [OpKeys -> CommittedOp \cup {None}]]
  <2>1. [op |-> op, event |-> Len(chain[s]) + 1] \in CommittedOp
    BY <1>3 DEF CommittedOp
  <2> QED BY <2>1 DEF TypeOK, Commit
<1> QED BY <1>1, <1>4, <1>5

-----------------------------------------------------------------------------
(* The type invariant of every reachable state: all variables of the       *)
(* repository keep their shape through every command, gate and crash.      *)
THEOREM KillSwitchTypeOK == Spec => []TypeOK
<1>1. Init => TypeOK
  BY PaperOrdersAssumption DEF Init, TypeOK, Time
<1>2. TypeOK /\ [Next]_vars => TypeOK'
  <2> SUFFICES ASSUME TypeOK, [Next]_vars PROVE TypeOK'
    OBVIOUS
  <2>1. CASE Tick
    BY <2>1, PaperOrdersAssumption DEF Tick, TypeOK, Time
  <2>2. ASSUME NEW s \in Scopes, NEW k \in OpKeys, Initialize(s, k) PROVE TypeOK'
    <3>1. PICK at \in 0..clock :
            Commit(s, k, [kind |-> "INITIALIZE", at |-> at], "INITIALIZED", InitialState(at))
      BY <2>2 DEF Initialize
    <3>2. at \in Time
      BY <3>1, PaperOrdersAssumption DEF TypeOK, Time
    <3>3. [kind |-> "INITIALIZE", at |-> at] \in Operation
      BY <3>2 DEF Operation, InitializeOp
    <3>4. InitialState(at) \in State
      BY <3>2, InitialStateType
    <3> QED BY <2>2, <3>1, <3>3, <3>4, CommitType
            DEF EventTypes, Initialize, TypeOK, gateVars
  <2>3. ASSUME NEW s \in Scopes, NEW k \in OpKeys, NEW incident \in Incident,
               Activate(s, k, incident)
        PROVE  TypeOK'
    <3> DEFINE Type == IF ks[s].status = "ACTIVE" THEN "TRIGGER_ADDED" ELSE "ACTIVATED"
    <3>1. PICK at \in incident.at..clock :
            Commit(s, k, [kind |-> "ACTIVATE", incident |-> incident, at |-> at], Type,
                   ActivatedState(ks[s], incident, Later(at, ks[s].changedAt)))
      BY <2>3 DEF Activate
    <3>2. incident.at \in Time /\ incident.source \in Sources
      BY DEF Incident
    <3>3. at \in Time
      BY <3>1, <3>2, PaperOrdersAssumption DEF TypeOK, Time
    <3>4. ks[s] \in State /\ ks[s].revision < MaxRevision
      BY <2>3 DEF Activate, TypeOK
    <3>5. Later(at, ks[s].changedAt) \in Time
      BY <3>3, <3>4 DEF Later, State
    <3>6. ActivatedState(ks[s], incident, Later(at, ks[s].changedAt)) \in State
      BY <3>4, <3>5, ActivatedStateType
    <3>7. [kind |-> "ACTIVATE", incident |-> incident, at |-> at] \in Operation
      BY <3>3 DEF Operation, ActivateOp
    <3>8. Type \in EventTypes
      BY DEF EventTypes
    <3>9. incidentAt' \in [Scopes -> [Sources -> Time \cup {None}]]
      BY <2>3, <3>2 DEF Activate, TypeOK
    <3>10. UNCHANGED <<clock, gateVars>>
      BY <2>3 DEF Activate
    <3>11. /\ ks' \in [Scopes -> State \cup {None}]
           /\ chain' \in [Scopes -> Seq(Event)]
           /\ ops' \in [Scopes -> [OpKeys -> CommittedOp \cup {None}]]
      BY <3>1, <3>6, <3>7, <3>8, CommitType
    <3> QED BY <3>9, <3>10, <3>11 DEF TypeOK, gateVars
  <2>4. ASSUME NEW s \in Scopes, NEW k \in OpKeys, Recover(s, k) PROVE TypeOK'
    <3>1. PICK approved \in ApprovedStates(s), expires \in 1..MaxTime + 1 :
            \E at \in approved.changedAt..expires - 1 :
              /\ at <= MaxTime
              /\ ks[s].revision < MaxRevision
              /\ ApprovalHolds(s, approved, expires, at)
              /\ Commit(s, k,
                    [kind |-> "RECOVER", approved |-> approved, expires |-> expires, at |-> at],
                    "RECOVERED", RecoveredState(ks[s], clock))
              /\ UNCHANGED <<clock, incidentAt, gateVars>>
      BY <2>4 DEF Recover
    <3>2. approved \in State
      <4>1. chain[s] \in Seq(Event)
        BY DEF TypeOK
      <4>2. PICK i \in DOMAIN chain[s] : approved = chain[s][i].after
        BY <3>1 DEF ApprovedStates
      <4>3. chain[s][i] \in Event
        BY <4>1, <4>2
      <4> QED BY <4>2, <4>3 DEF Event
    <3>3. PICK at \in approved.changedAt..expires - 1 :
              /\ at <= MaxTime
              /\ ks[s].revision < MaxRevision
              /\ ApprovalHolds(s, approved, expires, at)
              /\ Commit(s, k,
                    [kind |-> "RECOVER", approved |-> approved, expires |-> expires, at |-> at],
                    "RECOVERED", RecoveredState(ks[s], clock))
              /\ UNCHANGED <<clock, incidentAt, gateVars>>
      BY <3>1
    <3>4. at \in Time
      BY <3>2, <3>3, PaperOrdersAssumption DEF State, Time
    <3>5. [kind |-> "RECOVER", approved |-> approved, expires |-> expires, at |-> at] \in Operation
      BY <3>1, <3>2, <3>4, PaperOrdersAssumption DEF Operation, RecoverOp
    <3>6. ks[s] \in State
      BY <3>2, <3>3 DEF ApprovalHolds
    <3>7. RecoveredState(ks[s], clock) \in State
      BY <3>3, <3>6, RecoveredStateType DEF TypeOK
    <3>8. /\ ks' \in [Scopes -> State \cup {None}]
          /\ chain' \in [Scopes -> Seq(Event)]
          /\ ops' \in [Scopes -> [OpKeys -> CommittedOp \cup {None}]]
      BY <3>3, <3>5, <3>7, CommitType DEF EventTypes
    <3> QED BY <3>3, <3>8 DEF TypeOK, gateVars
  <2>5. ASSUME NEW order \in Order, NEW at \in Time, GateUnavailable(order, at)
        PROVE  TypeOK'
    <3>1. [at |-> at, reasons |-> {"STATE_UNAVAILABLE"}, event |-> 0] \in Decision
      BY DEF Decision
    <3> QED BY <2>5, <3>1 DEF GateUnavailable, StoreBlock, Bind, TypeOK, adminVars, Order
  <2>6. ASSUME NEW order \in Order, NEW at \in Time, GateBlocked(order, at)
        PROVE  TypeOK'
    <3> DEFINE primary == IF Global \in ActiveScopes(order) THEN Global ELSE order.account
               e == [type |-> "ORDER_BLOCKED", before |-> ks[primary], after |-> ks[primary],
                     cause |-> [kind |-> "ORDER_BLOCKED", order |-> order, at |-> at],
                     at |-> at]
               d == [at |-> at, event |-> Len(chain[primary]) + 1,
                     reasons |-> {IF s = Global THEN "GLOBAL_ACTIVE" ELSE "ACCOUNT_ACTIVE"
                                    : s \in ActiveScopes(order)}]
    <3>1. order.account \in Accounts /\ order.key \in OrderKeys
      BY DEF Order
    <3>2. primary \in {Global, order.account} /\ primary \in Scopes
      BY <3>1 DEF Scopes
    <3>3. ks[primary] \in State
      BY <2>6, <3>2 DEF GateBlocked, StateAvailable, TypeOK
    <3>4. e \in Event
      <4>1. [kind |-> "ORDER_BLOCKED", order |-> order, at |-> at] \in GateCheck
        BY DEF GateCheck
      <4> HIDE DEF primary
      <4> QED BY <3>3, <4>1 DEF Event
    <3>5. chain[primary] \in Seq(Event)
      BY <3>2 DEF TypeOK
    <3>6. d \in Decision
      <4>1. Len(chain[primary]) + 1 \in Nat
        BY <3>5
      <4>2. {IF s = Global THEN "GLOBAL_ACTIVE" ELSE "ACCOUNT_ACTIVE" : s \in ActiveScopes(order)}
              \in SUBSET {"GLOBAL_ACTIVE", "ACCOUNT_ACTIVE", "STATE_UNAVAILABLE"}
        OBVIOUS
      <4> QED BY <4>1, <4>2 DEF Decision
    <3>7. chain' = [chain EXCEPT ![primary] = Append(@, e)]
      BY <2>6 DEF GateBlocked, LogBlock
    <3>8. chain' \in [Scopes -> Seq(Event)]
      <4>1. Append(chain[primary], e) \in Seq(Event)
        BY <3>4, <3>5
      <4> HIDE DEF e, primary
      <4> QED BY <3>2, <3>7, <4>1 DEF TypeOK
    <3>9. StoreBlock(order, d)
      BY <2>6 DEF GateBlocked
    <3>10. /\ gateOf' \in [Accounts -> [OrderKeys -> Order \cup {None}]]
           /\ decided' \in [Accounts -> [OrderKeys -> Decision \cup {None}]]
      <4> HIDE DEF d
      <4> QED BY <3>1, <3>6, <3>9 DEF StoreBlock, Bind, TypeOK
    <3>11. UNCHANGED <<clock, adminVars, guard>>
      BY <2>6 DEF GateBlocked
    <3> QED BY <3>8, <3>10, <3>11 DEF TypeOK, adminVars
  <2>7. ASSUME NEW order \in Order, NEW at \in Time, GateAllowed(order, at)
        PROVE  TypeOK'
    BY <2>7 DEF GateAllowed, Bind, TypeOK, adminVars, Order
  <2>8. CASE GateExit
    BY <2>8 DEF GateExit, TypeOK, adminVars
  <2>9. CASE Crash
    BY <2>9 DEF Crash, TypeOK, adminVars, Order
  <2>10. CASE UNCHANGED vars
    BY <2>10 DEF TypeOK, vars
  <2> QED BY <2>1, <2>2, <2>3, <2>4, <2>5, <2>6, <2>7, <2>8, <2>9, <2>10
          DEF Next, ReplayOperation, GateReplay
<1> QED BY <1>1, <1>2, PTL DEF Spec

-----------------------------------------------------------------------------
(* The invariant the gate rests on; with the type invariant it is          *)
(* inductive: every command needs the lock, so a held guard keeps the      *)
(* switches it looked at, and a held guard is for a key never blocked.     *)
GateInv == TypeOK /\ GuardSeesInactive

LEMMA CommandKeepsGuard ==
  ASSUME TypeOK, GuardSeesInactive, LockFree, UNCHANGED guard
  PROVE  GuardSeesInactive'
BY DEF LockFree, GuardSeesInactive

(* While an order is inside the gate both its switches are off and no      *)
(* newer than its check, whatever commands, retries and crashes happen.    *)
THEOREM KillSwitchGuardSeesInactive == Spec => []GuardSeesInactive
<1>1. Init => GuardSeesInactive
  BY DEF Init, GuardSeesInactive
<1>2. TypeOK /\ GuardSeesInactive /\ [Next]_vars => GuardSeesInactive'
  <2> SUFFICES ASSUME TypeOK, GuardSeesInactive, [Next]_vars PROVE GuardSeesInactive'
    OBVIOUS
  <2>1. CASE Tick
    BY <2>1 DEF Tick, GuardSeesInactive
  <2>2. ASSUME NEW s \in Scopes, NEW k \in OpKeys, Initialize(s, k)
        PROVE  GuardSeesInactive'
    BY <2>2, CommandKeepsGuard DEF Initialize, gateVars
  <2>3. ASSUME NEW s \in Scopes, NEW k \in OpKeys, NEW incident \in Incident,
               Activate(s, k, incident)
        PROVE  GuardSeesInactive'
    BY <2>3, CommandKeepsGuard DEF Activate, gateVars
  <2>4. ASSUME NEW s \in Scopes, NEW k \in OpKeys, Recover(s, k)
        PROVE  GuardSeesInactive'
    BY <2>4, CommandKeepsGuard DEF Recover, gateVars
  <2>5. ASSUME NEW order \in Order, NEW at \in Time,
               GateUnavailable(order, at) \/ GateBlocked(order, at)
        PROVE  GuardSeesInactive'
    BY <2>5, CommandKeepsGuard DEF GateUnavailable, GateBlocked, Undecided
  <2>6. ASSUME NEW order \in Order, NEW at \in Time, GateAllowed(order, at)
        PROVE  GuardSeesInactive'
    <3>1. order.account \in Accounts /\ order.key \in OrderKeys
      BY DEF Order
    <3>2. /\ guard' = [order |-> order, at |-> at,
                       fresh |-> gateOf[order.account][order.key] = None]
          /\ gateOf' = [gateOf EXCEPT ![order.account][order.key] = order]
          /\ decided' = decided /\ ks' = ks
      BY <2>6 DEF GateAllowed, Bind, adminVars
    <3>3. gateOf'[order.account][order.key] = order
      BY <3>1, <3>2 DEF TypeOK
    <3>4. decided[order.account][order.key] = None
      BY <2>6 DEF GateAllowed, Undecided
    <3>5. ASSUME NEW s \in {Global, order.account}
          PROVE  ks[s] # None /\ ks[s].status = "INACTIVE" /\ ks[s].changedAt <= at
      <4>1. ks[s] # None /\ ks[s].changedAt <= at
        BY <2>6, <3>5 DEF GateAllowed, StateAvailable
      <4>2. ks[s].status # "ACTIVE"
        BY <2>6, <3>5 DEF GateAllowed, ActiveScopes
      <4>3. ks[s] \in State
        BY <3>1, <3>5, <4>1 DEF TypeOK, Scopes
      <4> QED BY <4>1, <4>2, <4>3 DEF State
    <3> QED BY <3>2, <3>3, <3>4, <3>5 DEF GuardSeesInactive
  <2>7. CASE GateExit
    BY <2>7 DEF GateExit, GuardSeesInactive
  <2>8. CASE Crash
    BY <2>8 DEF Crash, GuardSeesInactive
  <2>9. CASE UNCHANGED vars
    BY <2>9 DEF GuardSeesInactive, vars
  <2> QED BY <2>1, <2>2, <2>3, <2>4, <2>5, <2>6, <2>7, <2>8, <2>9
          DEF Next, ReplayOperation, GateReplay
<1> QED BY <1>1, <1>2, KillSwitchTypeOK, PTL DEF Spec

-----------------------------------------------------------------------------
(* What BlockIsFinal asks of one step.                                     *)
BlockIsFinalStep ==
  \A a \in Accounts, k \in OrderKeys :
    /\ decided[a][k] # None => /\ decided'[a][k] = decided[a][k]
                               /\ gateOf'[a][k] = gateOf[a][k]
    /\ gateOf[a][k] # None =>
         \/ gateOf'[a][k] = gateOf[a][k]
         \/ /\ gateOf'[a][k] = None
            /\ guard # None /\ guard.fresh /\ guard.order = gateOf[a][k]
            /\ guard' = None

(* Deciding or admitting an order touches only its own, undecided key.     *)
LEMMA GateKeepsBlocks ==
  ASSUME TypeOK, NEW order \in Order, Undecided(order), Bind(order),
         \A a \in Accounts, k \in OrderKeys :
           a # order.account \/ k # order.key => decided'[a][k] = decided[a][k]
  PROVE  BlockIsFinalStep
<1>1. order.account \in Accounts /\ order.key \in OrderKeys
  BY DEF Order
<1>2. ASSUME NEW a \in Accounts, NEW k \in OrderKeys
      PROVE  \/ a = order.account /\ k = order.key /\ gateOf'[a][k] = order
             \/ (a # order.account \/ k # order.key) /\ gateOf'[a][k] = gateOf[a][k]
  BY <1>1 DEF Bind, TypeOK
<1>3. gateOf[order.account][order.key] \in {None, order} /\ decided[order.account][order.key] = None
  BY DEF Undecided, KeyAccepts
<1> QED BY <1>2, <1>3 DEF BlockIsFinalStep

(* So no step takes a stored decision back, nor a key from its order.      *)
LEMMA BlocksStay ==
  ASSUME TypeOK, GuardSeesInactive, [Next]_vars
  PROVE  BlockIsFinalStep
<1>1. ASSUME UNCHANGED <<gateOf, decided>> PROVE BlockIsFinalStep
  BY <1>1 DEF BlockIsFinalStep
<1>2. CASE Tick
  BY <1>1, <1>2 DEF Tick
<1>3. ASSUME NEW s \in Scopes, NEW k \in OpKeys, Initialize(s, k) PROVE BlockIsFinalStep
  BY <1>1, <1>3 DEF Initialize, gateVars
<1>4. ASSUME NEW s \in Scopes, NEW k \in OpKeys, NEW incident \in Incident,
             Activate(s, k, incident)
      PROVE  BlockIsFinalStep
  BY <1>1, <1>4 DEF Activate, gateVars
<1>5. ASSUME NEW s \in Scopes, NEW k \in OpKeys, Recover(s, k) PROVE BlockIsFinalStep
  BY <1>1, <1>5 DEF Recover, gateVars
<1>6. ASSUME NEW order \in Order, NEW d, Undecided(order), StoreBlock(order, d)
      PROVE  BlockIsFinalStep
  <2>1. decided' = [decided EXCEPT ![order.account][order.key] = d] /\ Bind(order)
    BY <1>6 DEF StoreBlock
  <2>2. \A a \in Accounts, k \in OrderKeys :
          a # order.account \/ k # order.key => decided'[a][k] = decided[a][k]
    BY <2>1 DEF TypeOK
  <2> QED BY <1>6, <2>1, <2>2, GateKeepsBlocks
<1>7. ASSUME NEW order \in Order, NEW at \in Time,
             GateUnavailable(order, at) \/ GateBlocked(order, at)
      PROVE  BlockIsFinalStep
  BY <1>6, <1>7 DEF GateUnavailable, GateBlocked
<1>8. ASSUME NEW order \in Order, NEW at \in Time, GateAllowed(order, at)
      PROVE  BlockIsFinalStep
  BY <1>8, GateKeepsBlocks DEF GateAllowed
<1>9. CASE GateExit
  BY <1>1, <1>9 DEF GateExit
<1>10. CASE Crash
  <2>1. guard # None /\ guard' = None /\ decided' = decided
    BY <1>10 DEF Crash
  <2>2. CASE guard.fresh
    <3>1. guard.order \in Order
      BY <2>1 DEF TypeOK
    <3>2. guard.order.account \in Accounts /\ guard.order.key \in OrderKeys
      BY <3>1 DEF Order
    <3>3. /\ gateOf[guard.order.account][guard.order.key] = guard.order
          /\ decided[guard.order.account][guard.order.key] = None
      BY <2>1 DEF GuardSeesInactive
    <3>4. gateOf' = [gateOf EXCEPT ![guard.order.account][guard.order.key] = None]
      BY <1>10, <2>2 DEF Crash
    <3>5. ASSUME NEW a \in Accounts, NEW k \in OrderKeys
          PROVE  \/ a = guard.order.account /\ k = guard.order.key /\ gateOf'[a][k] = None
                 \/ (a # guard.order.account \/ k # guard.order.key)
                    /\ gateOf'[a][k] = gateOf[a][k]
      BY <3>2, <3>4 DEF TypeOK
    <3> QED BY <2>1, <2>2, <3>3, <3>5 DEF BlockIsFinalStep
  <2>3. CASE ~guard.fresh
    BY <1>1, <1>10, <2>1, <2>3 DEF Crash
  <2> QED BY <2>2, <2>3
<1>11. CASE UNCHANGED vars
  BY <1>1, <1>11 DEF vars
<1> QED BY <1>2, <1>3, <1>4, <1>5, <1>7, <1>8, <1>9, <1>10, <1>11
        DEF Next, ReplayOperation, GateReplay

(* A stored BLOCKED decision and its key's order are never taken back; a   *)
(* reservation is lost only with the guard that made it.                   *)
THEOREM KillSwitchBlockIsFinal == Spec => BlockIsFinal
<1>1. GateInv /\ [Next]_vars => BlockIsFinalStep
  BY BlocksStay DEF GateInv
<1>2. Spec => []GateInv
  BY KillSwitchTypeOK, KillSwitchGuardSeesInactive, PTL DEF GateInv
<1>3. [BlockIsFinalStep]_vars =>
        [\A a \in Accounts, k \in OrderKeys :
           /\ decided[a][k] # None => /\ decided'[a][k] = decided[a][k]
                                      /\ gateOf'[a][k] = gateOf[a][k]
           /\ gateOf[a][k] # None =>
                \/ gateOf'[a][k] = gateOf[a][k]
                \/ /\ gateOf'[a][k] = None
                   /\ guard # None /\ guard.fresh /\ guard.order = gateOf[a][k]
                   /\ guard' = None]_vars
  BY DEF BlockIsFinalStep
<1> QED BY <1>1, <1>2, <1>3, PTL DEF Spec, BlockIsFinal

-----------------------------------------------------------------------------
(* The history of one scope, as properties of its chain and its state.     *)
OpenOf(c, i) ==
  {c[j].cause.incident.source :
     j \in {n \in 1..i : /\ c[n].type \in {"ACTIVATED", "TRIGGER_ADDED"}
                         /\ \A m \in n..i : c[m].type # "RECOVERED"}}

Readable(c, st) ==
  IF c = <<>>
    THEN st = None
    ELSE /\ Begins(c[1])
         /\ \A i \in 2..Len(c) : Follows(c[i - 1], c[i])
         /\ c[Len(c)].after = st

SumsUp(c) ==
  \A i \in DOMAIN c :
    LET st == c[i].after IN
    /\ st.incidents = OpenOf(c, i)
    /\ (st.status = "ACTIVE") <=> (OpenOf(c, i) # {})
    /\ (st.status = "ACTIVE") => st.since <= st.changedAt
    /\ i > 1 => c[i - 1].after.changedAt <= st.changedAt

ApproverSaw(c) ==
  \A i \in DOMAIN c : c[i].type = "RECOVERED" =>
    /\ c[i].cause.approved.incidents = OpenOf(c, i - 1)
    /\ c[i].cause.approved = c[i].before
    /\ c[i].at < c[i].cause.expires

ActiveIsDated(c) ==
  \A i \in DOMAIN c : c[i].after.status = "ACTIVE" => c[i].after.since \in Time

HistoryOK(c, st) == Readable(c, st) /\ SumsUp(c) /\ ActiveIsDated(c) /\ ApproverSaw(c)

(* What the repository appends to a scope in state st.                     *)
Caused(st, e) ==
  \/ /\ e.type = "INITIALIZED" /\ st = None
     /\ e.before = None /\ e.after = InitialState(e.at)
  \/ /\ st \in State /\ e.before = st
     /\ \/ /\ e.type = IF st.status = "ACTIVE" THEN "TRIGGER_ADDED" ELSE "ACTIVATED"
           /\ e.cause.incident \in Incident
           /\ e.after = ActivatedState(st, e.cause.incident, e.at)
           /\ st.changedAt <= e.at /\ e.cause.incident.at <= e.at
        \/ /\ e.type = "RECOVERED" /\ st.status = "ACTIVE"
           /\ e.after = RecoveredState(st, e.at)
           /\ st.changedAt <= e.at
           /\ e.cause.approved = st /\ e.at < e.cause.expires
        \/ /\ e.type = "ORDER_BLOCKED" /\ e.after = st

LEMMA OpenOfPrefix ==
  ASSUME NEW c \in Seq(Event), NEW e, NEW i \in 0..Len(c)
  PROVE  OpenOf(Append(c, e), i) = OpenOf(c, i)
<1>1. \A n \in 1..Len(c) : Append(c, e)[n] = c[n]
  OBVIOUS
<1>2. \A n \in 1..i : n \in 1..Len(c) /\ \A m \in n..i : m \in 1..Len(c)
  OBVIOUS
<1> DEFINE d == Append(c, e)
<1> HIDE DEF d
<1>3. \A n \in 1..Len(c) : d[n] = c[n]
  BY <1>1 DEF d
<1>4. OpenOf(d, i) = OpenOf(c, i)
  BY <1>2, <1>3 DEF OpenOf
<1> QED BY <1>4 DEF d

LEMMA OpenOfAppend ==
  ASSUME NEW c \in Seq(Event), NEW e
  PROVE  LET n == Len(c) + 1
             open == OpenOf(Append(c, e), n)
         IN /\ e.type \in {"ACTIVATED", "TRIGGER_ADDED"} =>
                 open = OpenOf(c, Len(c)) \cup {e.cause.incident.source}
            /\ e.type = "RECOVERED" => open = {}
            /\ e.type \in {"INITIALIZED", "ORDER_BLOCKED"} => open = OpenOf(c, Len(c))
<1> DEFINE d == Append(c, e)
           n == Len(c) + 1
<1>1. \A m \in 1..Len(c) : d[m] = c[m]
  OBVIOUS
<1>2. d[n] = e
  OBVIOUS
<1>3. Len(c) \in Nat
  OBVIOUS
<1> HIDE DEF d
<1> DEFINE Opens(s, j, i) == /\ s[j].type \in {"ACTIVATED", "TRIGGER_ADDED"}
                             /\ \A m \in j..i : s[m].type # "RECOVERED"
<1>4. ASSUME e.type # "RECOVERED", NEW j \in 1..Len(c)
      PROVE  Opens(d, j, n) <=> Opens(c, j, Len(c))
  BY <1>1, <1>2, <1>3, <1>4
<1>5. Opens(d, n, n) <=> e.type \in {"ACTIVATED", "TRIGGER_ADDED"}
  BY <1>2, <1>3
<1>6. e.type = "RECOVERED" => \A j \in 1..n : ~Opens(d, j, n)
  BY <1>2, <1>3
<1>7. 1..n = 1..Len(c) \cup {n}
  BY <1>3
<1>8. OpenOf(d, n) = {d[j].cause.incident.source : j \in {k \in 1..n : Opens(d, k, n)}}
  BY DEF OpenOf
<1>9. OpenOf(c, Len(c)) = {c[j].cause.incident.source : j \in {k \in 1..Len(c) : Opens(c, k, Len(c))}}
  BY DEF OpenOf
<1> HIDE DEF Opens, n
<1>10. CASE e.type = "RECOVERED"
  BY <1>6, <1>8, <1>10 DEF d, n
<1>11. CASE e.type \in {"ACTIVATED", "TRIGGER_ADDED"}
  <2>1. {k \in 1..n : Opens(d, k, n)} = {k \in 1..Len(c) : Opens(c, k, Len(c))} \cup {n}
    BY <1>4, <1>5, <1>7, <1>11
  <2>2. OpenOf(d, n) = OpenOf(c, Len(c)) \cup {e.cause.incident.source}
    BY <1>1, <1>2, <1>8, <1>9, <2>1
  <2> QED BY <2>2, <1>11 DEF d, n
<1>12. CASE e.type \in {"INITIALIZED", "ORDER_BLOCKED"}
  <2>1. {k \in 1..n : Opens(d, k, n)} = {k \in 1..Len(c) : Opens(c, k, Len(c))}
    BY <1>3, <1>4, <1>5, <1>7, <1>12
  <2>2. OpenOf(d, n) = OpenOf(c, Len(c))
    BY <1>1, <1>8, <1>9, <2>1
  <2> QED BY <2>2, <1>12 DEF d, n
<1> QED BY <1>10, <1>11, <1>12

LEMMA HistoryGrows ==
  ASSUME NEW c \in Seq(Event), NEW st \in State \cup {None}, NEW e \in Event,
         HistoryOK(c, st), Caused(st, e)
  PROVE  HistoryOK(Append(c, e), e.after)
<1> DEFINE d == Append(c, e)
           n == Len(c) + 1
<1>1. /\ Len(c) \in Nat /\ d \in Seq(Event) /\ Len(d) = n /\ d # <<>>
      /\ d[n] = e /\ DOMAIN c = 1..Len(c) /\ DOMAIN d = 1..n
      /\ \A m \in 1..Len(c) : d[m] = c[m]
  OBVIOUS
<1>2. \A i \in 0..Len(c) : OpenOf(d, i) = OpenOf(c, i)
  BY OpenOfPrefix
<1>3. /\ e.type \in {"ACTIVATED", "TRIGGER_ADDED"} =>
           OpenOf(d, n) = OpenOf(c, Len(c)) \cup {e.cause.incident.source}
      /\ e.type = "RECOVERED" => OpenOf(d, n) = {}
      /\ e.type \in {"INITIALIZED", "ORDER_BLOCKED"} => OpenOf(d, n) = OpenOf(c, Len(c))
  BY OpenOfAppend
<1>4. c # <<>> => Len(c) \in 1..Len(c) /\ c[Len(c)].after = st
  BY <1>1 DEF HistoryOK, Readable
<1>5. st = None <=> c = <<>>
  <2>1. c # <<>> => c[Len(c)] \in Event
    BY <1>1, <1>4
  <2> QED BY <1>4, <2>1, KillSwitchAssumption DEF HistoryOK, Readable, Event
<1>6. c = <<>> => OpenOf(c, Len(c)) = {}
  BY DEF OpenOf
<1>7. e.after.changedAt \in Int /\ e.at \in Int /\ Time \subseteq Int
  BY PaperOrdersAssumption DEF Event, State, Time
<1>8. e.type = "INITIALIZED" <=> st = None
  BY KillSwitchAssumption DEF Caused
<1> HIDE DEF d, n
<1>9. Readable(d, e.after)
  <2>1. CASE st = None
    <3>1. n = 1
      BY <1>5, <2>1 DEF n
    <3>2. Begins(e)
      BY <2>1, KillSwitchAssumption DEF Caused, Begins, InitialState
    <3> QED BY <1>1, <3>1, <3>2 DEF Readable
  <2>2. CASE st # None
    <3>1. Begins(d[1]) /\ Len(c) >= 1
      BY <1>1, <1>5, <2>2 DEF HistoryOK, Readable
    <3>2. Follows(c[Len(c)], e)
      BY <1>5, <1>4, <2>2, KillSwitchAssumption
         DEF Caused, Follows, ActivatedState, RecoveredState
    <3>3. \A i \in 2..Len(c) : Follows(d[i - 1], d[i])
      BY <1>1, <1>5, <2>2 DEF HistoryOK, Readable
    <3>4. Follows(d[n - 1], d[n])
      BY <1>1, <3>1, <3>2 DEF n
    <3>5. \A i \in 2..n : i \in 2..Len(c) \/ i = n
      BY <1>1 DEF n
    <3> QED BY <1>1, <3>1, <3>3, <3>4, <3>5 DEF Readable
  <2> QED BY <2>1, <2>2
<1>10. SumsUp(d)
  <2>1. ASSUME NEW i \in 1..Len(c)
        PROVE  /\ d[i].after.incidents = OpenOf(d, i)
               /\ (d[i].after.status = "ACTIVE") <=> (OpenOf(d, i) # {})
               /\ (d[i].after.status = "ACTIVE") => d[i].after.since <= d[i].after.changedAt
               /\ i > 1 => d[i - 1].after.changedAt <= d[i].after.changedAt
    <3>1. i > 1 => i - 1 \in 1..Len(c)
      BY <1>1
    <3>2. i \in 0..Len(c)
      BY <1>1
    <3> QED BY <1>1, <1>2, <3>1, <3>2 DEF HistoryOK, SumsUp
  <2>2. n > 1 => n - 1 = Len(c) /\ c # <<>> /\ st # None
    BY <1>1, <1>5 DEF n
  <2>4. ASSUME st # None
        PROVE  /\ st \in State /\ st.incidents = OpenOf(c, Len(c))
               /\ (st.status = "ACTIVE") <=> (OpenOf(c, Len(c)) # {})
               /\ (st.status = "ACTIVE") => st.since <= st.changedAt /\ st.since \in Time
               /\ d[n - 1].after = st
    BY <1>1, <1>5, <1>4, <2>4 DEF HistoryOK, SumsUp, ActiveIsDated, n
  <2>5. /\ e.after.incidents = OpenOf(d, n)
        /\ (e.after.status = "ACTIVE") <=> (OpenOf(d, n) # {})
        /\ (e.after.status = "ACTIVE") => e.after.since <= e.after.changedAt
        /\ n > 1 => d[n - 1].after.changedAt <= e.after.changedAt
    <3>1. CASE st = None
      <4>1. e.after = InitialState(e.at)
        BY <3>1, KillSwitchAssumption DEF Caused
      <4>2. OpenOf(d, n) = {}
        BY <1>3, <1>5, <1>6, <1>8, <3>1
      <4> QED BY <2>2, <3>1, <4>1, <4>2 DEF InitialState
    <3>2. CASE st # None /\ e.type \in {"ACTIVATED", "TRIGGER_ADDED"}
      <4>1. /\ e.after = ActivatedState(st, e.cause.incident, e.at)
            /\ st.changedAt <= e.at /\ e.cause.incident.at <= e.at
            /\ e.cause.incident \in Incident
        BY <3>2 DEF Caused
      <4>2. /\ st.changedAt \in Int /\ e.cause.incident.at \in Int
        BY <1>7, <2>4, <3>2, <4>1 DEF State, Incident
      <4>3. ASSUME st.status = "ACTIVE" PROVE st.since <= e.at
        <5>1. st.since \in Int /\ st.since <= st.changedAt
          BY <1>7, <2>4, <3>2, <4>3
        <5> QED BY <1>7, <4>1, <4>2, <5>1
      <4>4. OpenOf(d, n) = OpenOf(c, Len(c)) \cup {e.cause.incident.source}
        BY <1>3, <3>2
      <4>5. /\ e.after.status = "ACTIVE" /\ e.after.changedAt = e.at
            /\ e.after.incidents = st.incidents \cup {e.cause.incident.source}
            /\ e.after.since <= e.at
        BY <4>1, <4>3 DEF ActivatedState
      <4> QED BY <2>4, <3>2, <4>1, <4>4, <4>5
    <3>3. CASE st # None /\ e.type = "RECOVERED"
      <4>1. e.after = RecoveredState(st, e.at) /\ st.changedAt <= e.at
        BY <3>3 DEF Caused
      <4>2. e.after.status = "INACTIVE" /\ e.after.incidents = {} /\ e.after.changedAt = e.at
        BY <4>1 DEF RecoveredState
      <4>3. OpenOf(d, n) = {}
        BY <1>3, <3>3
      <4> QED BY <2>4, <3>3, <4>1, <4>2, <4>3
    <3>4. CASE st # None /\ e.type = "ORDER_BLOCKED"
      <4>1. e.after = st /\ st.changedAt \in Int
        BY <1>7, <2>4, <3>4 DEF Caused, State
      <4> QED BY <1>3, <2>4, <3>4, <4>1
    <3> QED BY <1>8, <3>1, <3>2, <3>3, <3>4 DEF Event
  <2>6. \A i \in 1..n : i \in 1..Len(c) \/ i = n
    BY <1>1 DEF n
  <2> QED BY <1>1, <2>1, <2>5, <2>6 DEF SumsUp
<1>11. ActiveIsDated(d)
  <2>1. ASSUME e.after.status = "ACTIVE" PROVE e.after.since \in Time
    <3>1. CASE e.type = "INITIALIZED"
      BY <1>8, <2>1, <3>1, KillSwitchAssumption DEF Caused, InitialState
    <3>2. CASE e.type \in {"ACTIVATED", "TRIGGER_ADDED"}
      <4>1. /\ st \in State /\ e.after = ActivatedState(st, e.cause.incident, e.at)
            /\ e.cause.incident.at \in Time
        BY <3>2 DEF Caused, Incident
      <4>2. st.status = "ACTIVE" => st.since \in Time
        BY <1>1, <1>5, <1>4, <4>1, KillSwitchAssumption DEF HistoryOK, ActiveIsDated
      <4> QED BY <4>1, <4>2 DEF ActivatedState
    <3>3. CASE e.type = "RECOVERED"
      BY <2>1, <3>3 DEF Caused, RecoveredState
    <3>4. CASE e.type = "ORDER_BLOCKED"
      <4>1. st \in State /\ e.after = st
        BY <3>4 DEF Caused
      <4> QED BY <1>1, <1>5, <1>4, <2>1, <4>1, KillSwitchAssumption DEF HistoryOK, ActiveIsDated
    <3> QED BY <3>1, <3>2, <3>3, <3>4 DEF Event
  <2>2. \A i \in 1..n : i \in 1..Len(c) \/ i = n
    BY <1>1 DEF n
  <2> QED BY <1>1, <2>1, <2>2 DEF HistoryOK, ActiveIsDated
<1>12. ApproverSaw(d)
  <2>1. ASSUME NEW i \in 1..Len(c), d[i].type = "RECOVERED"
        PROVE  /\ d[i].cause.approved.incidents = OpenOf(d, i - 1)
               /\ d[i].cause.approved = d[i].before
               /\ d[i].at < d[i].cause.expires
    <3>1. i - 1 \in 0..Len(c)
      BY <1>1
    <3> QED BY <1>1, <1>2, <2>1, <3>1 DEF HistoryOK, ApproverSaw
  <2>2. ASSUME e.type = "RECOVERED"
        PROVE  /\ e.cause.approved.incidents = OpenOf(d, n - 1)
               /\ e.cause.approved = e.before
               /\ e.at < e.cause.expires
    <3>1. e.cause.approved = st /\ e.before = st /\ e.at < e.cause.expires /\ st # None
      BY <1>8, <2>2 DEF Caused
    <3>2. st.incidents = OpenOf(c, Len(c))
      BY <1>1, <1>5, <1>4, <3>1 DEF HistoryOK, SumsUp
    <3>3. n - 1 = Len(c) /\ Len(c) \in 0..Len(c)
      BY <1>1 DEF n
    <3> QED BY <1>2, <3>1, <3>2, <3>3
  <2>3. \A i \in 1..n : i \in 1..Len(c) \/ i = n
    BY <1>1 DEF n
  <2> QED BY <1>1, <2>1, <2>2, <2>3 DEF ApproverSaw
<1> QED BY <1>9, <1>10, <1>12, <1>11 DEF HistoryOK, d

(* One event more in one scope, and its state the one after it.            *)
Extends(s, e) ==
  /\ chain' = [chain EXCEPT ![s] = Append(chain[s], e)]
  /\ ks' = [ks EXCEPT ![s] = e.after]
  /\ Caused(ks[s], e)

(* Whatever happens, histories only grow, by one event that has a cause.   *)
LEMMA HistoriesGrow ==
  ASSUME TypeOK, [Next]_vars
  PROVE  UNCHANGED <<ks, chain>> \/ \E s \in Scopes : \E e : Extends(s, e)
<1>1. CASE Tick
  BY <1>1 DEF Tick
<1>2. ASSUME NEW s \in Scopes, NEW k \in OpKeys, Initialize(s, k)
      PROVE  \E e : Extends(s, e)
  <2>1. PICK at \in 0..clock :
          /\ ks[s] = None
          /\ Commit(s, k, [kind |-> "INITIALIZE", at |-> at], "INITIALIZED", InitialState(at))
    BY <1>2 DEF Initialize
  <2> DEFINE e == [type |-> "INITIALIZED", before |-> ks[s], after |-> InitialState(at),
                   cause |-> [kind |-> "INITIALIZE", at |-> at],
                   at |-> InitialState(at).changedAt]
  <2>2. Caused(ks[s], e)
    BY <2>1 DEF Caused, InitialState
  <2>3. Extends(s, e)
    BY <2>1, <2>2 DEF Extends, Commit, TypeOK
  <2> QED BY <2>3
<1>3. ASSUME NEW s \in Scopes, NEW k \in OpKeys, NEW incident \in Incident,
             Activate(s, k, incident)
      PROVE  \E e : Extends(s, e)
  <2> DEFINE Type == IF ks[s].status = "ACTIVE" THEN "TRIGGER_ADDED" ELSE "ACTIVATED"
  <2>1. PICK at \in incident.at..clock :
          /\ ks[s] # None
          /\ Commit(s, k, [kind |-> "ACTIVATE", incident |-> incident, at |-> at], Type,
                    ActivatedState(ks[s], incident, Later(at, ks[s].changedAt)))
    BY <1>3 DEF Activate
  <2> DEFINE after == ActivatedState(ks[s], incident, Later(at, ks[s].changedAt))
             e == [type |-> Type, before |-> ks[s], after |-> after,
                   cause |-> [kind |-> "ACTIVATE", incident |-> incident, at |-> at],
                   at |-> after.changedAt]
  <2>2. ks[s] \in State
    BY <2>1 DEF TypeOK
  <2>3. /\ after.changedAt = Later(at, ks[s].changedAt)
        /\ e.at = Later(at, ks[s].changedAt)
    BY DEF ActivatedState
  <2>4. ks[s].changedAt <= e.at /\ incident.at <= e.at
    <3>1. ks[s].changedAt \in Int /\ incident.at \in Int
      BY <2>2, PaperOrdersAssumption DEF State, Incident, Time
    <3> QED BY <2>3, <3>1 DEF Later
  <2>5. Caused(ks[s], e)
    BY <2>2, <2>3, <2>4 DEF Caused
  <2>6. Extends(s, e)
    BY <2>1, <2>5 DEF Extends, Commit, TypeOK
  <2> QED BY <2>6
<1>4. ASSUME NEW s \in Scopes, NEW k \in OpKeys, Recover(s, k)
      PROVE  \E e : Extends(s, e)
  <2>1. PICK approved \in ApprovedStates(s), expires \in 1..MaxTime + 1 :
          \E at \in approved.changedAt..expires - 1 :
            /\ ApprovalHolds(s, approved, expires, at)
            /\ Commit(s, k,
                  [kind |-> "RECOVER", approved |-> approved, expires |-> expires, at |-> at],
                  "RECOVERED", RecoveredState(ks[s], clock))
    BY <1>4 DEF Recover
  <2>2. PICK at \in approved.changedAt..expires - 1 :
          /\ ApprovalHolds(s, approved, expires, at)
          /\ Commit(s, k,
                [kind |-> "RECOVER", approved |-> approved, expires |-> expires, at |-> at],
                "RECOVERED", RecoveredState(ks[s], clock))
    BY <2>1
  <2> DEFINE e == [type |-> "RECOVERED", before |-> ks[s], after |-> RecoveredState(ks[s], clock),
                   cause |-> [kind |-> "RECOVER", approved |-> approved,
                              expires |-> expires, at |-> at],
                   at |-> RecoveredState(ks[s], clock).changedAt]
  <2>3. /\ ks[s] = approved /\ ks[s].status = "ACTIVE"
        /\ at <= clock /\ clock < expires
    BY <2>2 DEF ApprovalHolds
  <2>4. PICK i \in DOMAIN chain[s] : approved = chain[s][i].after
    BY DEF ApprovedStates
  <2>5. ks[s] \in State
    <3>1. chain[s][i] \in Event
      BY <2>4 DEF TypeOK
    <3> QED BY <2>3, <2>4, <3>1 DEF Event
  <2>6. ks[s].changedAt <= clock
    <3>1. ks[s].changedAt \in Int /\ clock \in Int
      BY <2>5, PaperOrdersAssumption DEF State, Time, TypeOK
    <3> QED BY <2>3, <3>1
  <2>7. e.at = clock
    BY DEF RecoveredState
  <2>8. Caused(ks[s], e)
    BY <2>3, <2>5, <2>6, <2>7 DEF Caused
  <2>9. Extends(s, e)
    BY <2>2, <2>8 DEF Extends, Commit, TypeOK
  <2> QED BY <2>9
<1>5. ASSUME NEW order \in Order, NEW at \in Time, GateBlocked(order, at)
      PROVE  \E s \in Scopes : \E e : Extends(s, e)
  <2> DEFINE primary == IF Global \in ActiveScopes(order) THEN Global ELSE order.account
             e == [type |-> "ORDER_BLOCKED", before |-> ks[primary], after |-> ks[primary],
                   cause |-> [kind |-> "ORDER_BLOCKED", order |-> order, at |-> at],
                   at |-> at]
  <2>1. primary \in {Global, order.account} /\ primary \in Scopes
    BY DEF Order, Scopes
  <2>2. ks[primary] \in State
    BY <1>5, <2>1 DEF GateBlocked, StateAvailable, TypeOK
  <2>3. chain' = [chain EXCEPT ![primary] = Append(chain[primary], e)] /\ ks' = ks
    BY <1>5 DEF GateBlocked, LogBlock, adminVars
  <2> HIDE DEF primary
  <2>4. Caused(ks[primary], e)
    BY <2>2 DEF Caused
  <2>5. ks' = [ks EXCEPT ![primary] = e.after]
    BY <2>1, <2>3 DEF TypeOK
  <2>6. Extends(primary, e)
    BY <2>3, <2>4, <2>5 DEF Extends
  <2> QED BY <2>1, <2>6
<1>6. ASSUME NEW order \in Order, NEW at \in Time,
             GateUnavailable(order, at) \/ GateAllowed(order, at)
      PROVE  UNCHANGED <<ks, chain>>
  BY <1>6 DEF GateUnavailable, GateAllowed, adminVars
<1>7. CASE GateExit \/ Crash
  BY <1>7 DEF GateExit, Crash, adminVars
<1>8. CASE UNCHANGED vars
  BY <1>8 DEF vars
<1> QED BY <1>1, <1>2, <1>3, <1>4, <1>5, <1>6, <1>7, <1>8 DEF Next, ReplayOperation, GateReplay

HistoriesOK == \A s \in Scopes : HistoryOK(chain[s], ks[s])

LEMMA HistoriesInvariant == Spec => []HistoriesOK
<1>1. Init => HistoriesOK
  BY DEF Init, HistoriesOK, HistoryOK, Readable, SumsUp, ActiveIsDated, ApproverSaw
<1>2. TypeOK /\ TypeOK' /\ HistoriesOK /\ [Next]_vars => HistoriesOK'
  <2> SUFFICES ASSUME TypeOK, TypeOK', HistoriesOK, [Next]_vars PROVE HistoriesOK'
    OBVIOUS
  <2>1. CASE UNCHANGED <<ks, chain>>
    BY <2>1 DEF HistoriesOK
  <2>2. ASSUME NEW s \in Scopes, NEW e, Extends(s, e) PROVE HistoriesOK'
    <3>1. /\ chain[s] \in Seq(Event) /\ ks[s] \in State \cup {None}
          /\ chain'[s] \in Seq(Event)
          /\ chain'[s] = Append(chain[s], e) /\ ks'[s] = e.after
          /\ \A r \in Scopes \ {s} : chain'[r] = chain[r] /\ ks'[r] = ks[r]
      BY <2>2 DEF Extends, TypeOK
    <3>2. e \in Event
      <4>1. chain'[s][Len(chain[s]) + 1] = e /\ Len(chain[s]) + 1 \in DOMAIN chain'[s]
        BY <3>1
      <4> QED BY <3>1, <4>1
    <3>3. HistoryOK(chain[s], ks[s]) /\ Caused(ks[s], e)
      BY <2>2 DEF HistoriesOK, Extends
    <3>4. HistoryOK(chain'[s], ks'[s])
      BY <3>1, <3>2, <3>3, HistoryGrows
    <3> QED BY <3>1, <3>4 DEF HistoriesOK
  <2> QED BY <2>1, <2>2, HistoriesGrow
<1> QED BY <1>1, <1>2, KillSwitchTypeOK, PTL DEF Spec

(* What the chain of a scope says, read from its start, is the scope's     *)
(* current state, and every state on the way sums up the incidents before. *)
THEOREM KillSwitchStateMatchesHistory == Spec => []StateMatchesHistory
<1>1. HistoriesOK => StateMatchesHistory
  BY DEF HistoriesOK, HistoryOK, Readable, SumsUp, OpenOf,
         StateMatchesHistory, ChainReadable, StatesSumUpIncidents, OpenIncidents
<1> QED BY <1>1, HistoriesInvariant, PTL

(* No recovery closes an incident its approver had not seen, nor after the *)
(* approval has run out.                                                   *)
THEOREM KillSwitchApproverSawEveryIncident == Spec => []ApproverSawEveryIncident
<1>1. HistoriesOK => ApproverSawEveryIncident
  BY DEF HistoriesOK, HistoryOK, ApproverSaw, OpenOf, ApproverSawEveryIncident, OpenIncidents
<1> QED BY <1>1, HistoriesInvariant, PTL

-----------------------------------------------------------------------------
(* OperationsMatchEvents of one scope.                                     *)
CausesIn(c, o) ==
  /\ \A k \in OpKeys : o[k] # None =>
       /\ o[k].event \in DOMAIN c
       /\ c[o[k].event].cause = o[k].op
  /\ \A i \in DOMAIN c : c[i].type # "ORDER_BLOCKED" =>
       \E k \in OpKeys :
         /\ o[k] # None /\ o[k].event = i
         /\ \A j \in OpKeys : o[j] # None /\ o[j].event = i => j = k

(* BlockEvidence of the i-th event e of a scope, given the bound orders g   *)
(* and the decisions d; with what makes it inductive: the order is one.    *)
EvidenceIn(s, e, i, g, d) ==
  LET order == e.cause.order
      stored == d[order.account][order.key] IN
  /\ order \in Order
  /\ s \in {Global, order.account}
  /\ e.after.status = "ACTIVE"
  /\ g[order.account][order.key] = order
  /\ stored # None /\ stored.event = i /\ stored.at = e.at
  /\ (s = Global) <=> ("GLOBAL_ACTIVE" \in stored.reasons)

(* A committed command adds an event of its own, under a key that was free. *)
LEMMA CommitCauses ==
  ASSUME TypeOK, OperationsMatchEvents, NEW s \in Scopes, NEW k \in OpKeys, Fresh(s, k),
         NEW op, NEW type, NEW after, type # "ORDER_BLOCKED",
         None # [op |-> op, event |-> Len(chain[s]) + 1],
         Commit(s, k, op, type, after)
  PROVE  OperationsMatchEvents'
<1> DEFINE e == [type |-> type, before |-> ks[s], after |-> after,
                 cause |-> op, at |-> after.changedAt]
           n == Len(chain[s]) + 1
<1>1. /\ chain[s] \in Seq(Event) /\ Len(chain[s]) \in Nat
      /\ DOMAIN chain[s] = 1..Len(chain[s])
  BY DEF TypeOK
<1>2. /\ chain'[s] = Append(chain[s], e)
      /\ \A r \in Scopes \ {s} : chain'[r] = chain[r] /\ ops'[r] = ops[r]
      /\ ops'[s][k] = [op |-> op, event |-> n]
      /\ \A j \in OpKeys \ {k} : ops'[s][j] = ops[s][j]
  BY DEF Commit, TypeOK
<1>3. /\ DOMAIN chain'[s] = 1..n /\ chain'[s][n] = e
      /\ \A i \in 1..Len(chain[s]) : chain'[s][i] = chain[s][i]
  BY <1>1, <1>2
<1>4. e.type = type /\ e.cause = op
  OBVIOUS
<1>5. \A i \in 1..n : i \in 1..Len(chain[s]) \/ i = n
  BY <1>1
<1>6. n \in 1..n /\ n \notin 1..Len(chain[s])
  BY <1>1
<1>7. \A i \in 1..Len(chain[s]) : i \in 1..n
  BY <1>1
<1> HIDE DEF e, n
<1>8. ASSUME NEW j \in OpKeys, ops'[s][j] # None
      PROVE  ops'[s][j].event \in 1..n /\ chain'[s][ops'[s][j].event].cause = ops'[s][j].op
  <2>1. CASE j = k
    BY <1>2, <1>3, <1>4, <1>6, <2>1
  <2>2. CASE j # k
    <3>1. /\ ops'[s][j] = ops[s][j]
          /\ ops[s][j].event \in 1..Len(chain[s])
          /\ chain[s][ops[s][j].event].cause = ops[s][j].op
      BY <1>1, <1>2, <1>8, <2>2 DEF OperationsMatchEvents
    <3> QED BY <1>3, <1>7, <3>1
  <2> QED BY <2>1, <2>2
<1>9. ASSUME NEW i \in 1..n, chain'[s][i].type # "ORDER_BLOCKED"
      PROVE  \E j \in OpKeys :
               /\ ops'[s][j] # None /\ ops'[s][j].event = i
               /\ \A l \in OpKeys : ops'[s][l] # None /\ ops'[s][l].event = i => l = j
  <2>1. \A j \in OpKeys \ {k} : ops'[s][j] # None => ops'[s][j].event \in 1..Len(chain[s])
    BY <1>1, <1>2 DEF OperationsMatchEvents
  <2>2. ops'[s][k] # None /\ ops'[s][k].event = n
    BY <1>2 DEF n
  <2>3. CASE i = n
    BY <1>6, <2>1, <2>2, <2>3
  <2>4. CASE i \in 1..Len(chain[s])
    <3>1. PICK j \in OpKeys :
            /\ ops[s][j] # None /\ ops[s][j].event = i
            /\ \A l \in OpKeys : ops[s][l] # None /\ ops[s][l].event = i => l = j
      BY <1>1, <1>3, <1>9, <2>4 DEF OperationsMatchEvents
    <3>2. j # k
      BY <3>1 DEF Fresh
    <3>3. i # n
      BY <1>6, <2>4
    <3>4. ops'[s][j] # None /\ ops'[s][j].event = i
      BY <1>2, <3>1, <3>2
    <3>5. ASSUME NEW l \in OpKeys, ops'[s][l] # None, ops'[s][l].event = i PROVE l = j
      BY <1>2, <2>2, <3>1, <3>3, <3>5
    <3> QED BY <3>4, <3>5
  <2> QED BY <1>5, <2>3, <2>4
<1>10. CausesIn(chain'[s], ops'[s])
  BY <1>3, <1>8, <1>9 DEF CausesIn
<1>11. ASSUME NEW r \in Scopes \ {s} PROVE CausesIn(chain'[r], ops'[r])
  BY <1>2 DEF OperationsMatchEvents, CausesIn
<1>12. \A r \in Scopes : CausesIn(chain'[r], ops'[r])
  BY <1>10, <1>11
<1> QED BY <1>12 DEF OperationsMatchEvents, CausesIn

(* A block adds an event no operation needs to have caused.                *)
LEMMA BlockCauses ==
  ASSUME TypeOK, OperationsMatchEvents, NEW s \in Scopes, NEW e, e.type = "ORDER_BLOCKED",
         chain' = [chain EXCEPT ![s] = Append(@, e)], ops' = ops
  PROVE  OperationsMatchEvents'
<1> DEFINE n == Len(chain[s]) + 1
<1>1. /\ chain[s] \in Seq(Event) /\ Len(chain[s]) \in Nat
      /\ DOMAIN chain[s] = 1..Len(chain[s])
  BY DEF TypeOK
<1>2. /\ chain'[s] = Append(chain[s], e)
      /\ \A r \in Scopes \ {s} : chain'[r] = chain[r]
  BY DEF TypeOK
<1>3. /\ DOMAIN chain'[s] = 1..n /\ chain'[s][n] = e
      /\ \A i \in 1..Len(chain[s]) : chain'[s][i] = chain[s][i] /\ i \in 1..n
      /\ \A i \in 1..n : i \in 1..Len(chain[s]) \/ i = n
  BY <1>1, <1>2
<1> HIDE DEF n
<1>4. CausesIn(chain[s], ops[s])
  BY DEF OperationsMatchEvents, CausesIn
<1>5. CausesIn(chain'[s], ops[s])
  BY <1>1, <1>3, <1>4 DEF CausesIn
<1>6. \A r \in Scopes : CausesIn(chain'[r], ops'[r])
  BY <1>2, <1>5 DEF OperationsMatchEvents, CausesIn
<1> QED BY <1>6 DEF OperationsMatchEvents, CausesIn

EvidenceOK ==
  \A s \in Scopes : \A i \in DOMAIN chain[s] : chain[s][i].type = "ORDER_BLOCKED" =>
    EvidenceIn(s, chain[s][i], i, gateOf, decided)

(* Evidence once stored stays, whatever else happens.                      *)
LEMMA EvidenceStays ==
  ASSUME TypeOK, GuardSeesInactive, [Next]_vars,
         NEW s, NEW e, NEW i, EvidenceIn(s, e, i, gateOf, decided)
  PROVE  EvidenceIn(s, e, i, gateOf', decided')
<1> DEFINE order == e.cause.order
<1>1. /\ order \in Order
      /\ order.account \in Accounts /\ order.key \in OrderKeys
  BY DEF EvidenceIn, Order
<1>2. decided[order.account][order.key] # None
  BY DEF EvidenceIn
<1>3. /\ decided'[order.account][order.key] = decided[order.account][order.key]
      /\ gateOf'[order.account][order.key] = gateOf[order.account][order.key]
  BY <1>1, <1>2, BlocksStay DEF BlockIsFinalStep
<1> QED BY <1>3 DEF EvidenceIn

(* A block is stored with its key, its decision and its event in one step. *)
LEMMA BlockHasEvidence ==
  ASSUME TypeOK, NEW order \in Order, NEW at \in Time, GateBlocked(order, at)
  PROVE  \E s \in Scopes : \E e :
           /\ e.type = "ORDER_BLOCKED" /\ e.cause.order = order
           /\ chain' = [chain EXCEPT ![s] = Append(@, e)] /\ ops' = ops
           /\ EvidenceIn(s, e, Len(chain[s]) + 1, gateOf', decided')
           /\ decided'[order.account][order.key].reasons # {"STATE_UNAVAILABLE"}
<1> DEFINE s == IF Global \in ActiveScopes(order) THEN Global ELSE order.account
           e == [type |-> "ORDER_BLOCKED", before |-> ks[s], after |-> ks[s],
                 cause |-> [kind |-> "ORDER_BLOCKED", order |-> order, at |-> at], at |-> at]
           n == Len(chain[s]) + 1
           reasons == {IF r = Global THEN "GLOBAL_ACTIVE" ELSE "ACCOUNT_ACTIVE"
                         : r \in ActiveScopes(order)}
           d == [at |-> at, event |-> n, reasons |-> reasons]
<1>1. order.account \in Accounts /\ order.key \in OrderKeys
  BY DEF Order
<1>2. s \in {Global, order.account} /\ s \in Scopes /\ s \in ActiveScopes(order)
  BY <1>1 DEF GateBlocked, ActiveScopes, Scopes
<1>3. ks[s].status = "ACTIVE"
  BY <1>2 DEF ActiveScopes
<1>4. (s = Global) <=> ("GLOBAL_ACTIVE" \in reasons)
  <2>1. order.account # Global
    BY <1>1, PaperOrdersAssumption
  <2>2. \A r \in ActiveScopes(order) : r \in {Global, order.account}
    BY DEF ActiveScopes
  <2>3. (s = Global) <=> Global \in ActiveScopes(order)
    BY <2>1
  <2>4. "GLOBAL_ACTIVE" \in reasons <=> Global \in ActiveScopes(order)
    BY <2>1, <2>2
  <2> QED BY <2>3, <2>4
<1>5. chain' = [chain EXCEPT ![s] = Append(@, e)] /\ StoreBlock(order, d) /\ ops' = ops
  BY DEF GateBlocked, LogBlock, adminVars
<1>6. /\ chain[s] \in Seq(Event) /\ n \in Nat
  BY <1>2 DEF TypeOK
<1>7. d # None
  <2>1. reasons \in SUBSET {"GLOBAL_ACTIVE", "ACCOUNT_ACTIVE", "STATE_UNAVAILABLE"}
    OBVIOUS
  <2>2. d \in Decision
    BY <1>6, <2>1 DEF Decision
  <2> QED BY <2>2, KillSwitchAssumption
<1>8. /\ d.event = n /\ d.at = at /\ d.reasons = reasons
      /\ reasons # {"STATE_UNAVAILABLE"}
  BY <1>2
<1>9. /\ e.type = "ORDER_BLOCKED" /\ e.after = ks[s] /\ e.at = at
      /\ e.cause.order = order
  OBVIOUS
<1> HIDE DEF d, reasons, e, s
<1>10. /\ decided'[order.account][order.key] = d
       /\ gateOf'[order.account][order.key] = order
  BY <1>1, <1>5 DEF StoreBlock, Bind, TypeOK
<1>11. EvidenceIn(s, e, n, gateOf', decided')
  BY <1>2, <1>3, <1>4, <1>7, <1>8, <1>9, <1>10 DEF EvidenceIn
<1>12. decided'[order.account][order.key].reasons # {"STATE_UNAVAILABLE"}
  BY <1>8, <1>10
<1> QED BY <1>2, <1>5, <1>9, <1>11, <1>12

(* A step that appends one event keeps the evidence of all those before    *)
(* it, and needs evidence for the new one only if that is a block.         *)
LEMMA NewEventEvidence ==
  ASSUME TypeOK, GuardSeesInactive, EvidenceOK, [Next]_vars, NEW s \in Scopes, NEW e,
         chain' = [chain EXCEPT ![s] = Append(@, e)],
         e.type = "ORDER_BLOCKED" => EvidenceIn(s, e, Len(chain[s]) + 1, gateOf', decided')
  PROVE  EvidenceOK'
<1>1. /\ chain[s] \in Seq(Event) /\ chain'[s] = Append(chain[s], e)
      /\ \A r \in Scopes \ {s} : chain'[r] = chain[r]
  BY DEF TypeOK
<1>2. ASSUME NEW r \in Scopes, NEW i \in DOMAIN chain'[r], chain'[r][i].type = "ORDER_BLOCKED"
      PROVE  EvidenceIn(r, chain'[r][i], i, gateOf', decided')
  <2>1. CASE r = s /\ i = Len(chain[s]) + 1
    BY <1>1, <1>2, <2>1
  <2>2. CASE ~(r = s /\ i = Len(chain[s]) + 1)
    <3>1. i \in DOMAIN chain[r] /\ chain'[r][i] = chain[r][i]
      BY <1>1, <2>2
    <3>2. EvidenceIn(r, chain[r][i], i, gateOf, decided)
      BY <1>2, <3>1 DEF EvidenceOK
    <3> QED BY <3>1, <3>2, EvidenceStays
  <2> QED BY <2>1, <2>2
<1> QED BY <1>2 DEF EvidenceOK

(* What a command leaves behind keeps both halves of the property.         *)
LEMMA CommandHasOneCause ==
  ASSUME TypeOK, GuardSeesInactive, OperationsMatchEvents, EvidenceOK, [Next]_vars,
         NEW s \in Scopes, NEW k \in OpKeys, Fresh(s, k), NEW op \in Operation, NEW type, NEW after,
         type # "ORDER_BLOCKED", Commit(s, k, op, type, after)
  PROVE  OperationsMatchEvents' /\ EvidenceOK'
<1> DEFINE e == [type |-> type, before |-> ks[s], after |-> after,
                 cause |-> op, at |-> after.changedAt]
<1>1. Len(chain[s]) + 1 \in Nat
  BY DEF TypeOK
<1>2. None # [op |-> op, event |-> Len(chain[s]) + 1]
  BY <1>1, KillSwitchAssumption
<1>3. chain' = [chain EXCEPT ![s] = Append(@, e)] /\ e.type = type
  BY DEF Commit
<1>4. EvidenceOK'
  <2> HIDE DEF e
  <2> QED BY <1>3, NewEventEvidence
<1>5. OperationsMatchEvents'
  BY <1>2, CommitCauses
<1> QED BY <1>4, <1>5

(* BlocksLeaveEvents of one decision d on an order of account a, given the *)
(* chains ch.                                                              *)
EventLeft(a, order, d, ch) ==
  LET primary == IF "GLOBAL_ACTIVE" \in d.reasons THEN Global ELSE a
  IN  IF d.reasons = {"STATE_UNAVAILABLE"} THEN d.event = 0
      ELSE /\ d.event \in DOMAIN ch[primary]
           /\ ch[primary][d.event].type = "ORDER_BLOCKED"
           /\ ch[primary][d.event].cause.order = order

EventsLeft ==
  \A a \in Accounts, k \in OrderKeys : decided[a][k] # None =>
    EventLeft(a, gateOf[a][k], decided[a][k], chain)

(* No event is ever taken out of a chain or changed.                       *)
LEMMA EventsStay ==
  ASSUME TypeOK, [Next]_vars, NEW s \in Scopes, NEW i \in DOMAIN chain[s]
  PROVE  i \in DOMAIN chain'[s] /\ chain'[s][i] = chain[s][i]
<1>1. CASE UNCHANGED <<ks, chain>>
  BY <1>1
<1>2. ASSUME NEW r \in Scopes, NEW e, Extends(r, e)
      PROVE  i \in DOMAIN chain'[s] /\ chain'[s][i] = chain[s][i]
  <2>1. /\ chain[s] \in Seq(Event)
        /\ chain'[s] = IF s = r THEN Append(chain[s], e) ELSE chain[s]
    BY <1>2 DEF Extends, TypeOK
  <2> QED BY <2>1
<1> QED BY <1>1, <1>2, HistoriesGrow

(* So the event a block left stays.                                        *)
LEMMA EventLeftStays ==
  ASSUME TypeOK, [Next]_vars, NEW a \in Accounts, NEW order, NEW d, EventLeft(a, order, d, chain)
  PROVE  EventLeft(a, order, d, chain')
<1>1. (IF "GLOBAL_ACTIVE" \in d.reasons THEN Global ELSE a) \in Scopes
  BY DEF Scopes
<1> QED BY <1>1, EventsStay DEF EventLeft

(* Only a gate that refuses an order stores a decision, with its event.    *)
LEMMA NewBlockLeavesEvent ==
  ASSUME TypeOK, [Next]_vars, NEW a \in Accounts, NEW k \in OrderKeys,
         decided[a][k] = None, decided'[a][k] # None
  PROVE  EventLeft(a, gateOf'[a][k], decided'[a][k], chain')
<1>1. decided' # decided
  OBVIOUS
<1>2. PICK order \in Order, at \in Time : GateUnavailable(order, at) \/ GateBlocked(order, at)
  <2>1. ASSUME NEW s, NEW j
        PROVE  /\ ~Initialize(s, j) /\ ~Recover(s, j) /\ ~ReplayOperation(s, j)
               /\ \A incident : ~Activate(s, j, incident)
    <3>1. ~Initialize(s, j)
      BY <1>1 DEF Initialize, gateVars
    <3>2. ~Recover(s, j)
      BY <1>1 DEF Recover, gateVars
    <3>3. ~ReplayOperation(s, j)
      BY <1>1 DEF ReplayOperation, vars
    <3>4. ASSUME NEW incident PROVE ~Activate(s, j, incident)
      BY <1>1 DEF Activate, gateVars
    <3> QED BY <3>1, <3>2, <3>3, <3>4
  <2>2. \A order \in Order : ~GateReplay(order) /\ \A at \in Time : ~GateAllowed(order, at)
    BY <1>1 DEF GateReplay, GateAllowed, vars
  <2>3. ~Tick /\ ~GateExit /\ ~Crash /\ ~UNCHANGED vars
    BY <1>1 DEF Tick, GateExit, Crash, vars
  <2> QED BY <2>1, <2>2, <2>3 DEF Next
<1>3. PICK d : StoreBlock(order, d)
  BY <1>2 DEF GateUnavailable, GateBlocked
<1>4. order.account = a /\ order.key = k
  BY <1>3 DEF StoreBlock, TypeOK
<1>5. CASE GateUnavailable(order, at)
  <2> DEFINE refusal == [at |-> at, reasons |-> {"STATE_UNAVAILABLE"}, event |-> 0]
  <2>1. StoreBlock(order, refusal)
    BY <1>5 DEF GateUnavailable
  <2>2. refusal.reasons = {"STATE_UNAVAILABLE"} /\ refusal.event = 0
    OBVIOUS
  <2> HIDE DEF refusal
  <2>3. decided'[a][k] = refusal
    BY <1>4, <2>1 DEF StoreBlock, TypeOK
  <2> QED BY <2>2, <2>3 DEF EventLeft
<1>6. CASE GateBlocked(order, at)
  <2>1. PICK s \in Scopes : \E e :
          /\ e.type = "ORDER_BLOCKED" /\ e.cause.order = order
          /\ chain' = [chain EXCEPT ![s] = Append(@, e)]
          /\ EvidenceIn(s, e, Len(chain[s]) + 1, gateOf', decided')
          /\ decided'[order.account][order.key].reasons # {"STATE_UNAVAILABLE"}
    BY <1>6, BlockHasEvidence
  <2>2. PICK e :
          /\ e.type = "ORDER_BLOCKED" /\ e.cause.order = order
          /\ chain' = [chain EXCEPT ![s] = Append(@, e)]
          /\ EvidenceIn(s, e, Len(chain[s]) + 1, gateOf', decided')
          /\ decided'[order.account][order.key].reasons # {"STATE_UNAVAILABLE"}
    BY <2>1
  <2>3. PICK n : n = Len(chain[s]) + 1
    OBVIOUS
  <2>4. n \in DOMAIN chain'[s] /\ chain'[s][n] = e
    BY <2>2, <2>3 DEF TypeOK
  <2>5. /\ decided'[a][k].event = n /\ gateOf'[a][k] = order
        /\ decided'[a][k].reasons # {"STATE_UNAVAILABLE"}
        /\ s \in {Global, a}
        /\ (s = Global) <=> ("GLOBAL_ACTIVE" \in decided'[a][k].reasons)
    BY <1>4, <2>2, <2>3 DEF EvidenceIn
  <2>6. s = IF "GLOBAL_ACTIVE" \in decided'[a][k].reasons THEN Global ELSE a
    BY <2>5
  <2> QED BY <2>2, <2>4, <2>5, <2>6 DEF EventLeft
<1> QED BY <1>2, <1>5, <1>6

(* Every stored block has left its event, whatever happens next.           *)
LEMMA BlocksKeepEvents ==
  ASSUME TypeOK, GuardSeesInactive, EventsLeft, [Next]_vars
  PROVE  EventsLeft'
<1>1. ASSUME NEW a \in Accounts, NEW k \in OrderKeys, decided'[a][k] # None
      PROVE  EventLeft(a, gateOf'[a][k], decided'[a][k], chain')
  <2>1. CASE decided[a][k] = None
    BY <1>1, <2>1, NewBlockLeavesEvent
  <2>2. CASE decided[a][k] # None
    <3>1. decided'[a][k] = decided[a][k] /\ gateOf'[a][k] = gateOf[a][k]
      BY <2>2, BlocksStay DEF BlockIsFinalStep
    <3>2. EventLeft(a, gateOf[a][k], decided[a][k], chain)
      BY <2>2 DEF EventsLeft
    <3> QED BY <3>1, <3>2, EventLeftStays
  <2> QED BY <2>1, <2>2
<1> QED BY <1>1 DEF EventsLeft

(* Every command's event has the command for its one cause, every event of *)
(* a block its order's one stored decision, and every stored block its     *)
(* event in the chain of the first switch that stopped the order.          *)
THEOREM KillSwitchEventsHaveOneCause == Spec => []EventsHaveOneCause
<1>1. Init => OperationsMatchEvents /\ EvidenceOK /\ EventsLeft
  BY DEF Init, OperationsMatchEvents, EvidenceOK, EventsLeft
<1>2. TypeOK /\ GuardSeesInactive /\ OperationsMatchEvents /\ EvidenceOK /\ [Next]_vars
        => OperationsMatchEvents' /\ EvidenceOK'
  <2> SUFFICES ASSUME TypeOK, GuardSeesInactive, OperationsMatchEvents, EvidenceOK, [Next]_vars
               PROVE  OperationsMatchEvents' /\ EvidenceOK'
    OBVIOUS
  <2>1. ASSUME UNCHANGED <<chain, ops>> PROVE OperationsMatchEvents' /\ EvidenceOK'
    <3>1. OperationsMatchEvents'
      BY <2>1 DEF OperationsMatchEvents
    <3>2. EvidenceOK'
      BY <2>1, EvidenceStays DEF EvidenceOK
    <3> QED BY <3>1, <3>2
  <2>2. ASSUME NEW s \in Scopes, NEW k \in OpKeys, Initialize(s, k)
        PROVE  OperationsMatchEvents' /\ EvidenceOK'
    <3>1. PICK at \in 0..clock :
            /\ Fresh(s, k)
            /\ Commit(s, k, [kind |-> "INITIALIZE", at |-> at], "INITIALIZED", InitialState(at))
      BY <2>2 DEF Initialize
    <3>2. [kind |-> "INITIALIZE", at |-> at] \in Operation
      BY PaperOrdersAssumption DEF TypeOK, Time, Operation, InitializeOp
    <3> QED BY <3>1, <3>2, CommandHasOneCause
  <2>3. ASSUME NEW s \in Scopes, NEW k \in OpKeys, NEW incident \in Incident,
               Activate(s, k, incident)
        PROVE  OperationsMatchEvents' /\ EvidenceOK'
    <3> DEFINE Type == IF ks[s].status = "ACTIVE" THEN "TRIGGER_ADDED" ELSE "ACTIVATED"
    <3>1. PICK at \in incident.at..clock :
            /\ Fresh(s, k)
            /\ Commit(s, k, [kind |-> "ACTIVATE", incident |-> incident, at |-> at], Type,
                      ActivatedState(ks[s], incident, Later(at, ks[s].changedAt)))
      BY <2>3 DEF Activate
    <3>2. [kind |-> "ACTIVATE", incident |-> incident, at |-> at] \in Operation
      BY PaperOrdersAssumption DEF TypeOK, Time, Incident, Operation, ActivateOp
    <3>3. Type # "ORDER_BLOCKED"
      OBVIOUS
    <3> HIDE DEF Type
    <3> QED BY <3>1, <3>2, <3>3, CommandHasOneCause
  <2>4. ASSUME NEW s \in Scopes, NEW k \in OpKeys, Recover(s, k)
        PROVE  OperationsMatchEvents' /\ EvidenceOK'
    <3>1. PICK approved \in ApprovedStates(s), expires \in 1..MaxTime + 1 :
            \E at \in approved.changedAt..expires - 1 :
              /\ Fresh(s, k) /\ at <= MaxTime
              /\ Commit(s, k,
                    [kind |-> "RECOVER", approved |-> approved, expires |-> expires, at |-> at],
                    "RECOVERED", RecoveredState(ks[s], clock))
      BY <2>4 DEF Recover
    <3>2. PICK at \in approved.changedAt..expires - 1 :
            /\ Fresh(s, k) /\ at <= MaxTime
            /\ Commit(s, k,
                  [kind |-> "RECOVER", approved |-> approved, expires |-> expires, at |-> at],
                  "RECOVERED", RecoveredState(ks[s], clock))
      BY <3>1
    <3>3. approved \in State
      <4>1. PICK i \in DOMAIN chain[s] : approved = chain[s][i].after
        BY <3>1 DEF ApprovedStates
      <4>2. chain[s][i] \in Event
        BY <4>1 DEF TypeOK
      <4> QED BY <4>1, <4>2 DEF Event
    <3>4. at \in Time
      BY <3>2, <3>3, PaperOrdersAssumption DEF State, Time
    <3>5. [kind |-> "RECOVER", approved |-> approved, expires |-> expires, at |-> at] \in Operation
      BY <3>1, <3>3, <3>4, PaperOrdersAssumption DEF Operation, RecoverOp
    <3> QED BY <3>2, <3>5, CommandHasOneCause
  <2>5. ASSUME NEW order \in Order, NEW at \in Time, GateBlocked(order, at)
        PROVE  OperationsMatchEvents' /\ EvidenceOK'
    <3>1. PICK s \in Scopes : \E e :
            /\ e.type = "ORDER_BLOCKED"
            /\ chain' = [chain EXCEPT ![s] = Append(@, e)] /\ ops' = ops
            /\ EvidenceIn(s, e, Len(chain[s]) + 1, gateOf', decided')
      BY <2>5, BlockHasEvidence
    <3>2. PICK e :
            /\ e.type = "ORDER_BLOCKED"
            /\ chain' = [chain EXCEPT ![s] = Append(@, e)] /\ ops' = ops
            /\ EvidenceIn(s, e, Len(chain[s]) + 1, gateOf', decided')
      BY <3>1
    <3>3. OperationsMatchEvents'
      BY <3>2, BlockCauses
    <3>4. EvidenceOK'
      BY <3>2, NewEventEvidence
    <3> QED BY <3>3, <3>4
  <2>6. CASE Tick
    BY <2>1, <2>6 DEF Tick
  <2>7. ASSUME NEW order \in Order, NEW at \in Time,
               GateUnavailable(order, at) \/ GateAllowed(order, at)
        PROVE  UNCHANGED <<chain, ops>>
    BY <2>7 DEF GateUnavailable, GateAllowed, adminVars
  <2>8. CASE GateExit \/ Crash
    BY <2>1, <2>8 DEF GateExit, Crash, adminVars
  <2>9. CASE UNCHANGED vars
    BY <2>1, <2>9 DEF vars
  <2> QED BY <2>1, <2>2, <2>3, <2>4, <2>5, <2>6, <2>7, <2>8, <2>9
          DEF Next, ReplayOperation, GateReplay
<1>3. TypeOK /\ GuardSeesInactive /\ EventsLeft /\ [Next]_vars => EventsLeft'
  BY BlocksKeepEvents
<1>4. OperationsMatchEvents /\ EvidenceOK /\ EventsLeft => EventsHaveOneCause
  <2>1. EvidenceOK => BlockEvidence
    <3> SUFFICES ASSUME EvidenceOK, NEW s \in Scopes, NEW i \in DOMAIN chain[s],
                        chain[s][i].type = "ORDER_BLOCKED"
                 PROVE  LET order == chain[s][i].cause.order
                            d == decided[order.account][order.key] IN
                        /\ s \in {Global, order.account}
                        /\ chain[s][i].after.status = "ACTIVE"
                        /\ gateOf[order.account][order.key] = order
                        /\ d # None /\ d.event = i /\ d.at = chain[s][i].at
                        /\ (s = Global) <=> ("GLOBAL_ACTIVE" \in d.reasons)
      BY DEF BlockEvidence
    <3>1. EvidenceIn(s, chain[s][i], i, gateOf, decided)
      BY DEF EvidenceOK
    <3> QED BY <3>1 DEF EvidenceIn
  <2>2. EventsLeft => BlocksLeaveEvents
    BY DEF EventsLeft, EventLeft, BlocksLeaveEvents
  <2> QED BY <2>1, <2>2 DEF EventsHaveOneCause
<1> QED BY <1>1, <1>2, <1>3, <1>4, KillSwitchTypeOK, KillSwitchGuardSeesInactive, PTL DEF Spec

-----------------------------------------------------------------------------
(* The repository implements OrderGate: commands are switch changes,       *)
(* decisions are blocks, the guarded submission is the stay inside the     *)
(* gate, and events, incidents, revisions and idempotency records are      *)
(* invisible.                                                              *)
SwitchOf(st) ==
  IF st = None THEN None ELSE [active |-> st.status = "ACTIVE", changedAt |-> st.changedAt]

swBar == [s \in Scopes |-> IF ks[s] = None THEN None
                             ELSE [active |-> ks[s].status = "ACTIVE",
                                   changedAt |-> ks[s].changedAt]]
blockedBar == [a \in Accounts |-> [k \in OrderKeys |-> decided[a][k] # None]]

(* No state is stamped with a time still to come: activation takes the     *)
(* later of two times that have passed, recovery the present.              *)
StampsArePast == \A s \in Scopes : ks[s] # None => ks[s].changedAt <= clock

LEMMA KillSwitchStampsArePast == Spec => []StampsArePast
<1>1. Init => StampsArePast
  BY DEF Init, StampsArePast
<1>2. TypeOK /\ StampsArePast /\ [Next]_vars => StampsArePast'
  <2> SUFFICES ASSUME TypeOK, StampsArePast, [Next]_vars PROVE StampsArePast'
    OBVIOUS
  <2>1. clock \in Int /\ \A s \in Scopes : ks[s] # None => ks[s].changedAt \in Int
    BY PaperOrdersAssumption DEF TypeOK, State, Time
  <2>2. ASSUME UNCHANGED <<clock, ks>> PROVE StampsArePast'
    BY <2>2 DEF StampsArePast
  <2>3. ASSUME NEW s \in Scopes, NEW after, after.changedAt <= clock,
               ks' = [ks EXCEPT ![s] = after], clock' = clock
        PROVE  StampsArePast'
    BY <2>3 DEF StampsArePast, TypeOK
  <2>4. CASE Tick
    BY <2>1, <2>4 DEF Tick, StampsArePast
  <2>5. ASSUME NEW s \in Scopes, NEW k \in OpKeys, Initialize(s, k) PROVE StampsArePast'
    <3>1. PICK at \in 0..clock : ks' = [ks EXCEPT ![s] = InitialState(at)]
      BY <2>5 DEF Initialize, Commit
    <3>2. InitialState(at).changedAt <= clock /\ clock' = clock
      BY <2>1, <2>5, <3>1 DEF Initialize, InitialState
    <3> QED BY <2>3, <3>1, <3>2
  <2>6. ASSUME NEW s \in Scopes, NEW k \in OpKeys, NEW incident \in Incident,
               Activate(s, k, incident)
        PROVE  StampsArePast'
    <3>1. PICK at \in incident.at..clock :
            ks' = [ks EXCEPT ![s] =
                     ActivatedState(ks[s], incident, Later(at, ks[s].changedAt))]
      BY <2>6 DEF Activate, Commit
    <3>2. Later(at, ks[s].changedAt) <= clock
      BY <2>1, <2>6, <3>1 DEF Activate, Later, StampsArePast
    <3>3. ActivatedState(ks[s], incident, Later(at, ks[s].changedAt)).changedAt <= clock
      BY <3>2 DEF ActivatedState
    <3> QED BY <2>3, <2>6, <3>1, <3>3 DEF Activate
  <2>7. ASSUME NEW s \in Scopes, NEW k \in OpKeys, Recover(s, k) PROVE StampsArePast'
    <3>1. ks' = [ks EXCEPT ![s] = RecoveredState(ks[s], clock)] /\ clock' = clock
      BY <2>7 DEF Recover, Commit
    <3>2. RecoveredState(ks[s], clock).changedAt <= clock
      BY <2>1 DEF RecoveredState
    <3> QED BY <2>3, <3>1, <3>2
  <2> QED BY <2>2, <2>4, <2>5, <2>6, <2>7
          DEF Next, ReplayOperation, GateReplay, GateUnavailable, GateBlocked, GateAllowed,
              GateExit, Crash, adminVars, vars
<1> QED BY <1>1, <1>2, KillSwitchTypeOK, PTL DEF Spec

-----------------------------------------------------------------------------
(* A state of a scope, seen as a switch, is never None.                    *)
LEMMA SwitchOfState ==
  ASSUME NEW st \in State, st # None
  PROVE  /\ SwitchOf(st) = [active |-> st.status = "ACTIVE", changedAt |-> st.changedAt]
         /\ SwitchOf(st) # None
         /\ SwitchOf(st).active = (st.status = "ACTIVE")
         /\ SwitchOf(st).changedAt = st.changedAt
<1>1. [active |-> st.status = "ACTIVE", changedAt |-> st.changedAt]
        \in [active : BOOLEAN, changedAt : Time]
  BY DEF State
<1> QED BY <1>1, KillSwitchAssumption DEF SwitchOf

(* Writing a scope's state sets its switch.                                *)
LEMMA WriteSetsSwitch ==
  ASSUME TypeOK, NEW s \in Scopes, NEW after \in State,
         ks' = [ks EXCEPT ![s] = after]
  PROVE  swBar' = [swBar EXCEPT ![s] =
                     [active |-> after.status = "ACTIVE", changedAt |-> after.changedAt]]
<1>1. after # None
  BY KillSwitchAssumption
<1> QED BY <1>1 DEF TypeOK, swBar, SwitchOf

(* A stored decision, and nothing else, blocks its key.                    *)
LEMMA StoreBlockBlocks ==
  ASSUME TypeOK, NEW order \in Order, NEW d \in Decision, StoreBlock(order, d)
  PROVE  blockedBar' = [blockedBar EXCEPT ![order.account][order.key] = TRUE]
<1>1. order.account \in Accounts /\ order.key \in OrderKeys /\ d # None
  BY KillSwitchAssumption DEF Order
<1>2. ASSUME NEW a \in Accounts, NEW k \in OrderKeys
      PROVE  blockedBar'[a][k] =
               [blockedBar EXCEPT ![order.account][order.key] = TRUE][a][k]
  <2>1. decided'[a][k] = IF a = order.account /\ k = order.key THEN d ELSE decided[a][k]
    BY <1>1 DEF StoreBlock, TypeOK
  <2> QED BY <1>1, <2>1 DEF blockedBar
<1>3. /\ blockedBar' \in [Accounts -> [OrderKeys -> BOOLEAN]]
      /\ [blockedBar EXCEPT ![order.account][order.key] = TRUE]
            \in [Accounts -> [OrderKeys -> BOOLEAN]]
  BY <1>1 DEF blockedBar
<1> HIDE DEF blockedBar
<1> DEFINE f == [blockedBar EXCEPT ![order.account][order.key] = TRUE]
           g == blockedBar'
<1>4. \A a \in Accounts : f[a] = g[a]
  <2> TAKE a \in Accounts
  <2>1. f[a] \in [OrderKeys -> BOOLEAN] /\ g[a] \in [OrderKeys -> BOOLEAN]
    BY <1>3
  <2>2. \A k \in OrderKeys : f[a][k] = g[a][k]
    BY <1>2
  <2> HIDE DEF f, g
  <2> QED BY <2>1, <2>2
<1> HIDE DEF f, g
<1>5. f = g
  BY <1>3, <1>4 DEF f, g
<1> QED BY <1>5 DEF f, g

(* The gate's two ways to look at the switches agree.                      *)
LEMMA AdmitsSame ==
  ASSUME TypeOK, NEW order \in Order, NEW at \in Time
  PROVE  (StateAvailable(order, at) /\ ActiveScopes(order) = {}) <=>
         \A s \in {Global, order.account} :
           swBar[s] # None /\ ~swBar[s].active /\ swBar[s].changedAt <= at
<1>1. \A s \in {Global, order.account} : s \in Scopes
  BY DEF Order, Scopes
<1>2. ASSUME NEW s \in {Global, order.account}
      PROVE  (ks[s] # None /\ ks[s].changedAt <= at /\ ks[s].status # "ACTIVE") <=>
             (swBar[s] # None /\ ~swBar[s].active /\ swBar[s].changedAt <= at)
  <2>1. swBar[s] = SwitchOf(ks[s])
    BY <1>1, <1>2 DEF swBar, SwitchOf
  <2>2. CASE ks[s] = None
    BY <2>1, <2>2 DEF SwitchOf
  <2>3. CASE ks[s] # None
    <3>1. ks[s] \in State
      BY <1>1, <1>2, <2>3 DEF TypeOK
    <3> QED BY <2>1, <2>3, <3>1, SwitchOfState
  <2> QED BY <2>2, <2>3
<1> QED BY <1>2 DEF StateAvailable, ActiveScopes

-----------------------------------------------------------------------------
(* The kill switch keeps every promise of the abstract gate: each of its   *)
(* steps is a step of OrderGate or changes nothing the gate shows.         *)
THEOREM KillSwitchImplementsOrderGate == Spec => ImplementsOrderGate
<1>1. Init => Gate!Init
  <2> SUFFICES ASSUME Init PROVE Gate!Init
    OBVIOUS
  <2>1. swBar = [s \in Gate!Scopes |-> None]
    BY DEF Init, swBar, Scopes, Gate!Scopes
  <2>2. blockedBar = [a \in Accounts |-> [k \in OrderKeys |-> FALSE]]
    <3>1. \A a \in Accounts, k \in OrderKeys : decided[a][k] = None
      BY DEF Init
    <3> QED BY <3>1 DEF blockedBar
  <2> QED BY <2>1, <2>2 DEF Init, Gate!Init, swBar, blockedBar
<1>2. TypeOK /\ StampsArePast /\ [Next]_vars => [Gate!Next]_(Gate!gateVars)
  <2> SUFFICES ASSUME TypeOK, StampsArePast, [Next]_vars PROVE [Gate!Next]_(Gate!gateVars)
    OBVIOUS
  <2>0. clock \in Int /\ \A s \in Scopes : ks[s] # None => ks[s].changedAt \in Int
    BY PaperOrdersAssumption DEF TypeOK, State, Time
  <2>1. \A s \in Scopes : ks[s] # None => swBar[s] = SwitchOf(ks[s]) /\ ks[s] \in State
    BY DEF swBar, SwitchOf, TypeOK
  <2>2. CASE Tick
    BY <2>2 DEF Tick, Gate!Tick, Gate!Next
  <2>3. ASSUME NEW s \in Scopes, NEW k \in OpKeys, Initialize(s, k)
        PROVE  Gate!Install(s)
    <3>1. PICK at \in 0..clock : ks' = [ks EXCEPT ![s] = InitialState(at)]
      BY <2>3 DEF Initialize, Commit
    <3>2. at \in Time
      BY <3>1, PaperOrdersAssumption DEF TypeOK, Time
    <3>3. InitialState(at) \in State
      BY <3>2, InitialStateType
    <3>4. swBar' = [swBar EXCEPT ![s] = [active |-> FALSE, changedAt |-> at]]
      BY <3>1, <3>3, WriteSetsSwitch DEF InitialState
    <3>5. swBar[s] = None
      BY <2>3 DEF Initialize, swBar
    <3>6. guard = None /\ UNCHANGED <<clock, gateOf, decided, guard>>
      BY <2>3 DEF Initialize, LockFree, gateVars
    <3>7. UNCHANGED blockedBar
      BY <3>6 DEF blockedBar
    <3>8. Gate!SetSwitch(s, FALSE, at)
      BY <3>4, <3>6, <3>7 DEF Gate!SetSwitch, swBar, blockedBar
    <3> QED BY <3>5, <3>8 DEF Gate!Install, swBar
  <2>4. ASSUME NEW s \in Scopes, NEW k \in OpKeys, NEW incident \in Incident,
               Activate(s, k, incident)
        PROVE  Gate!TurnOn(s)
    <3> DEFINE after(at) == ActivatedState(ks[s], incident, Later(at, ks[s].changedAt))
    <3>1. PICK at \in incident.at..clock : ks' = [ks EXCEPT ![s] = after(at)]
      BY <2>4 DEF Activate, Commit
    <3>2. at \in Time /\ at <= clock
      BY <3>1, PaperOrdersAssumption DEF TypeOK, Time, Incident
    <3>3. ks[s] # None /\ ks[s] \in State /\ ks[s].revision < MaxRevision
      BY <2>1, <2>4 DEF Activate
    <3>4. PICK stamp \in 0..clock : stamp = Later(at, ks[s].changedAt)
      BY <2>0, <3>2, <3>3 DEF Later, StampsArePast, State, Time
    <3>5. after(at) \in State /\ after(at).status = "ACTIVE" /\ after(at).changedAt = stamp
      <4>1. stamp \in Time
        BY <3>2, <3>3, <3>4 DEF Later, State
      <4> QED BY <3>3, <3>4, <4>1, ActivatedStateType DEF ActivatedState
    <3> HIDE DEF after
    <3>6. swBar' = [swBar EXCEPT ![s] = [active |-> TRUE, changedAt |-> stamp]]
      BY <3>1, <3>5, WriteSetsSwitch
    <3>7. swBar[s] # None /\ swBar[s].changedAt <= stamp
      <4>1. ks[s].changedAt <= stamp
        BY <2>0, <3>2, <3>3, <3>4 DEF Later, Time
      <4> QED BY <2>1, <3>3, <4>1, SwitchOfState
    <3>8. guard = None /\ UNCHANGED <<clock, gateOf, decided, guard>>
      BY <2>4 DEF Activate, LockFree, gateVars
    <3>9. UNCHANGED blockedBar
      BY <3>8 DEF blockedBar
    <3>10. Gate!SetSwitch(s, TRUE, stamp)
      BY <3>6, <3>8, <3>9 DEF Gate!SetSwitch, swBar, blockedBar
    <3> QED BY <3>7, <3>10 DEF Gate!TurnOn, swBar
  <2>5. ASSUME NEW s \in Scopes, NEW k \in OpKeys, Recover(s, k)
        PROVE  Gate!TurnOff(s)
    <3>1. PICK approved \in ApprovedStates(s), expires \in 1..MaxTime + 1 :
            /\ ks[s].revision < MaxRevision
            /\ ks[s] = approved
            /\ ks[s].status = "ACTIVE"
            /\ ks' = [ks EXCEPT ![s] = RecoveredState(ks[s], clock)]
      BY <2>5 DEF Recover, ApprovalHolds, Commit
    <3>2. ks[s] # None /\ ks[s] \in State
      <4>1. chain[s] \in Seq(Event)
        BY DEF TypeOK
      <4>2. PICK i \in DOMAIN chain[s] : ks[s] = chain[s][i].after
        BY <3>1 DEF ApprovedStates
      <4>3. chain[s][i] \in Event
        BY <4>1, <4>2
      <4> QED BY <4>2, <4>3, KillSwitchAssumption DEF Event
    <3>3. /\ RecoveredState(ks[s], clock) \in State
          /\ RecoveredState(ks[s], clock).status # "ACTIVE"
          /\ RecoveredState(ks[s], clock).changedAt = clock
      <4>1. RecoveredState(ks[s], clock) \in State
        BY <3>1, <3>2, RecoveredStateType DEF TypeOK
      <4> QED BY <4>1 DEF RecoveredState
    <3>4. swBar' = [swBar EXCEPT ![s] = [active |-> FALSE, changedAt |-> clock]]
      BY <3>1, <3>3, WriteSetsSwitch
    <3>5. swBar[s] # None /\ swBar[s].active /\ swBar[s].changedAt <= clock
      BY <2>1, <3>1, <3>2, SwitchOfState DEF StampsArePast
    <3>6. guard = None /\ UNCHANGED <<clock, gateOf, decided, guard>>
      BY <2>5 DEF Recover, LockFree, gateVars
    <3>7. UNCHANGED blockedBar
      BY <3>6 DEF blockedBar
    <3>8. Gate!SetSwitch(s, FALSE, clock)
      BY <3>4, <3>6, <3>7 DEF Gate!SetSwitch, swBar, blockedBar
    <3> QED BY <3>5, <3>8 DEF Gate!TurnOff, swBar
  <2>6. ASSUME NEW order \in Order, NEW d \in Decision, NEW at \in Time, Undecided(order),
               StoreBlock(order, d), UNCHANGED <<clock, ks, guard>>,
               ~(StateAvailable(order, at) /\ ActiveScopes(order) = {})
        PROVE  Gate!Block(order, at)
    <3>1. order.account \in Accounts /\ order.key \in OrderKeys
      BY DEF Order
    <3>2. guard = None /\ gateOf[order.account][order.key] \in {None, order}
          /\ ~blockedBar[order.account][order.key]
      BY <2>6, <3>1 DEF Undecided, LockFree, KeyAccepts, blockedBar
    <3>3. Gate!Undecided(order)
      BY <3>2 DEF Gate!Undecided, Gate!KeyAccepts, blockedBar
    <3>4. ~Gate!Admits(order, at)
      BY <2>6, AdmitsSame DEF Gate!Admits, swBar
    <3>5. gateOf' = [gateOf EXCEPT ![order.account][order.key] = order]
      BY <2>6 DEF StoreBlock, Bind
    <3>6. blockedBar' = [blockedBar EXCEPT ![order.account][order.key] = TRUE]
      BY <2>6, StoreBlockBlocks
    <3>7. UNCHANGED <<clock, swBar, guard>>
      BY <2>6 DEF swBar
    <3> QED BY <3>3, <3>4, <3>5, <3>6, <3>7 DEF Gate!Block, swBar, blockedBar
  <2>7. ASSUME NEW order \in Order, NEW at \in Time, GateUnavailable(order, at)
        PROVE  Gate!Block(order, at)
    <3>1. [at |-> at, reasons |-> {"STATE_UNAVAILABLE"}, event |-> 0] \in Decision
      BY DEF Decision
    <3> QED BY <2>6, <2>7, <3>1 DEF GateUnavailable, adminVars
  <2>8. ASSUME NEW order \in Order, NEW at \in Time, GateBlocked(order, at)
        PROVE  Gate!Block(order, at)
    <3> DEFINE primary == IF Global \in ActiveScopes(order) THEN Global ELSE order.account
               d == [at |-> at, event |-> Len(chain[primary]) + 1,
                     reasons |-> {IF s = Global THEN "GLOBAL_ACTIVE" ELSE "ACCOUNT_ACTIVE"
                                    : s \in ActiveScopes(order)}]
    <3>1. primary \in Scopes
      BY DEF Order, Scopes
    <3>2. Len(chain[primary]) + 1 \in Nat
      <4>1. chain[primary] \in Seq(Event)
        BY <3>1 DEF TypeOK
      <4> QED BY <4>1
    <3>3. d \in Decision
      <4>1. {IF s = Global THEN "GLOBAL_ACTIVE" ELSE "ACCOUNT_ACTIVE" : s \in ActiveScopes(order)}
              \in SUBSET {"GLOBAL_ACTIVE", "ACCOUNT_ACTIVE", "STATE_UNAVAILABLE"}
        OBVIOUS
      <4> QED BY <3>2, <4>1 DEF Decision
    <3>4. StoreBlock(order, d) /\ Undecided(order) /\ UNCHANGED <<clock, ks, guard>>
      BY <2>8 DEF GateBlocked, adminVars
    <3> HIDE DEF d, primary
    <3> QED BY <2>6, <2>8, <3>3, <3>4 DEF GateBlocked
  <2>9. ASSUME NEW order \in Order, NEW at \in Time, GateAllowed(order, at)
        PROVE  Gate!Enter(order, at)
    <3>1. order.account \in Accounts /\ order.key \in OrderKeys
      BY DEF Order
    <3>2. guard = None /\ gateOf[order.account][order.key] \in {None, order}
          /\ ~blockedBar[order.account][order.key]
      BY <2>9, <3>1 DEF GateAllowed, Undecided, LockFree, KeyAccepts, blockedBar
    <3>3. Gate!Undecided(order)
      BY <3>2 DEF Gate!Undecided, Gate!KeyAccepts, blockedBar
    <3>4. Gate!Admits(order, at)
      BY <2>9, AdmitsSame DEF GateAllowed, Gate!Admits, swBar
    <3>5. UNCHANGED <<clock, swBar, blockedBar>>
      BY <2>9 DEF GateAllowed, adminVars, swBar, blockedBar
    <3> QED BY <2>9, <3>3, <3>4, <3>5 DEF GateAllowed, Bind, Gate!Enter, swBar, blockedBar
  <2>10. CASE GateExit
    <3>1. UNCHANGED <<swBar, blockedBar>>
      BY <2>10 DEF GateExit, adminVars, swBar, blockedBar
    <3> QED BY <2>10, <3>1 DEF GateExit, Gate!Next, Gate!Exit, swBar, blockedBar
  <2>11. CASE Crash
    <3>1. UNCHANGED <<swBar, blockedBar>>
      BY <2>11 DEF Crash, adminVars, swBar, blockedBar
    <3> QED BY <2>11, <3>1 DEF Crash, Gate!Next, Gate!Lose, swBar, blockedBar
  <2>12. ASSUME UNCHANGED vars PROVE UNCHANGED Gate!gateVars
    <3>1. UNCHANGED <<swBar, blockedBar>>
      BY <2>12 DEF vars, swBar, blockedBar
    <3> QED BY <2>12, <3>1 DEF vars, Gate!gateVars, swBar, blockedBar
  <2>13. ASSUME NEW s \in Scopes, Gate!Install(s) \/ Gate!TurnOn(s) \/ Gate!TurnOff(s)
         PROVE  Gate!Next
    BY <2>13 DEF Gate!Next, Gate!SwitchNext, Scopes, Gate!Scopes
  <2>14. ASSUME NEW order \in Order, NEW at \in Time, Gate!Block(order, at) \/ Gate!Enter(order, at)
         PROVE  Gate!Next
    BY <2>14 DEF Gate!Next, Order, Gate!Order, Versions, Gate!Versions, Time, Gate!Time
  <2>15. CASE \E s \in Scopes, k \in OpKeys :
                \/ Initialize(s, k)
                \/ \E incident \in Incident : Activate(s, k, incident)
                \/ Recover(s, k)
    BY <2>3, <2>4, <2>5, <2>13, <2>15
  <2>16. CASE \E order \in Order, at \in Time :
                GateUnavailable(order, at) \/ GateBlocked(order, at) \/ GateAllowed(order, at)
    BY <2>7, <2>8, <2>9, <2>14, <2>16
  <2> QED BY <2>2, <2>10, <2>11, <2>12, <2>15, <2>16 DEF Next, ReplayOperation, GateReplay
<1> QED BY <1>1, <1>2, KillSwitchTypeOK, KillSwitchStampsArePast, PTL
        DEF Spec, ImplementsOrderGate, Gate!Spec

-----------------------------------------------------------------------------
(* PART TWO: THE AGENT'S TOOLS                                             *)

CreatePcs == {"find", "put", "stored", "raced", "failed"}
Early == {"fetch", "by_key"}
Late == {"by_batch", "account", "service", "conflict", "executed", "failed"}

DraftShape == [decision : Decisions, at : Nat]
CreateCall ==
  [pc : CreatePcs, tool : {"create"}, decision : Decisions, key : Keys, at : Nat]
SubmitCall ==
  [pc : Early \cup Late, tool : {"submit"}, decision : Decisions, key : Keys, at : Nat,
   batch : DraftShape, expects : Nat, known : BOOLEAN]
Call == [pc : {"idle"}] \cup CreateCall \cup SubmitCall

ToolsTypeOK ==
  /\ now \in Nat
  /\ account \in [version : Nat, snapshot : Nat]
  /\ decidedOn \in [Decisions -> Nat \cup {NoSnapshot}]
  /\ \A r \in receipts : r.snapshot \in Nat
  /\ drafts \subseteq [decision : Decisions, key : Keys, draft : DraftShape]
  /\ calls \in [Threads -> Call]

(* One draft for a decision and a key, one receipt for a key and a batch.  *)
DraftsAreUnique ==
  \A a, b \in drafts : a.decision = b.decision /\ a.key = b.key => a = b
ReceiptsAreUnique ==
  \A r, s \in receipts : r.key = s.key \/ r.batch = s.batch => r = s

(* What was answered is what is stored.                                    *)
AnswerIsStored(a) ==
  /\ a.tool = "create" =>
       \E s \in drafts : s.decision = a.decision /\ s.key = a.key /\ s.draft = a.result
  /\ a.tool = "submit" =>
       /\ \E r \in receipts : r.key = a.key /\ r.batch = a.result
                              /\ r.snapshot = decidedOn[a.decision]
       /\ \E s \in drafts : s.draft = a.result
       /\ a.result.decision = a.decision

(* What a creation is about to answer is stored, and a submission past     *)
(* the artifact store is of a stored draft of its decision.                *)
CallFits(t) ==
  /\ At(t, "stored") =>
       \E s \in drafts : s.decision = calls[t].decision /\ s.key = calls[t].key
                         /\ s.draft = Derived(t)
  /\ calls[t].pc \in (Early \cup Late) \ {"fetch", "failed"} =>
       /\ \E s \in drafts : s.draft = calls[t].batch
       /\ calls[t].batch.decision = calls[t].decision

(* A retry of an answered order never gets past the receipt of its key.    *)
KnownIsAnswered(t) ==
  calls[t].pc \in Early \cup Late /\ calls[t].tool = "submit" /\ calls[t].known =>
    /\ [tool |-> "submit", decision |-> calls[t].decision, key |-> calls[t].key,
        result |-> calls[t].batch] \in told
    /\ calls[t].pc \in Early

ToolsInv ==
  /\ ToolsTypeOK
  /\ DraftsAreUnique /\ ReceiptsAreUnique
  /\ \A a \in told : AnswerIsStored(a)
  /\ \A t \in Threads : CallFits(t) /\ KnownIsAnswered(t)

USE OrderToolsAssumption

-----------------------------------------------------------------------------
(* Which tool a thread is in follows from where it is.                     *)
LEMMA CallShape ==
  ASSUME ToolsInv, NEW t \in Threads
  PROVE  /\ calls[t] \in Call
         /\ calls[t].pc \in CreatePcs \ {"failed"} => calls[t] \in CreateCall
         /\ calls[t].pc \in (Early \cup Late) \ {"failed"} => calls[t] \in SubmitCall
BY DEF ToolsInv, ToolsTypeOK, Call, CreateCall, SubmitCall, CreatePcs, Early, Late

(* Moving on changes only where the call is.                               *)
LEMMA CreateMoves ==
  ASSUME ToolsInv, NEW t \in Threads, calls[t] \in CreateCall,
         NEW pc \in CreatePcs, Goto(t, pc)
  PROVE  /\ calls'[t] \in CreateCall
         /\ calls'[t].pc = pc /\ calls'[t].tool = "create"
         /\ calls'[t].decision = calls[t].decision
         /\ calls'[t].key = calls[t].key /\ calls'[t].at = calls[t].at
BY DEF ToolsInv, ToolsTypeOK, Goto, CreateCall

LEMMA SubmitMoves ==
  ASSUME ToolsInv, NEW t \in Threads, calls[t] \in SubmitCall,
         NEW pc \in Early \cup Late, Goto(t, pc)
  PROVE  /\ calls'[t] \in SubmitCall
         /\ calls'[t].pc = pc /\ calls'[t].tool = "submit"
         /\ calls'[t].decision = calls[t].decision
         /\ calls'[t].key = calls[t].key /\ calls'[t].batch = calls[t].batch
         /\ calls'[t].known = calls[t].known
BY DEF ToolsInv, ToolsTypeOK, Goto, SubmitCall

(* The invariant after a step of one thread, from what the step itself     *)
(* adds: rows that keep the tables unique, answers that are stored, and a  *)
(* call that fits.                                                         *)
LEMMA ThreadStep ==
  ASSUME ToolsInv, NEW t \in Threads,
         \A u \in Threads \ {t} : calls'[u] = calls[u],
         drafts \subseteq drafts', receipts \subseteq receipts', told \subseteq told',
         decidedOn' = decidedOn,
         ToolsTypeOK', DraftsAreUnique', ReceiptsAreUnique',
         \A a \in told' \ told : AnswerIsStored(a)',
         CallFits(t)', KnownIsAnswered(t)'
  PROVE  ToolsInv'
<1>1. ASSUME NEW a \in told PROVE AnswerIsStored(a)'
  <2>1. AnswerIsStored(a)
    BY DEF ToolsInv
  <2> QED
    BY <2>1 DEF AnswerIsStored
<1>2. ASSUME NEW u \in Threads \ {t} PROVE CallFits(u)' /\ KnownIsAnswered(u)'
  <2>1. CallFits(u) /\ KnownIsAnswered(u) /\ calls'[u] = calls[u]
    BY DEF ToolsInv
  <2> QED
    BY <2>1 DEF CallFits, KnownIsAnswered, At, Derived
<1> QED
  BY <1>1, <1>2 DEF ToolsInv

(* A step that only moves one thread on.                                   *)
LEMMA MoveStep ==
  ASSUME ToolsInv, NEW t \in Threads, ToolsIdle,
         calls' = [calls EXCEPT ![t] = calls'[t]], calls'[t] \in Call,
         CallFits(t)', KnownIsAnswered(t)'
  PROVE  ToolsInv'
<1>1. ToolsTypeOK' /\ DraftsAreUnique' /\ ReceiptsAreUnique'
  BY DEF ToolsInv, ToolsTypeOK, DraftsAreUnique, ReceiptsAreUnique, ToolsIdle
<1>2. \A u \in Threads \ {t} : calls'[u] = calls[u]
  BY DEF ToolsInv, ToolsTypeOK
<1>3. drafts' = drafts /\ receipts' = receipts /\ told' = told /\ decidedOn' = decidedOn
  BY DEF ToolsIdle
<1> QED
  BY <1>1, <1>2, <1>3, ThreadStep

(* A thread that is idle, or has failed, has nothing left to fit.          *)
LEMMA EndStep ==
  ASSUME ToolsInv, NEW t \in Threads, ToolsIdle,
         calls' = [calls EXCEPT ![t] = [pc |-> "idle"]]
  PROVE  ToolsInv'
<1>1. calls'[t] = [pc |-> "idle"]
  BY DEF ToolsInv, ToolsTypeOK
<1>2. CallFits(t)' /\ KnownIsAnswered(t)' /\ calls'[t] \in Call
  BY <1>1 DEF CallFits, KnownIsAnswered, At, Early, Late, Call
<1>3. calls' = [calls EXCEPT ![t] = calls'[t]]
  BY <1>1
<1> QED
  BY <1>2, <1>3, MoveStep

(* An answer of what is stored keeps the invariant.                        *)
LEMMA AnswerStep ==
  ASSUME ToolsInv, NEW t \in Threads, NEW result, Answer(t, result),
         AnswerIsStored([tool |-> calls[t].tool, decision |-> calls[t].decision,
                         key |-> calls[t].key, result |-> result])
  PROVE  ToolsInv'
<1> DEFINE new == [tool |-> calls[t].tool, decision |-> calls[t].decision,
                   key |-> calls[t].key, result |-> result]
<1>1. /\ calls' = [calls EXCEPT ![t] = [pc |-> "idle"]]
      /\ told' = told \cup {new}
      /\ UNCHANGED <<now, account, decidedOn, drafts, receipts>>
  BY DEF Answer
<1>2. AnswerIsStored(new)
  OBVIOUS
<1> HIDE DEF new
<1>3. ToolsTypeOK' /\ DraftsAreUnique' /\ ReceiptsAreUnique'
  BY <1>1 DEF ToolsInv, ToolsTypeOK, DraftsAreUnique, ReceiptsAreUnique, Call
<1>4. (\A u \in Threads \ {t} : calls'[u] = calls[u]) /\ calls'[t] = [pc |-> "idle"]
  BY <1>1 DEF ToolsInv, ToolsTypeOK
<1>5. CallFits(t)' /\ KnownIsAnswered(t)'
  BY <1>4 DEF CallFits, KnownIsAnswered, At, Early, Late
<1>6. \A a \in told' \ told : AnswerIsStored(a)'
  BY <1>1, <1>2 DEF AnswerIsStored
<1> QED
  BY <1>1, <1>3, <1>4, <1>5, <1>6, ThreadStep

-----------------------------------------------------------------------------
(* A call that begins knows of its order only what was answered.           *)
LEMMA BeginStep ==
  ASSUME ToolsInv, NEW t \in Threads,
         \/ \E d \in Decisions, k \in Keys : Create(t, d, k)
         \/ \E d \in Decisions, k \in Keys, a \in drafts : Submit(t, d, k, a.draft)
  PROVE  ToolsInv'
<1>1. CASE \E d \in Decisions, k \in Keys : Create(t, d, k)
  <2>1. PICK d \in Decisions, k \in Keys : Create(t, d, k)
    BY <1>1
  <2> DEFINE call == [pc |-> "find", tool |-> "create", decision |-> d, key |-> k, at |-> now]
  <2>2. calls' = [calls EXCEPT ![t] = call] /\ ToolsIdle
    BY <2>1 DEF Create
  <2>3. call \in Call /\ call.pc = "find"
    BY DEF Call, CreateCall, CreatePcs, ToolsInv, ToolsTypeOK
  <2> HIDE DEF call
  <2>4. calls'[t] = call
    BY <2>2 DEF ToolsInv, ToolsTypeOK
  <2>5. CallFits(t)' /\ KnownIsAnswered(t)'
    BY <2>3, <2>4 DEF CallFits, KnownIsAnswered, At, Early, Late
  <2> QED
    BY <2>2, <2>3, <2>4, <2>5, MoveStep
<1>2. CASE \E d \in Decisions, k \in Keys, a \in drafts : Submit(t, d, k, a.draft)
  <2>1. PICK d \in Decisions, k \in Keys, a \in drafts : Submit(t, d, k, a.draft)
    BY <1>2
  <2> DEFINE answer == [tool |-> "submit", decision |-> d, key |-> k, result |-> a.draft]
             call == [pc |-> "fetch", tool |-> "submit", decision |-> d, key |-> k, at |-> now,
                      batch |-> a.draft, expects |-> 0, known |-> answer \in told]
  <2>2. calls' = [calls EXCEPT ![t] = call] /\ ToolsIdle
    BY <2>1 DEF Submit
  <2>3. a.draft \in DraftShape /\ now \in Nat
    BY DEF ToolsInv, ToolsTypeOK
  <2>4. call \in Call
    BY <2>3 DEF Call, SubmitCall, Early
  <2>5. /\ call.pc = "fetch" /\ call.decision = d /\ call.key = k /\ call.batch = a.draft
        /\ call.known <=> answer \in told
    OBVIOUS
  <2> HIDE DEF call
  <2>6. calls'[t] = call /\ told' = told
    BY <2>2 DEF ToolsInv, ToolsTypeOK, ToolsIdle
  <2>7. CallFits(t)'
    BY <2>5, <2>6 DEF CallFits, At
  <2>8. KnownIsAnswered(t)'
    BY <2>5, <2>6 DEF KnownIsAnswered, Early
  <2> QED
    BY <2>2, <2>4, <2>6, <2>7, <2>8, MoveStep
<1> QED
  BY <1>1, <1>2

(* A creation may fail anywhere.                                           *)
LEMMA CreateFails ==
  ASSUME ToolsInv, NEW t \in Threads, calls[t] \in CreateCall, Fail(t)
  PROVE  ToolsInv'
<1>1. Goto(t, "failed") /\ ToolsIdle
  BY DEF Fail
<1>2. calls'[t] \in CreateCall /\ calls'[t].pc = "failed" /\ calls'[t].tool = "create"
  BY <1>1, CreateMoves DEF CreatePcs
<1>3. CallFits(t)' /\ KnownIsAnswered(t)'
  BY <1>2 DEF CallFits, KnownIsAnswered, At
<1>4. calls' = [calls EXCEPT ![t] = calls'[t]]
  BY <1>1 DEF Goto, ToolsInv, ToolsTypeOK
<1> QED
  BY <1>1, <1>2, <1>3, <1>4, MoveStep DEF Call

(* A creation that moves on without storing anything: to "stored" it comes *)
(* only when its own draft is there.                                       *)
LEMMA CreateGoes ==
  ASSUME ToolsInv, NEW t \in Threads, calls[t] \in CreateCall,
         NEW pc \in CreatePcs, Goto(t, pc), ToolsIdle,
         pc = "stored" =>
           \E s \in drafts : s.decision = calls[t].decision /\ s.key = calls[t].key
                             /\ s.draft = Derived(t)
  PROVE  ToolsInv'
<1>1. /\ calls'[t] \in CreateCall
      /\ calls'[t].pc = pc /\ calls'[t].tool = "create"
      /\ calls'[t].decision = calls[t].decision
      /\ calls'[t].key = calls[t].key /\ calls'[t].at = calls[t].at
  BY CreateMoves
<1>2. CallFits(t)'
  <2>1. Derived(t)' = Derived(t) /\ drafts' = drafts
    BY <1>1 DEF Derived, ToolsIdle
  <2> QED
    BY <1>1, <2>1 DEF CallFits, At, CreatePcs, Early, Late
<1>3. KnownIsAnswered(t)'
  BY <1>1 DEF KnownIsAnswered
<1>4. calls' = [calls EXCEPT ![t] = calls'[t]]
  BY DEF Goto, ToolsInv, ToolsTypeOK
<1> QED
  BY <1>1, <1>2, <1>3, <1>4, MoveStep DEF Call

(* The first artifact of a key is stored: the key had none before.         *)
LEMMA PutStep ==
  ASSUME ToolsInv, NEW t \in Threads, PutDraft(t)
  PROVE  ToolsInv'
<1> DEFINE row == [decision |-> calls[t].decision, key |-> calls[t].key, draft |-> Derived(t)]
<1>1. /\ Stored(t) = {} /\ drafts' = drafts \cup {row}
      /\ Goto(t, "stored") /\ UNCHANGED <<now, account, decidedOn, receipts, told>>
      /\ calls[t].pc = "put"
  BY DEF PutDraft, At
<1>2. calls[t] \in CreateCall
  BY <1>1, CallShape DEF CreatePcs
<1>3. /\ calls'[t] \in CreateCall
      /\ calls'[t].pc = "stored" /\ calls'[t].tool = "create"
      /\ calls'[t].decision = calls[t].decision
      /\ calls'[t].key = calls[t].key /\ calls'[t].at = calls[t].at
  BY <1>1, <1>2, CreateMoves DEF CreatePcs
<1>4. /\ row \in [decision : Decisions, key : Keys, draft : DraftShape]
      /\ row.decision = calls[t].decision /\ row.key = calls[t].key /\ row.draft = Derived(t)
  BY <1>2 DEF CreateCall, Derived, DraftShape
<1> HIDE DEF row
<1>5. (\A u \in Threads \ {t} : calls'[u] = calls[u]) /\ calls' \in [Threads -> Call]
  <2>1. calls'[t] \in Call
    BY <1>3 DEF Call
  <2> QED
    BY <1>1, <2>1 DEF Goto, ToolsInv, ToolsTypeOK
<1>6. ToolsTypeOK' /\ ReceiptsAreUnique'
  BY <1>1, <1>4, <1>5 DEF ToolsInv, ToolsTypeOK, ReceiptsAreUnique
<1>7. DraftsAreUnique'
  <2>1. \A a \in drafts : ~(a.decision = row.decision /\ a.key = row.key)
    BY <1>1, <1>4 DEF Stored
  <2> QED
    BY <1>1, <2>1 DEF ToolsInv, DraftsAreUnique
<1>8. CallFits(t)' /\ KnownIsAnswered(t)'
  <2>1. Derived(t)' = Derived(t) /\ row \in drafts'
    BY <1>1, <1>3 DEF Derived
  <2> QED
    BY <1>3, <1>4, <2>1 DEF CallFits, KnownIsAnswered, At, Early, Late
<1> QED
  BY <1>1, <1>5, <1>6, <1>7, <1>8, ThreadStep

LEMMA CreateStepKeeps ==
  ASSUME ToolsInv, NEW t \in Threads, CreateStep(t)
  PROVE  ToolsInv'
<1>1. /\ calls[t].pc \in CreatePcs \ {"failed"}
      /\ calls[t] \in CreateCall
      /\ calls[t].tool = "create"
  <2>1. calls[t].pc \in CreatePcs \ {"failed"}
    BY DEF CreateStep, FindDraft, DraftRefused, PutDraft, PutReplays, PutConflicts, AnswerStored,
           AnswerRaced, At, CreatePcs
  <2> QED
    BY <2>1, CallShape DEF CreateCall
<1>2. ASSUME NEW a \in drafts, Answer(t, a.draft),
             a.decision = calls[t].decision, a.key = calls[t].key
      PROVE  ToolsInv'
  <2>1. AnswerIsStored([tool |-> calls[t].tool, decision |-> calls[t].decision,
                        key |-> calls[t].key, result |-> a.draft])
    BY <1>1, <1>2 DEF AnswerIsStored
  <2> QED
    BY <1>2, <2>1, AnswerStep
<1>3. CASE FindDraft(t)
  <2>1. CASE Stored(t) = {}
    BY <1>1, <1>3, <2>1, CreateGoes DEF FindDraft, CreatePcs
  <2>2. CASE \E a \in Stored(t) : Answer(t, a.draft)
    BY <1>2, <2>2 DEF Stored
  <2> QED
    BY <1>3, <2>1, <2>2 DEF FindDraft
<1>4. CASE DraftRefused(t)
  BY <1>1, <1>4, CreateFails DEF DraftRefused
<1>5. CASE PutDraft(t)
  BY <1>5, PutStep
<1>6. CASE PutReplays(t)
  BY <1>1, <1>6, CreateGoes DEF PutReplays, Stored, CreatePcs
<1>7. CASE PutConflicts(t)
  BY <1>1, <1>7, CreateGoes DEF PutConflicts, CreatePcs
<1>8. CASE AnswerStored(t)
  <2>1. PICK s \in drafts : s.decision = calls[t].decision /\ s.key = calls[t].key
                            /\ s.draft = Derived(t)
    BY <1>8 DEF AnswerStored, ToolsInv, CallFits
  <2> QED
    BY <1>2, <1>8, <2>1 DEF AnswerStored
<1>9. CASE AnswerRaced(t)
  BY <1>2, <1>9 DEF AnswerRaced, Stored
<1> QED
  BY <1>3, <1>4, <1>5, <1>6, <1>7, <1>8, <1>9 DEF CreateStep

-----------------------------------------------------------------------------
(* A submission that moves on, or fails: past the first two questions it   *)
(* is of no order that was answered before.                                *)
LEMMA SubmitGoes ==
  ASSUME ToolsInv, NEW t \in Threads, calls[t] \in SubmitCall,
         NEW pc \in (Early \cup Late) \ {"fetch"}, Goto(t, pc), ToolsIdle,
         calls[t].known => pc \in Early /\ calls[t].pc \in Early,
         pc # "failed" => /\ \E s \in drafts : s.draft = calls[t].batch
                          /\ calls[t].batch.decision = calls[t].decision
  PROVE  ToolsInv'
<1>1. /\ calls'[t] \in SubmitCall
      /\ calls'[t].pc = pc /\ calls'[t].tool = "submit"
      /\ calls'[t].decision = calls[t].decision
      /\ calls'[t].key = calls[t].key /\ calls'[t].batch = calls[t].batch
      /\ calls'[t].known = calls[t].known
  BY SubmitMoves
<1>2. CallFits(t)'
  BY <1>1 DEF CallFits, At, ToolsIdle, Early, Late
<1>3. KnownIsAnswered(t)'
  <2> SUFFICES ASSUME calls[t].known PROVE KnownIsAnswered(t)'
    BY <1>1 DEF KnownIsAnswered
  <2>1. KnownIsAnswered(t) /\ calls[t].tool = "submit"
    BY DEF ToolsInv, SubmitCall
  <2>2. [tool |-> "submit", decision |-> calls[t].decision, key |-> calls[t].key,
         result |-> calls[t].batch] \in told
    BY <2>1 DEF KnownIsAnswered
  <2> QED
    BY <1>1, <2>2 DEF KnownIsAnswered, ToolsIdle
<1>4. calls' = [calls EXCEPT ![t] = calls'[t]]
  BY DEF Goto, ToolsInv, ToolsTypeOK
<1> QED
  BY <1>1, <1>2, <1>3, <1>4, MoveStep DEF Call

(* A receipt bound to the call is an answer; any other makes it fail.      *)
LEMMA SubmitAnswers ==
  ASSUME ToolsInv, NEW t \in Threads, calls[t] \in SubmitCall,
         calls[t].pc \in (Early \cup Late) \ {"fetch", "failed"},
         NEW r \in receipts, AnswerReceipt(t, r), calls[t].known => Bound(t, r)
  PROVE  ToolsInv'
<1>1. CASE Bound(t, r)
  <2>1. /\ \E s \in drafts : s.draft = calls[t].batch
        /\ calls[t].batch.decision = calls[t].decision
    BY DEF ToolsInv, CallFits
  <2>2. /\ r.key = calls[t].key /\ r.batch = calls[t].batch
        /\ r.snapshot = decidedOn[calls[t].decision]
        /\ calls[t].tool = "submit"
    BY <1>1 DEF Bound, SubmitCall
  <2>3. AnswerIsStored([tool |-> calls[t].tool, decision |-> calls[t].decision,
                        key |-> calls[t].key, result |-> r.batch])
    BY <2>1, <2>2 DEF AnswerIsStored
  <2> QED
    BY <1>1, <2>3, AnswerStep DEF AnswerReceipt
<1>2. CASE ~Bound(t, r)
  <2>1. Goto(t, "failed") /\ ToolsIdle /\ ~calls[t].known
    BY <1>2 DEF AnswerReceipt, Fail
  <2> QED
    BY <2>1, SubmitGoes DEF Late
<1> QED
  BY <1>1, <1>2

(* The receipt of an answered order's key is bound to every retry of it.   *)
LEMMA KnownFindsReceipt ==
  ASSUME ToolsInv, NEW t \in Threads, calls[t] \in SubmitCall, calls[t].known
  PROVE  /\ \E r \in receipts : r.key = calls[t].key
         /\ \A r \in receipts : r.key = calls[t].key => Bound(t, r)
         /\ \E s \in drafts : s.draft = calls[t].batch
         /\ calls[t].batch.decision = calls[t].decision
<1> DEFINE answer == [tool |-> "submit", decision |-> calls[t].decision, key |-> calls[t].key,
                      result |-> calls[t].batch]
<1>1. answer \in told
  BY DEF ToolsInv, KnownIsAnswered, SubmitCall
<1>2. AnswerIsStored(answer)
  BY <1>1 DEF ToolsInv
<1>3. /\ \E r \in receipts : r.key = calls[t].key /\ r.batch = calls[t].batch
                              /\ r.snapshot = decidedOn[calls[t].decision]
      /\ \E s \in drafts : s.draft = calls[t].batch
      /\ calls[t].batch.decision = calls[t].decision
  BY <1>2 DEF AnswerIsStored
<1> QED
  BY <1>3 DEF ToolsInv, ReceiptsAreUnique, Bound

(* The service executes an order only when neither its key nor its batch   *)
(* has a receipt.                                                          *)
LEMMA ExecuteStep ==
  ASSUME ToolsInv, NEW t \in Threads, ServiceExecutes(t)
  PROVE  ToolsInv'
<1> DEFINE row == [key |-> calls[t].key, batch |-> calls[t].batch, request |-> RequestOf(t),
                   snapshot |-> account.snapshot]
<1>1. /\ receipts' = receipts \cup {row} /\ Goto(t, "executed")
      /\ UNCHANGED <<now, decidedOn, drafts, told>>
      /\ account' = [account EXCEPT !.version = @ + 1]
      /\ calls[t].pc = "service"
      /\ \A r \in receipts : r.key # calls[t].key /\ r.batch # calls[t].batch
  BY DEF ServiceExecutes, At, Unanswered, RequestOf
<1>2. calls[t] \in SubmitCall
  BY <1>1, CallShape DEF Late
<1>3. /\ calls'[t] \in SubmitCall
      /\ calls'[t].pc = "executed" /\ calls'[t].tool = "submit"
      /\ calls'[t].decision = calls[t].decision
      /\ calls'[t].batch = calls[t].batch /\ calls'[t].known = calls[t].known
  BY <1>1, <1>2, SubmitMoves DEF Late
<1>4. row.key = calls[t].key /\ row.batch = calls[t].batch /\ row.snapshot \in Nat
  BY DEF ToolsInv, ToolsTypeOK
<1> HIDE DEF row
<1>5. (\A u \in Threads \ {t} : calls'[u] = calls[u]) /\ calls' \in [Threads -> Call]
  <2>1. calls'[t] \in Call
    BY <1>3 DEF Call
  <2> QED
    BY <1>1, <2>1 DEF Goto, ToolsInv, ToolsTypeOK
<1>6. ToolsTypeOK' /\ DraftsAreUnique'
  BY <1>1, <1>4, <1>5 DEF ToolsInv, ToolsTypeOK, DraftsAreUnique
<1>7. ReceiptsAreUnique'
  BY <1>1, <1>4 DEF ToolsInv, ReceiptsAreUnique
<1>8. CallFits(t)'
  <2>1. CallFits(t)
    BY DEF ToolsInv
  <2> QED
    BY <1>1, <1>3, <2>1 DEF CallFits, At, Early, Late
<1>9. KnownIsAnswered(t)'
  <2>1. KnownIsAnswered(t) /\ calls[t].tool = "submit"
    BY <1>2 DEF ToolsInv, SubmitCall
  <2>2. ~calls[t].known
    BY <1>1, <2>1 DEF KnownIsAnswered, Early, Late
  <2> QED
    BY <1>3, <2>2 DEF KnownIsAnswered
<1> QED
  BY <1>1, <1>5, <1>6, <1>7, <1>8, <1>9, ThreadStep

(* Past the question by key, a submission is of no answered order.         *)
LEMMA LateIsUnknown ==
  ASSUME ToolsInv, NEW t \in Threads, calls[t] \in SubmitCall, calls[t].pc \in Late
  PROVE  ~calls[t].known
<1>1. KnownIsAnswered(t) /\ calls[t].tool = "submit"
  BY DEF ToolsInv, SubmitCall
<1> QED
  BY <1>1 DEF KnownIsAnswered, Early, Late

(* The account's version becomes what the request expects.                 *)
LEMMA ReadAccountStep ==
  ASSUME ToolsInv, NEW t \in Threads, calls[t] \in SubmitCall, ReadAccount(t)
  PROVE  ToolsInv'
<1>1. /\ calls[t].pc = "account" /\ ToolsIdle /\ ~calls[t].known
      /\ \E s \in drafts : s.draft = calls[t].batch
      /\ calls[t].batch.decision = calls[t].decision
  BY LateIsUnknown DEF ReadAccount, At, Late, ToolsInv, CallFits
<1>2. CASE Goto(t, "failed")
  BY <1>1, <1>2, SubmitGoes DEF Late
<1>3. CASE calls' = [calls EXCEPT ![t].pc = "service", ![t].expects = account.version]
  <2>1. /\ calls'[t] \in SubmitCall /\ calls'[t].pc = "service"
        /\ calls'[t].decision = calls[t].decision /\ calls'[t].batch = calls[t].batch
        /\ calls'[t].known = calls[t].known
    BY <1>3 DEF ToolsInv, ToolsTypeOK, SubmitCall, Late
  <2>2. CallFits(t)'
    BY <1>1, <2>1 DEF CallFits, At, ToolsIdle
  <2>3. KnownIsAnswered(t)'
    BY <1>1, <2>1 DEF KnownIsAnswered
  <2>4. calls' = [calls EXCEPT ![t] = calls'[t]]
    BY <1>3 DEF ToolsInv, ToolsTypeOK
  <2> QED
    BY <1>1, <2>1, <2>2, <2>3, <2>4, MoveStep DEF Call
<1> QED
  BY <1>2, <1>3 DEF ReadAccount

LEMMA SubmitStepKeeps ==
  ASSUME ToolsInv, NEW t \in Threads, SubmitStep(t)
  PROVE  ToolsInv'
<1>1. calls[t].pc \in (Early \cup Late) \ {"failed"} /\ calls[t] \in SubmitCall
  <2>1. calls[t].pc \in (Early \cup Late) \ {"failed"}
    BY DEF SubmitStep, FetchDraft, ByKey, ByBatch, ReadAccount, ServiceReplays,
           ServiceConflicts, ServiceFails, ServiceExecutes, AnswerExecuted, RecoverReceipt, At,
           Early, Late
  <2> QED
    BY <2>1, CallShape
<1>2. calls[t].pc # "fetch" =>
        /\ \E s \in drafts : s.draft = calls[t].batch
        /\ calls[t].batch.decision = calls[t].decision
  BY <1>1 DEF ToolsInv, CallFits
<1>3. calls[t].pc \in Late => ~calls[t].known
  BY <1>1, LateIsUnknown
<1>4. ASSUME NEW pc \in Late, Goto(t, pc), ToolsIdle, ~calls[t].known, calls[t].pc # "fetch"
      PROVE  ToolsInv'
  BY <1>1, <1>2, <1>4, SubmitGoes DEF Late
<1>5. ASSUME NEW r \in receipts, AnswerReceipt(t, r), ~calls[t].known, calls[t].pc # "fetch"
      PROVE  ToolsInv'
  BY <1>1, <1>5, SubmitAnswers
<1>6. CASE FetchDraft(t)
  <2>1. calls[t].pc = "fetch"
    BY <1>6 DEF FetchDraft, At
  <2>2. CASE /\ \E a \in drafts : a.draft = calls[t].batch
             /\ calls[t].batch.decision = calls[t].decision
    <3>1. Goto(t, "by_key") /\ ToolsIdle
      BY <1>6, <2>2 DEF FetchDraft
    <3> QED
      BY <1>1, <2>1, <2>2, <3>1, SubmitGoes DEF Early
  <2>3. CASE ~(/\ \E a \in drafts : a.draft = calls[t].batch
               /\ calls[t].batch.decision = calls[t].decision)
    <3>1. ~calls[t].known
      BY <1>1, <2>3, KnownFindsReceipt
    <3>2. Goto(t, "failed") /\ ToolsIdle
      BY <1>6, <2>3 DEF FetchDraft, Fail
    <3> QED
      BY <1>1, <3>1, <3>2, SubmitGoes DEF Late
  <2> QED
    BY <2>2, <2>3
<1>7. CASE ByKey(t)
  <2>1. calls[t].pc = "by_key"
    BY <1>7 DEF ByKey, At
  <2>2. CASE \A r \in receipts : r.key # calls[t].key
    <3>1. ~calls[t].known /\ Goto(t, "by_batch") /\ ToolsIdle
      BY <1>1, <1>7, <2>2, KnownFindsReceipt DEF ByKey
    <3> QED
      BY <1>4, <2>1, <3>1 DEF Late
  <2>3. CASE \E r \in receipts : r.key = calls[t].key
    <3>1. PICK r \in receipts : r.key = calls[t].key /\ AnswerReceipt(t, r)
      BY <1>7, <2>3 DEF ByKey
    <3>2. calls[t].known => Bound(t, r)
      BY <1>1, <3>1, KnownFindsReceipt
    <3> QED
      BY <1>1, <2>1, <3>1, <3>2, SubmitAnswers DEF Early
  <2> QED
    BY <2>2, <2>3
<1>8. CASE ByBatch(t)
  <2>1. calls[t].pc = "by_batch" /\ ~calls[t].known
    BY <1>3, <1>8 DEF ByBatch, At, Late
  <2> QED
    BY <1>4, <1>5, <1>8, <2>1 DEF ByBatch, Late
<1>9. CASE ReadAccount(t)
  BY <1>1, <1>9, ReadAccountStep
<1>10. CASE ServiceReplays(t) \/ AnswerExecuted(t)
  <2>1. /\ calls[t].pc \in {"service", "executed"}
        /\ \E r \in receipts : AnswerReceipt(t, r)
    BY <1>10 DEF ServiceReplays, AnswerExecuted, At
  <2> QED
    BY <1>3, <1>5, <2>1 DEF Late
<1>11. CASE ServiceConflicts(t) \/ ServiceFails(t)
  <2>1. /\ calls[t].pc = "service" /\ ToolsIdle
        /\ \/ Goto(t, "conflict")
           \/ Goto(t, "failed")
    BY <1>11 DEF ServiceConflicts, ServiceFails, Fail, At
  <2> QED
    BY <1>3, <1>4, <2>1 DEF Late
<1>12. CASE ServiceExecutes(t)
  BY <1>12, ExecuteStep
<1>13. CASE RecoverReceipt(t)
  <2>1. calls[t].pc = "conflict" /\ ~calls[t].known
    BY <1>3, <1>13 DEF RecoverReceipt, At, Late
  <2> QED
    BY <1>4, <1>5, <1>13, <2>1 DEF RecoverReceipt, Fail, Late
<1> QED
  BY <1>6, <1>7, <1>8, <1>9, <1>10, <1>11, <1>12, <1>13 DEF SubmitStep

-----------------------------------------------------------------------------
(* A decision is stored once: no answer was for a decision still open.     *)
LEMMA DecideStep ==
  ASSUME ToolsInv, NEW d \in Decisions, NEW s \in 0..account.snapshot, Decide(d, s)
  PROVE  ToolsInv'
<1>1. /\ decidedOn[d] \in {NoSnapshot, s}
      /\ decidedOn' = [decidedOn EXCEPT ![d] = s]
      /\ UNCHANGED <<now, account, drafts, receipts, calls, told>>
  BY DEF Decide, Accepts
<1>2. ToolsTypeOK' /\ DraftsAreUnique' /\ ReceiptsAreUnique'
  BY <1>1 DEF ToolsInv, ToolsTypeOK, DraftsAreUnique, ReceiptsAreUnique
<1>3. ASSUME NEW a \in told PROVE AnswerIsStored(a)'
  <2>1. AnswerIsStored(a)
    BY DEF ToolsInv
  <2>2. CASE a.tool = "submit"
    <3>1. PICK r \in receipts : r.key = a.key /\ r.batch = a.result
                                /\ r.snapshot = decidedOn[a.decision]
      BY <2>1, <2>2 DEF AnswerIsStored
    <3>2. PICK w \in drafts : w.draft = a.result
      BY <2>1, <2>2 DEF AnswerIsStored
    <3>3. a.decision \in Decisions /\ r.snapshot # NoSnapshot
      BY <2>1, <2>2, <3>2 DEF AnswerIsStored, ToolsInv, ToolsTypeOK, DraftShape
    <3>4. decidedOn'[a.decision] = r.snapshot
      BY <1>1, <3>1, <3>3 DEF ToolsInv, ToolsTypeOK
    <3> QED
      BY <1>1, <2>1, <2>2, <3>1, <3>4 DEF AnswerIsStored
  <2> QED
    BY <1>1, <2>1, <2>2 DEF AnswerIsStored
<1>4. \A t \in Threads : CallFits(t)' /\ KnownIsAnswered(t)'
  BY <1>1 DEF ToolsInv, CallFits, KnownIsAnswered, At, Derived
<1> QED
  BY <1>1, <1>2, <1>3, <1>4 DEF ToolsInv

-----------------------------------------------------------------------------
LEMMA ToolsInitially == ToolsInit => ToolsInv
<1> SUFFICES ASSUME ToolsInit PROVE ToolsInv
  OBVIOUS
<1>1. ToolsTypeOK
  BY DEF ToolsInit, ToolsTypeOK, Call
<1>2. \A t \in Threads : CallFits(t) /\ KnownIsAnswered(t)
  BY DEF ToolsInit, CallFits, KnownIsAnswered, At, Early, Late
<1> QED
  BY <1>1, <1>2 DEF ToolsInit, ToolsInv, DraftsAreUnique, ReceiptsAreUnique

(* Time, and a refresh of the account, touch nothing the answers rest on.  *)
LEMMA ToolsStep == ToolsInv /\ [ToolsNext]_toolVars => ToolsInv'
<1> SUFFICES ASSUME ToolsInv, [ToolsNext]_toolVars PROVE ToolsInv'
  OBVIOUS
<1>1. ASSUME UNCHANGED <<decidedOn, drafts, receipts, calls, told>>,
             now' \in Nat, account' \in [version : Nat, snapshot : Nat]
      PROVE  ToolsInv'
  <2>1. ToolsTypeOK' /\ DraftsAreUnique' /\ ReceiptsAreUnique'
    BY <1>1 DEF ToolsInv, ToolsTypeOK, DraftsAreUnique, ReceiptsAreUnique
  <2>2. \A a \in told' : AnswerIsStored(a)'
    BY <1>1 DEF ToolsInv, AnswerIsStored
  <2>3. \A t \in Threads : CallFits(t)' /\ KnownIsAnswered(t)'
    BY <1>1 DEF ToolsInv, CallFits, KnownIsAnswered, At, Derived
  <2> QED
    BY <2>1, <2>2, <2>3 DEF ToolsInv
<1>2. CASE UNCHANGED toolVars
  BY <1>1, <1>2 DEF toolVars, ToolsInv, ToolsTypeOK
<1>3. CASE TimePasses
  BY <1>1, <1>3 DEF TimePasses, ToolsInv, ToolsTypeOK
<1>4. CASE RefreshAccount
  BY <1>1, <1>4 DEF RefreshAccount, ToolsInv, ToolsTypeOK
<1>5. ASSUME NEW d \in Decisions, NEW s \in 0..account.snapshot, Decide(d, s)
      PROVE  ToolsInv'
  BY <1>5, DecideStep
<1>6. ASSUME NEW t \in Threads,
             \/ \E d \in Decisions, k \in Keys : Create(t, d, k)
             \/ \E d \in Decisions, k \in Keys, a \in drafts : Submit(t, d, k, a.draft)
      PROVE  ToolsInv'
  BY <1>6, BeginStep
<1>7. ASSUME NEW t \in Threads, CreateStep(t) PROVE ToolsInv'
  BY <1>7, CreateStepKeeps
<1>8. ASSUME NEW t \in Threads, SubmitStep(t) PROVE ToolsInv'
  BY <1>8, SubmitStepKeeps
<1>9. ASSUME NEW t \in Threads, Drop(t) PROVE ToolsInv'
  BY <1>9, EndStep DEF Drop
<1> QED
  BY <1>2, <1>3, <1>4, <1>5, <1>6, <1>7, <1>8, <1>9 DEF ToolsNext

(* The invariant the three results rest on, in every behaviour.            *)
THEOREM ToolsInvariant == ToolsSpec => []ToolsInv
<1>1. ToolsInit => ToolsInv
  BY ToolsInitially
<1>2. ToolsInv /\ [ToolsNext]_toolVars => ToolsInv'
  BY ToolsStep
<1> QED
  BY <1>1, <1>2, PTL DEF ToolsSpec

(* create_order_draft answers every delivery of a decision and a key with  *)
(* the one draft stored for them, whoever stored it and at whatever time.  *)
THEOREM ToolsOneDraftPerKey == ToolsSpec => []OneDraftPerKey
<1>1. ToolsInv => OneDraftPerKey
  BY DEF ToolsInv, AnswerIsStored, DraftsAreUnique, OneDraftPerKey
<1> QED
  BY <1>1, ToolsInvariant, PTL

(* submit_paper_orders never answers with a receipt of another order, of   *)
(* another key, or of another account boundary than its decision's.        *)
THEOREM ToolsReceiptsAreTrue == ToolsSpec => []ReceiptsAreTrue
<1>1. ToolsInv => ReceiptsAreTrue
  <2> SUFFICES ASSUME ToolsInv, NEW a \in told, a.tool = "submit"
               PROVE  /\ HasReceipt(a.key, a.result)
                      /\ \A r \in receipts :
                           /\ r.batch = a.result \/ r.key = a.key
                                => r.batch = a.result /\ r.key = a.key
                           /\ r.batch = a.result => r.snapshot = decidedOn[a.decision]
    BY DEF ReceiptsAreTrue
  <2>1. PICK s \in receipts : s.key = a.key /\ s.batch = a.result
                              /\ s.snapshot = decidedOn[a.decision]
    BY DEF ToolsInv, AnswerIsStored
  <2>2. \A r \in receipts : r.key = s.key \/ r.batch = s.batch => r = s
    BY DEF ToolsInv, ReceiptsAreUnique
  <2> QED
    BY <2>1, <2>2 DEF HasReceipt, ReceiptsOf
<1> QED
  BY <1>1, ToolsInvariant, PTL

(* No retry of an order whose receipt a caller holds ends in a failure: it *)
(* is answered before the account, the gate and the clock are asked.       *)
THEOREM ToolsRetriesKeepTheReceipt == ToolsSpec => []RetriesKeepTheReceipt
<1>1. ToolsInv => RetriesKeepTheReceipt
  BY DEF ToolsInv, KnownIsAnswered, RetriesKeepTheReceipt, At, Early, Late
<1> QED
  BY <1>1, ToolsInvariant, PTL
==============================================================================
