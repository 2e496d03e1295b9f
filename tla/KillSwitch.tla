----------------------------- MODULE KillSwitch -----------------------------
(***************************************************************************)
(* The kill-switch repository and the service in front of it               *)
(* (risk/kill_switch).  One GLOBAL state and one state per account stop    *)
(* new orders while ACTIVE.  Every state change appends one event to the   *)
(* scope's own hash chain together with the idempotency record of the      *)
(* command; a new order enters through a gate that keeps the repository    *)
(* lock (an RLock in memory, BEGIN IMMEDIATE in SQLite) until the caller   *)
(* has committed the order.                                                *)
(*                                                                         *)
(* Content hashes are abstracted to the content they identify: two states  *)
(* of a scope are equal exactly when their hashes are.  Actors, reasons,   *)
(* evidence and summaries are left out; the timestamps are kept because    *)
(* the gate and the recovery approval decide on them.                      *)
(***************************************************************************)
EXTENDS PaperOrders, Sequences, FiniteSets

CONSTANTS
  OpKeys,        \* idempotency keys of administrative commands
  Sources,       \* what may trigger an incident (source_reference_hash)
  MaxRevision    \* bound of a scope's revision


Incident == [source : Sources, at : Time]

State ==
  [status    : {"INACTIVE", "ACTIVE"},
   revision  : 0..MaxRevision,
   since     : Time \cup {None},
   incidents : SUBSET Sources,
   latest    : Incident \cup {None},
   changedAt : Time]

(* What operation_hash binds: the kind of a command and its whole content. *)
InitializeOp == [kind : {"INITIALIZE"}, at : Time]
ActivateOp == [kind : {"ACTIVATE"}, incident : Incident, at : Time]
RecoverOp == [kind : {"RECOVER"}, approved : State, expires : 0..MaxTime + 1, at : Time]
Operation == InitializeOp \cup ActivateOp \cup RecoverOp

GateCheck == [kind : {"ORDER_BLOCKED"}, order : Order, at : Time]

Event ==
  [type   : {"INITIALIZED", "ACTIVATED", "TRIGGER_ADDED", "RECOVERED", "ORDER_BLOCKED"},
   before : State \cup {None},
   after  : State,
   cause  : Operation \cup GateCheck,
   at     : Time]

Decision ==
  [at : Time, reasons : SUBSET {"GLOBAL_ACTIVE", "ACCOUNT_ACTIVE", "STATE_UNAVAILABLE"},
   event : Nat]

ASSUME KillSwitchAssumption ==
  /\ MaxRevision \in Nat
  /\ None \notin State
  /\ None \notin Decision
  /\ None \notin [active : BOOLEAN, changedAt : Time]
  /\ None \notin [op : Operation, event : Nat]

VARIABLES
  clock,      \* the injected clock
  ks,         \* scope -> current state, None before initialization
  chain,      \* scope -> its audit events, oldest first
  incidentAt, \* scope -> source -> the time stored for that incident identity
  ops,        \* scope -> idempotency key -> committed operation and its event
  gateOf,     \* account -> order key -> the order bound to the key
  decided,    \* account -> order key -> the stored BLOCKED decision
  guard       \* the order whose guarded submission holds the lock, or None

adminVars == <<ks, incidentAt, ops>>
gateVars == <<gateOf, decided, guard>>
vars == <<clock, ks, chain, incidentAt, ops, gateOf, decided, guard>>

-----------------------------------------------------------------------------
Later(s, t) == IF s < t THEN t ELSE s

InitialState(at) ==
  [status |-> "INACTIVE", revision |-> 0, since |-> None,
   incidents |-> {}, latest |-> None, changedAt |-> at]

ActivatedState(st, incident, at) ==
  [status    |-> "ACTIVE",
   revision  |-> st.revision + 1,
   since     |-> IF st.status = "ACTIVE" THEN st.since ELSE incident.at,
   incidents |-> st.incidents \cup {incident.source},
   latest    |-> incident,
   changedAt |-> at]

(* Mutant: recovery forgets to clear the incidents it closes.              *)
MutantKeepsIncidents(st, at) ==
  [st EXCEPT !.status = "INACTIVE", !.revision = @ + 1, !.since = None, !.changedAt = at]

RecoveredState(st, at) ==
  [status    |-> "INACTIVE",
   revision  |-> st.revision + 1,
   since     |-> None,
   incidents |-> {},
   latest    |-> st.latest,
   changedAt |-> at]

(* Persist a transition: state, event and idempotency record together. *)
Commit(s, k, op, type, after) ==
  /\ ks' = [ks EXCEPT ![s] = after]
  /\ chain' = [chain EXCEPT ![s] =
                 Append(@, [type |-> type, before |-> ks[s], after |-> after,
                            cause |-> op, at |-> after.changedAt])]
  /\ ops' = [ops EXCEPT ![s][k] = [op |-> op, event |-> Len(chain[s]) + 1]]

(* The key is free: an equal operation under a committed key replays its   *)
(* transition and a different one is a conflict; neither changes anything. *)
Fresh(s, k) == ops[s][k] = None

(* The lock is free.  Another thread waits for it; the guarded caller's    *)
(* own thread gets an error from _reject_reentrant_mutation.               *)
LockFree == guard = None

-----------------------------------------------------------------------------
Init ==
  /\ clock = 0
  /\ ks = [s \in Scopes |-> None]
  /\ chain = [s \in Scopes |-> <<>>]
  /\ incidentAt = [s \in Scopes |-> [x \in Sources |-> None]]
  /\ ops = [s \in Scopes |-> [k \in OpKeys |-> None]]
  /\ gateOf = [a \in Accounts |-> [k \in OrderKeys |-> None]]
  /\ decided = [a \in Accounts |-> [k \in OrderKeys |-> None]]
  /\ guard = None

Tick ==
  /\ clock < MaxTime
  /\ clock' = clock + 1
  /\ UNCHANGED <<ks, chain, incidentAt, ops, gateOf, decided, guard>>

Initialize(s, k) ==
  \E at \in 0..clock :
    /\ LockFree
    /\ Fresh(s, k)
    /\ ks[s] = None
    /\ Commit(s, k, [kind |-> "INITIALIZE", at |-> at], "INITIALIZED", InitialState(at))
    /\ UNCHANGED <<clock, incidentAt, gateVars>>

(* An incident identity already stored with another content is a conflict. *)
Activate(s, k, incident) ==
  \E at \in incident.at..clock :
    /\ LockFree
    /\ Fresh(s, k)
    /\ ks[s] # None
    /\ ks[s].revision < MaxRevision
    /\ incidentAt[s][incident.source] \in {None, incident.at}
    /\ Commit(s, k, [kind |-> "ACTIVATE", incident |-> incident, at |-> at],
              IF ks[s].status = "ACTIVE" THEN "TRIGGER_ADDED" ELSE "ACTIVATED",
              ActivatedState(ks[s], incident, Later(at, ks[s].changedAt)))
    /\ incidentAt' = [incidentAt EXCEPT ![s][incident.source] = incident.at]
    /\ UNCHANGED <<clock, gateVars>>

(* A human approved recovery from one exact ACTIVE state of the scope, at  *)
(* a time between that state and the request.                              *)
ApprovedStates(s) ==
  {st \in {chain[s][i].after : i \in DOMAIN chain[s]} : st.status = "ACTIVE"}

(* Mutant: the state the approver saw is not compared.                     *)
MutantNoCompare(s, approved, expires, at) ==
  at <= clock /\ clock < expires /\ ks[s].status = "ACTIVE"

ApprovalHolds(s, approved, expires, at) ==
  /\ at <= clock
  /\ clock < expires
  /\ ks[s].status = "ACTIVE"
  /\ ks[s] = approved

Recover(s, k) ==
  \E approved \in ApprovedStates(s), expires \in 1..MaxTime + 1 :
    \E at \in approved.changedAt..expires - 1 :
      /\ LockFree
      /\ Fresh(s, k)
      /\ at <= MaxTime
      /\ ks[s].revision < MaxRevision
      /\ ApprovalHolds(s, approved, expires, at)
      /\ Commit(s, k,
                [kind |-> "RECOVER", approved |-> approved, expires |-> expires, at |-> at],
                "RECOVERED", RecoveredState(ks[s], clock))
      /\ UNCHANGED <<clock, incidentAt, gateVars>>

(* The exact command is delivered again: its transition is returned.       *)
ReplayOperation(s, k) ==
  /\ LockFree
  /\ ops[s][k] # None
  /\ UNCHANGED vars

-----------------------------------------------------------------------------
(* Each order key of an account is bound to one order for ever.            *)
KeyAccepts(order) == gateOf[order.account][order.key] \in {None, order}

(* Mutant: the stored decision is not consulted.                           *)
MutantRedecides(order) == LockFree /\ KeyAccepts(order)

Undecided(order) ==
  /\ LockFree
  /\ KeyAccepts(order)
  /\ decided[order.account][order.key] = None

(* Mutant: a state newer than the check is trusted.                        *)
MutantTrustsNewerState(order, at) == \A s \in {Global, order.account} : ks[s] # None

StateAvailable(order, at) ==
  \A s \in {Global, order.account} : ks[s] # None /\ ks[s].changedAt <= at

ActiveScopes(order) == {s \in {Global, order.account} : ks[s].status = "ACTIVE"}

Bind(order) == gateOf' = [gateOf EXCEPT ![order.account][order.key] = order]

StoreBlock(order, decision) ==
  /\ Bind(order)
  /\ decided' = [decided EXCEPT ![order.account][order.key] = decision]

(* A missing state, or one newer than the check, blocks without evidence.  *)
GateUnavailable(order, at) ==
  /\ Undecided(order)
  /\ ~StateAvailable(order, at)
  /\ StoreBlock(order, [at |-> at, reasons |-> {"STATE_UNAVAILABLE"}, event |-> 0])
  /\ UNCHANGED <<clock, adminVars, chain, guard>>

(* Mutant: the block is stored without its event.                          *)
MutantLogsNothing(s, order, at) == UNCHANGED chain

LogBlock(s, order, at) ==
  chain' = [chain EXCEPT ![s] =
              Append(@, [type |-> "ORDER_BLOCKED", before |-> ks[s], after |-> ks[s],
                         cause |-> [kind |-> "ORDER_BLOCKED", order |-> order, at |-> at],
                         at |-> at])]

GateBlocked(order, at) ==
  LET primary == IF Global \in ActiveScopes(order) THEN Global ELSE order.account IN
  /\ Undecided(order)
  /\ StateAvailable(order, at)
  /\ ActiveScopes(order) # {}
  /\ LogBlock(primary, order, at)
  /\ StoreBlock(order,
       [at |-> at, event |-> Len(chain[primary]) + 1,
        reasons |-> {IF s = Global THEN "GLOBAL_ACTIVE" ELSE "ACCOUNT_ACTIVE"
                       : s \in ActiveScopes(order)}])
  /\ UNCHANGED <<clock, adminVars, guard>>

(* Both switches are inactive: the caller is let in and the lock is kept.  *)
GateAllowed(order, at) ==
  /\ Undecided(order)
  /\ StateAvailable(order, at)
  /\ ActiveScopes(order) = {}
  /\ Bind(order)
  /\ guard' = [order |-> order, at |-> at, fresh |-> gateOf[order.account][order.key] = None]
  /\ UNCHANGED <<clock, adminVars, chain, decided>>

(* A blocked key replays its first decision, whatever the switches say now. *)
GateReplay(order) ==
  /\ LockFree
  /\ KeyAccepts(order)
  /\ decided[order.account][order.key] # None
  /\ UNCHANGED vars

(* The guarded block ends, normally or with an exception.                  *)
GateExit ==
  /\ guard # None
  /\ guard' = None
  /\ UNCHANGED <<clock, adminVars, chain, gateOf, decided>>

(* The process dies inside the guarded block, or its final commit fails:   *)
(* SQLite rolls back the transaction, which holds nothing but a            *)
(* reservation made by this guard.                                         *)
Crash ==
  /\ guard # None
  /\ guard' = None
  /\ gateOf' = IF guard.fresh
                 THEN [gateOf EXCEPT ![guard.order.account][guard.order.key] = None]
                 ELSE gateOf
  /\ UNCHANGED <<clock, adminVars, chain, decided>>

Next ==
  \/ Tick
  \/ \E s \in Scopes, k \in OpKeys :
       \/ Initialize(s, k)
       \/ \E incident \in Incident : Activate(s, k, incident)
       \/ Recover(s, k)
       \/ ReplayOperation(s, k)
  \/ \E order \in Order :
       \/ \E at \in Time :
            \/ GateUnavailable(order, at)
            \/ GateBlocked(order, at)
            \/ GateAllowed(order, at)
       \/ GateReplay(order)
  \/ GateExit
  \/ Crash

Spec == Init /\ [][Next]_vars

-----------------------------------------------------------------------------
CommittedOp == [op : Operation, event : Nat]

(* Every variable keeps its shape.                                         *)
TypeOK ==
  /\ clock \in Time
  /\ ks \in [Scopes -> State \cup {None}]
  /\ chain \in [Scopes -> Seq(Event)]
  /\ incidentAt \in [Scopes -> [Sources -> Time \cup {None}]]
  /\ ops \in [Scopes -> [OpKeys -> CommittedOp \cup {None}]]
  /\ gateOf \in [Accounts -> [OrderKeys -> Order \cup {None}]]
  /\ decided \in [Accounts -> [OrderKeys -> Decision \cup {None}]]
  /\ guard \in [order : Order, at : Time, fresh : BOOLEAN] \cup {None}

(* While a guarded submission holds the lock, both its switches stay       *)
(* INACTIVE and no newer than the check that let it in, and its key is     *)
(* bound to this order and was never blocked (guard_new_order).            *)
GuardSeesInactive ==
  guard # None =>
    LET a == guard.order.account
        k == guard.order.key IN
    /\ \A s \in {Global, a} :
         /\ ks[s] # None
         /\ ks[s].status = "INACTIVE"
         /\ ks[s].changedAt <= guard.at
    /\ gateOf[a][k] = guard.order
    /\ decided[a][k] = None

(* How the SQLite repository checks, on every read, that an event extends  *)
(* the one before it (_assert_event_follows).                              *)
Begins(e) == e.type = "INITIALIZED" /\ e.before = None /\ e.after.revision = 0

Follows(previous, e) ==
  /\ e.type # "INITIALIZED"
  /\ e.before = previous.after
  /\ IF e.type = "ORDER_BLOCKED"
       THEN e.after = previous.after
       ELSE e.after.revision = previous.after.revision + 1

(* A committed command and the event it caused point at each other.        *)
OperationsMatchEvents ==
  \A s \in Scopes :
    /\ \A k \in OpKeys : ops[s][k] # None =>
         /\ ops[s][k].event \in DOMAIN chain[s]
         /\ chain[s][ops[s][k].event].cause = ops[s][k].op
    /\ \A i \in DOMAIN chain[s] : chain[s][i].type # "ORDER_BLOCKED" =>
         \E k \in OpKeys :
           /\ ops[s][k] # None /\ ops[s][k].event = i
           /\ \A j \in OpKeys : ops[s][j] # None /\ ops[s][j].event = i => j = k

(* Every ORDER_BLOCKED event, of a state that was ACTIVE, belongs to the   *)
(* one stored decision of its order's key.                                 *)
BlockEvidence ==
  \A s \in Scopes : \A i \in DOMAIN chain[s] : chain[s][i].type = "ORDER_BLOCKED" =>
    LET order == chain[s][i].cause.order
        d == decided[order.account][order.key] IN
    /\ s \in {Global, order.account}
    /\ chain[s][i].after.status = "ACTIVE"
    /\ gateOf[order.account][order.key] = order
    /\ d # None /\ d.event = i /\ d.at = chain[s][i].at
    /\ (s = Global) <=> ("GLOBAL_ACTIVE" \in d.reasons)

(* A stored block has its one event in the chain of the first switch that  *)
(* stopped the order, GLOBAL before the account (primary_state); only an   *)
(* order refused for want of a state has none.                             *)
BlocksLeaveEvents ==
  \A a \in Accounts, k \in OrderKeys : decided[a][k] # None =>
    LET d == decided[a][k]
        primary == IF "GLOBAL_ACTIVE" \in d.reasons THEN Global ELSE a
    IN  IF d.reasons = {"STATE_UNAVAILABLE"} THEN d.event = 0
        ELSE /\ d.event \in DOMAIN chain[primary]
             /\ chain[primary][d.event].type = "ORDER_BLOCKED"
             /\ chain[primary][d.event].cause.order = gateOf[a][k]

(* Exactly once, in both directions: a retried command never changes the   *)
(* state a second time, and however often a blocked order is sent, its     *)
(* block and one event of the primary switch are kept together, neither    *)
(* without the other (_committed_operation, _validate_gate_decision_links). *)
EventsHaveOneCause == OperationsMatchEvents /\ BlockEvidence /\ BlocksLeaveEvents

(* The incidents of a scope that no recovery has closed by its i-th event. *)
OpenIncidents(s, i) ==
  {chain[s][j].cause.incident.source :
     j \in {n \in 1..i : /\ chain[s][n].type \in {"ACTIVATED", "TRIGGER_ADDED"}
                         /\ \A m \in n..i : chain[s][m].type # "RECOVERED"}}

(* Each scope's chain passes the loader's checks and its last event        *)
(* carries the current state.                                              *)
ChainReadable ==
  \A s \in Scopes :
    IF chain[s] = <<>>
      THEN ks[s] = None
      ELSE /\ Begins(chain[s][1])
           /\ \A i \in 2..Len(chain[s]) : Follows(chain[s][i - 1], chain[s][i])
           /\ chain[s][Len(chain[s])].after = ks[s]

(* It is ACTIVE exactly while an incident is open, it lists exactly the    *)
(* open incidents, and its time never moves backwards.                     *)
StatesSumUpIncidents ==
  \A s \in Scopes : \A i \in DOMAIN chain[s] :
    LET st == chain[s][i].after IN
    /\ st.incidents = OpenIncidents(s, i)
    /\ (st.status = "ACTIVE") <=> (OpenIncidents(s, i) # {})
    /\ (st.status = "ACTIVE") => st.since <= st.changedAt
    /\ i > 1 => chain[s][i - 1].after.changedAt <= st.changedAt

(* A state is what its history says: whatever is written can be read back  *)
(* after a restart, leads to the current state, and each state on the way  *)
(* sums up the incidents before it (KillSwitchState.activate and .recover, *)
(* _assert_event_follows).                                                 *)
StateMatchesHistory == ChainReadable /\ StatesSumUpIncidents

(* A recovery closes only incidents its approver had seen, and before the  *)
(* approval expires: an incident that arrives while a human decides makes  *)
(* the approval worthless (KillSwitchRecoveryApproval, recover).           *)
ApproverSawEveryIncident ==
  \A s \in Scopes : \A i \in DOMAIN chain[s] : chain[s][i].type = "RECOVERED" =>
    /\ chain[s][i].cause.approved.incidents = OpenIncidents(s, i - 1)
    /\ chain[s][i].cause.approved = chain[s][i].before
    /\ chain[s][i].at < chain[s][i].cause.expires

(* A BLOCKED decision is final and its key stays with its order; a key is  *)
(* given up only by a crash inside the very guard that reserved it.        *)
BlockIsFinal ==
  [][\A a \in Accounts, k \in OrderKeys :
       /\ decided[a][k] # None => /\ decided'[a][k] = decided[a][k]
                                  /\ gateOf'[a][k] = gateOf[a][k]
       /\ gateOf[a][k] # None =>
            \/ gateOf'[a][k] = gateOf[a][k]
            \/ /\ gateOf'[a][k] = None
               /\ guard # None /\ guard.fresh /\ guard.order = gateOf[a][k]
               /\ guard' = None]_vars

(* The repository keeps the promises of OrderGate: events, incidents,      *)
(* revisions and idempotency records are detail a caller need not know.    *)
Gate == INSTANCE OrderGate WITH
  sw <- [s \in Scopes |-> IF ks[s] = None THEN None
                           ELSE [active |-> ks[s].status = "ACTIVE",
                                 changedAt |-> ks[s].changedAt]],
  blocked <- [a \in Accounts |-> [k \in OrderKeys |-> decided[a][k] # None]]

ImplementsOrderGate == Gate!Spec
=============================================================================
