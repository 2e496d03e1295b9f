---------------------------- MODULE OrderAdmission ----------------------------
(***************************************************************************)
(* PaperExecutionService: callers in several threads or processes submit   *)
(* order requests through the kill-switch gate to the paper repository.    *)
(* submit_and_match is modelled call by call: between two calls into the   *)
(* gate or the repository any other caller, a switch change, an account    *)
(* refresh or a crash may come first.                                      *)
(*                                                                         *)
(* The two index reads of _committed_receipt are one step: both indexes    *)
(* only grow, so every outcome of separate reads is one of a single read   *)
(* at the moment of the first or of the second.                            *)
(***************************************************************************)
EXTENDS PaperOrders, FiniteSets

CONSTANTS
  SnapshotTags,
  Callers,      \* threads that submit orders, each its own process at worst
  Refreshers    \* threads that refresh accounts

VARIABLES
  clock, sw, gateOf, blocked, guard,        \* the gate
  account, byKey, byBatch, refreshes,       \* the paper repository
  caller,     \* what each caller is doing
  refresher,  \* what each refresher is doing
  answered    \* the receipts and final refusals clients have been given

Gate == INSTANCE OrderGate
Paper == INSTANCE PaperRepository

ASSUME OrderAdmissionAssumption ==
  /\ None \notin Order \cup Accounts \cup Paper!Snapshot \cup Paper!Account \cup Paper!Receipt
  /\ None \notin Gate!Switch \cup [order : Order, at : Time, fresh : BOOLEAN]

gateVars == <<clock, sw, gateOf, blocked, guard>>
paperVars == <<account, byKey, byBatch, refreshes>>
vars == <<clock, sw, gateOf, blocked, guard, account, byKey, byBatch, refreshes,
          caller, refresher, answered>>

(* Requests and snapshots that leave room for one more version: the bound  *)
(* of the model.                                                           *)
Submittable == {order \in Order : order.expects < MaxVersion}
Refreshable == {snapshot \in Paper!Snapshot : snapshot.base < MaxVersion}

(* says is how the guarded part of the call ended.                         *)
IdleCaller == [pc |-> "idle", order |-> None, at |-> 0, says |-> "none"]
IdleRefresher == [pc |-> "idle", account |-> None, snapshot |-> None, version |-> 0]

Init ==
  /\ Gate!Init
  /\ Paper!Init
  /\ caller = [t \in Callers |-> IdleCaller]
  /\ refresher = [r \in Refreshers |-> IdleRefresher]
  /\ answered = {}

At(t, pc) == caller[t].pc = pc
Holding(t) == caller[t].pc \in {"recheck", "load", "commit", "leave"}
Goto(t, pc) == caller' = [caller EXCEPT ![t].pc = pc]
GotoSaying(t, pc, says) == caller' = [caller EXCEPT ![t].pc = pc, ![t].says = says]

Finish(t, says) ==
  /\ caller' = [caller EXCEPT ![t] = IdleCaller]
  /\ answered' = IF says \in {"receipt", "blocked"}
                   THEN answered \cup {[order |-> caller[t].order, says |-> says]}
                   ELSE answered

-----------------------------------------------------------------------------
Submit(t, order) ==
  /\ At(t, "idle")
  /\ caller' = [caller EXCEPT ![t] =
                  [pc |-> "lookup", order |-> order, at |-> 0, says |-> "none"]]
  /\ UNCHANGED <<gateVars, paperVars, refresher, answered>>

(* The check time is taken here, before the caller queues for the gate.    *)
(* Requests are submitted no later than that; the code takes the later of  *)
(* the clock and the time of the request.                                  *)
Lookup(t) ==
  /\ At(t, "lookup")
  /\ CASE Paper!Resolution(caller[t].order) = "receipt" -> Finish(t, "receipt")
       [] Paper!Resolution(caller[t].order) = "conflict" -> Finish(t, "failed")
       [] OTHER -> /\ caller' = [caller EXCEPT ![t].pc = "gate", ![t].at = clock]
                   /\ UNCHANGED answered
  /\ UNCHANGED <<gateVars, paperVars, refresher>>

EnterGate(t) ==
  /\ At(t, "gate")
  /\ Gate!Enter(caller[t].order, caller[t].at)
  /\ Goto(t, "recheck")
  /\ UNCHANGED <<paperVars, refresher, answered>>

BlockAtGate(t) ==
  /\ At(t, "gate")
  /\ Gate!Block(caller[t].order, caller[t].at)
  /\ GotoSaying(t, "resolve", "blocked")
  /\ UNCHANGED <<paperVars, refresher, answered>>

BlockedBefore(t) ==
  /\ At(t, "gate")
  /\ guard = None
  /\ Gate!KeyAccepts(caller[t].order)
  /\ blocked[caller[t].order.account][caller[t].order.key]
  /\ GotoSaying(t, "resolve", "blocked")
  /\ UNCHANGED <<gateVars, paperVars, refresher, answered>>

(* Mutant: waiting for the lock never times out.                           *)
MutantWaitsForever(t) ==
  /\ At(t, "gate")
  /\ guard = None /\ ~Gate!KeyAccepts(caller[t].order)
  /\ GotoSaying(t, "resolve", "failed")
  /\ UNCHANGED <<gateVars, paperVars, refresher, answered>>

(* The key belongs to another order, or waiting for the lock timed out:    *)
(* the service reports a block of its own that the repository did not keep. *)
GateFails(t) ==
  /\ At(t, "gate")
  /\ guard # None \/ ~Gate!KeyAccepts(caller[t].order)
  /\ GotoSaying(t, "resolve", "failed")
  /\ UNCHANGED <<gateVars, paperVars, refresher, answered>>

-----------------------------------------------------------------------------
(* Inside the guard: another caller may have committed this very request   *)
(* while this one waited.                                                  *)
Recheck(t) ==
  /\ At(t, "recheck")
  /\ CASE Paper!Resolution(caller[t].order) = "receipt" -> GotoSaying(t, "leave", "receipt")
       [] Paper!Resolution(caller[t].order) = "conflict" -> GotoSaying(t, "leave", "failed")
       [] OTHER -> Goto(t, "load")
  /\ UNCHANGED <<gateVars, paperVars, refresher, answered>>

(* The engine plans on the account as it is read here, and may refuse for  *)
(* reasons of the market or the draft.                                     *)
Load(t) ==
  /\ At(t, "load")
  /\ \/ /\ Paper!Fits(caller[t].order, account[caller[t].order.account])
        /\ Goto(t, "commit")
     \/ /\ Paper!Resolution(caller[t].order) = "receipt"
        /\ GotoSaying(t, "leave", "receipt")
     \/ /\ Paper!Resolution(caller[t].order) # "receipt"
        /\ GotoSaying(t, "leave", "failed")
  /\ UNCHANGED <<gateVars, paperVars, refresher, answered>>

(* The acknowledgement of a durable commit can still be lost.              *)
Commit(t) ==
  /\ At(t, "commit")
  /\ Paper!CommitExecution(caller[t].order)
  /\ \E says \in {"receipt", "failed"} : GotoSaying(t, "leave", says)
  /\ UNCHANGED <<gateVars, refresher, answered>>

(* A refresh committed since the account was read: the swap fails.         *)
CommitRefused(t) ==
  /\ At(t, "commit")
  /\ Paper!Resolution(caller[t].order) = "none"
  /\ ~Paper!Fits(caller[t].order, account[caller[t].order.account])
  /\ GotoSaying(t, "leave", "failed")
  /\ UNCHANGED <<gateVars, paperVars, refresher, answered>>

Leave(t) ==
  /\ At(t, "leave")
  /\ Gate!Exit
  /\ IF caller[t].says = "receipt"
       THEN Finish(t, "receipt")
       ELSE Goto(t, "resolve") /\ UNCHANGED answered
  /\ UNCHANGED <<paperVars, refresher>>

(* Committing the reservation fails after the order itself was committed.  *)
LeaveFails(t) ==
  /\ At(t, "leave")
  /\ Gate!Lose
  /\ GotoSaying(t, "resolve", "failed")
  /\ UNCHANGED <<paperVars, refresher, answered>>

(* Mutant: the error is reported without looking for a receipt.            *)
MutantReportsError(t) ==
  /\ At(t, "resolve")
  /\ Finish(t, caller[t].says)
  /\ UNCHANGED <<gateVars, paperVars, refresher>>

(* After a block or an error only an exact durable receipt is an answer.   *)
Resolve(t) ==
  /\ At(t, "resolve")
  /\ CASE Paper!Resolution(caller[t].order) = "receipt" -> Finish(t, "receipt")
       [] Paper!Resolution(caller[t].order) = "conflict" -> Finish(t, "failed")
       [] OTHER -> Finish(t, caller[t].says)
  /\ UNCHANGED <<gateVars, paperVars, refresher>>

(* A caller's process dies: what it had not committed is gone.             *)
Crash(t) ==
  /\ ~At(t, "idle")
  /\ caller' = [caller EXCEPT ![t] = IdleCaller]
  /\ IF Holding(t) THEN Gate!Lose ELSE UNCHANGED gateVars
  /\ UNCHANGED <<paperVars, refresher, answered>>

-----------------------------------------------------------------------------
(* refresh_account reads the account before it asks whether the snapshot's *)
(* refresh is already committed, and answers a replay with what it read.   *)
StartRefresh(r, a, snapshot) ==
  /\ refresher[r].pc = "idle"
  /\ account[a] # None
  /\ refresher' = [refresher EXCEPT ![r] =
       [pc |-> "lookup", account |-> a, snapshot |-> snapshot, version |-> account[a].version]]
  /\ UNCHANGED <<gateVars, paperVars, caller, answered>>

Committed(r) == refreshes[refresher[r].account][refresher[r].snapshot]

RefreshLookup(r) ==
  /\ refresher[r].pc = "lookup"
  /\ refresher' =
       IF Committed(r) # None THEN [refresher EXCEPT ![r].pc = "done"]
       ELSE IF refresher[r].snapshot.base = refresher[r].version
         THEN [refresher EXCEPT ![r].pc = "commit"]
       ELSE [refresher EXCEPT ![r] = IdleRefresher]
  /\ UNCHANGED <<gateVars, paperVars, caller, answered>>

RefreshCommit(r) ==
  /\ refresher[r].pc = "commit"
  /\ Paper!CommitRefresh(refresher[r].account, refresher[r].snapshot, refresher[r].version)
  /\ refresher' = [refresher EXCEPT ![r].pc = "done", ![r].version = @ + 1]
  /\ UNCHANGED <<gateVars, caller, answered>>

RefreshCommitReplays(r) ==
  /\ refresher[r].pc = "commit"
  /\ \/ /\ Committed(r) # None
        /\ refresher' = [refresher EXCEPT ![r].pc = "done", ![r].version = Committed(r)]
     \/ /\ Committed(r) = None
        /\ account[refresher[r].account].version # refresher[r].version
        /\ refresher' = [refresher EXCEPT ![r] = IdleRefresher]
  /\ UNCHANGED <<gateVars, paperVars, caller, answered>>

RefreshReturn(r) ==
  /\ refresher[r].pc = "done"
  /\ refresher' = [refresher EXCEPT ![r] = IdleRefresher]
  /\ UNCHANGED <<gateVars, paperVars, caller, answered>>

-----------------------------------------------------------------------------
OpenAccount(a) ==
  /\ Paper!OpenAccount(a)
  /\ UNCHANGED <<gateVars, caller, refresher, answered>>

SwitchesMove ==
  /\ Gate!Tick \/ Gate!SwitchNext
  /\ UNCHANGED <<paperVars, caller, refresher, answered>>

AtGate(t) == EnterGate(t) \/ BlockAtGate(t) \/ BlockedBefore(t) \/ GateFails(t)

Progress(t) ==
  \/ Lookup(t)
  \/ AtGate(t)
  \/ Recheck(t) \/ Load(t) \/ Commit(t) \/ CommitRefused(t)
  \/ Leave(t) \/ LeaveFails(t)
  \/ Resolve(t)

Refresh(r) ==
  \/ \E a \in Accounts, s \in Refreshable : StartRefresh(r, a, s)
  \/ RefreshLookup(r) \/ RefreshCommit(r) \/ RefreshCommitReplays(r) \/ RefreshReturn(r)

Next ==
  \/ SwitchesMove
  \/ \E a \in Accounts : OpenAccount(a)
  \/ \E t \in Callers :
       \/ \E order \in Submittable : Submit(t, order)
       \/ Progress(t)
       \/ Crash(t)
  \/ \E r \in Refreshers : Refresh(r)

Spec == Init /\ [][Next]_vars

(* A running thread takes its next step; whoever waits for the lock gets   *)
(* it or times out.                                                        *)
FairSpec == Spec /\ \A t \in Callers : WF_vars(Progress(t))

-----------------------------------------------------------------------------
CallerState ==
  [pc : {"idle", "lookup", "gate", "recheck", "load", "commit", "leave", "resolve"},
   order : Submittable \cup {None},
   at : Time,
   says : {"none", "receipt", "blocked", "failed"}]

RefresherState ==
  [pc : {"idle", "lookup", "commit", "done"},
   account : Accounts \cup {None},
   snapshot : Paper!Snapshot \cup {None},
   version : Versions]

GateTypeOK ==
  /\ clock \in Time
  /\ sw \in [Scopes -> Gate!Switch \cup {None}]
  /\ gateOf \in [Accounts -> [OrderKeys -> Order \cup {None}]]
  /\ blocked \in [Accounts -> [OrderKeys -> BOOLEAN]]
  /\ guard \in [order : Order, at : Time, fresh : BOOLEAN] \cup {None}

(* Every variable keeps its shape, and a busy caller has an order.         *)
TypeOK ==
  /\ GateTypeOK
  /\ Paper!TypeOK
  /\ caller \in [Callers -> CallerState]
  /\ \A t \in Callers : ~At(t, "idle") => caller[t].order # None
  /\ refresher \in [Refreshers -> RefresherState]
  /\ \A r \in Refreshers : refresher[r].pc # "idle" =>
       refresher[r].account # None /\ refresher[r].snapshot # None
  /\ answered \in SUBSET [order : Submittable, says : {"receipt", "blocked"}]

(* The gate is held exactly while one caller is inside it, for that        *)
(* caller's order, with both switches off and the key never blocked: no    *)
(* exit, error, lost commit or crash leaks the guard or shares it.         *)
GuardHasOneHolder ==
  /\ \A t \in Callers : Holding(t) => guard # None /\ guard.order = caller[t].order
  /\ \A t, u \in Callers : Holding(t) /\ Holding(u) => t = u
  /\ guard # None =>
       /\ \E t \in Callers : Holding(t)
       /\ ~blocked[guard.order.account][guard.order.key]
       /\ \A s \in {Global, guard.order.account} : sw[s] # None /\ ~sw[s].active

(* An answer stays true: a client that got a receipt finds it again, and   *)
(* an order answered as blocked was not executed and never will be.        *)
AnswersStayTrue ==
  \A answer \in answered :
    LET a == answer.order.account
        k == answer.order.key IN
    /\ answer.says = "receipt" => byKey[a][k] # None /\ byKey[a][k].order = answer.order
    /\ answer.says = "blocked" =>
         blocked[a][k] /\ ~(byKey[a][k] # None /\ byKey[a][k].order = answer.order)

(* The store stays one consistent chain although refreshes and executions  *)
(* commit on states they read earlier: only one of two plans on the same   *)
(* state can win (the compare-and-swap of commit_execution).               *)
StoreStaysConsistent == Paper!IndexesAgree /\ Paper!EveryVersionHasOneCause

(* No step executes an order unless both its switches are off in that very *)
(* step and its key was never blocked.                                     *)
NoOrderWhileStopped ==
  [][\A a \in Accounts, k \in OrderKeys : byKey'[a][k] # byKey[a][k] =>
       /\ \A s \in {Global, a} : sw[s] # None /\ ~sw[s].active /\ sw'[s] = sw[s]
       /\ ~blocked[a][k]]_vars

(* The order path keeps the promises of GuardedOrders.                     *)
Promise == INSTANCE GuardedOrders WITH
  stopped  <- [s \in Scopes |-> sw[s] = None \/ sw[s].active],
  executed <- {order \in Order : byKey[order.account][order.key] # None
                                 /\ byKey[order.account][order.key].order = order},
  refused  <- {slot \in Accounts \X OrderKeys : blocked[slot[1]][slot[2]]},
  answered <- answered

ImplementsGuardedOrders == Promise!Spec

(* Whatever switches, refreshes and other callers do, a submission ends    *)
(* and its thread is free again: the client is answered or its process     *)
(* died.                                                                   *)
EverySubmissionEnds == \A t \in Callers : []<>At(t, "idle")
=============================================================================
