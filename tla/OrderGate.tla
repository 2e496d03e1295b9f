------------------------------ MODULE OrderGate ------------------------------
(***************************************************************************)
(* What the kill switch promises to those who place new orders: switches   *)
(* that are put in place, turned on and off; a gate that lets an order in  *)
(* only while its two switches are off, keeps them as they are until the   *)
(* order has left, and turns a key away for ever once it has blocked it.   *)
(* KillSwitch is shown to implement this specification; the order path is  *)
(* composed with it rather than with the repository's full detail.         *)
(***************************************************************************)
EXTENDS PaperOrders

VARIABLES
  clock,    \* the clock both services are given
  sw,       \* scope -> [active, changedAt], None before initialization
  gateOf,   \* account -> order key -> the order bound to the key
  blocked,  \* account -> order key -> TRUE once a BLOCKED decision is stored
  guard     \* the order inside the gate, or None

gateVars == <<clock, sw, gateOf, blocked, guard>>

Switch == [active : BOOLEAN, changedAt : Time]

Init ==
  /\ clock = 0
  /\ sw = [s \in Scopes |-> None]
  /\ gateOf = [a \in Accounts |-> [k \in OrderKeys |-> None]]
  /\ blocked = [a \in Accounts |-> [k \in OrderKeys |-> FALSE]]
  /\ guard = None

Tick ==
  /\ clock < MaxTime
  /\ clock' = clock + 1
  /\ UNCHANGED <<sw, gateOf, blocked, guard>>

SetSwitch(s, active, at) ==
  /\ guard = None
  /\ sw' = [sw EXCEPT ![s] = [active |-> active, changedAt |-> at]]
  /\ UNCHANGED <<clock, gateOf, blocked, guard>>

Install(s) == \E at \in 0..clock : sw[s] = None /\ SetSwitch(s, FALSE, at)

TurnOn(s) ==
  \E at \in 0..clock :
    sw[s] # None /\ sw[s].changedAt <= at /\ SetSwitch(s, TRUE, at)

TurnOff(s) ==
  /\ sw[s] # None
  /\ sw[s].active
  /\ sw[s].changedAt <= clock
  /\ SetSwitch(s, FALSE, clock)

-----------------------------------------------------------------------------
KeyAccepts(order) == gateOf[order.account][order.key] \in {None, order}

Undecided(order) ==
  /\ guard = None
  /\ KeyAccepts(order)
  /\ ~blocked[order.account][order.key]

(* Both switches exist, are off, and are no newer than the check.          *)
Admits(order, at) ==
  \A s \in {Global, order.account} :
    sw[s] # None /\ ~sw[s].active /\ sw[s].changedAt <= at

Block(order, at) ==
  /\ Undecided(order)
  /\ ~Admits(order, at)
  /\ gateOf' = [gateOf EXCEPT ![order.account][order.key] = order]
  /\ blocked' = [blocked EXCEPT ![order.account][order.key] = TRUE]
  /\ UNCHANGED <<clock, sw, guard>>

Enter(order, at) ==
  /\ Undecided(order)
  /\ Admits(order, at)
  /\ gateOf' = [gateOf EXCEPT ![order.account][order.key] = order]
  /\ guard' = [order |-> order, at |-> at, fresh |-> gateOf[order.account][order.key] = None]
  /\ UNCHANGED <<clock, sw, blocked>>

Exit ==
  /\ guard # None
  /\ guard' = None
  /\ UNCHANGED <<clock, sw, gateOf, blocked>>

(* The transaction of the guard is lost: the process died, or the final    *)
(* commit failed.  A reservation made by this guard goes with it.          *)
Lose ==
  /\ guard # None
  /\ guard' = None
  /\ gateOf' = IF guard.fresh
                 THEN [gateOf EXCEPT ![guard.order.account][guard.order.key] = None]
                 ELSE gateOf
  /\ UNCHANGED <<clock, sw, blocked>>

SwitchNext == \E s \in Scopes : Install(s) \/ TurnOn(s) \/ TurnOff(s)

Next ==
  \/ Tick
  \/ SwitchNext
  \/ \E order \in Order, at \in Time : Block(order, at) \/ Enter(order, at)
  \/ Exit
  \/ Lose

Spec == Init /\ [][Next]_gateVars
=============================================================================
