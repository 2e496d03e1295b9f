---------------------------- MODULE GuardedOrders ----------------------------
(***************************************************************************)
(* What placing paper orders promises, whatever the threads, processes,    *)
(* retries, lost acknowledgements and crashes behind it: an order is       *)
(* executed at most once per delivery key and at most once per batch, only *)
(* while neither of its switches stops it, and never under a key that was  *)
(* refused; and the answers given to clients agree with that.              *)
(***************************************************************************)
EXTENDS PaperOrders

VARIABLES
  stopped,   \* scope -> TRUE unless its switch is known to be off
  executed,  \* the orders executed
  refused,   \* the <<account, key>> pairs refused for ever
  answered   \* the answers clients were given, as [order, says]

promiseVars == <<stopped, executed, refused, answered>>

SlotOf(order) == <<order.account, order.key>>

Init ==
  /\ stopped = [s \in Scopes |-> TRUE]
  /\ executed = {}
  /\ refused = {}
  /\ answered = {}

Switch(s) ==
  /\ \E on \in BOOLEAN : stopped' = [stopped EXCEPT ![s] = on]
  /\ UNCHANGED <<executed, refused, answered>>

Execute(order) ==
  /\ ~stopped[Global] /\ ~stopped[order.account]
  /\ SlotOf(order) \notin refused
  /\ \A other \in executed : other.account = order.account =>
       other.key # order.key /\ other.batch # order.batch
  /\ executed' = executed \cup {order}
  /\ UNCHANGED <<stopped, refused, answered>>

Refuse(order) ==
  /\ refused' = refused \cup {SlotOf(order)}
  /\ UNCHANGED <<stopped, executed, answered>>

Answer(order, says) ==
  /\ says = "receipt" => order \in executed
  /\ says = "blocked" => order \notin executed /\ SlotOf(order) \in refused
  /\ answered' = answered \cup {[order |-> order, says |-> says]}
  /\ UNCHANGED <<stopped, executed, refused>>

Next ==
  \/ \E s \in Scopes : Switch(s)
  \/ \E order \in Order :
       \/ Execute(order)
       \/ Refuse(order)
       \/ \E says \in {"receipt", "blocked"} : Answer(order, says)

Spec == Init /\ [][Next]_promiseVars
=============================================================================
