--------------------------- MODULE PaperRepository ---------------------------
(***************************************************************************)
(* The paper account store (execution/paper/repository.py and its SQLite   *)
(* twin): one current state per account, receipts indexed by delivery key  *)
(* and by draft batch, and the refreshes already committed.  Every commit  *)
(* is a compare-and-swap on the account's state hash inside one lock or    *)
(* one transaction; what a state holds beyond its place in the chain and   *)
(* the batches it has processed is the subject of PaperLedger.             *)
(***************************************************************************)
EXTENDS PaperOrders, FiniteSets

CONSTANT SnapshotTags  \* tells apart snapshots taken of the same account state

(* base is the account state whose event log the snapshot closes           *)
(* (source_event_log_hash): the engine refreshes no other state with it.   *)
Snapshot == [base : Versions, tag : SnapshotTags]

VARIABLES
  account,   \* account -> its current state, None before it is opened
  byKey,     \* account -> delivery key -> receipt
  byBatch,   \* account -> batch -> receipt
  refreshes  \* account -> snapshot -> the version its refresh produced

paperVars == <<account, byKey, byBatch, refreshes>>

Init ==
  /\ account = [a \in Accounts |-> None]
  /\ byKey = [a \in Accounts |-> [k \in OrderKeys |-> None]]
  /\ byBatch = [a \in Accounts |-> [b \in Batches |-> None]]
  /\ refreshes = [a \in Accounts |-> [s \in Snapshot |-> None]]

OpenAccount(a) ==
  /\ account[a] = None
  /\ account' = [account EXCEPT ![a] = [version |-> 0, batches |-> {}]]
  /\ UNCHANGED <<byKey, byBatch, refreshes>>

(* Mutant: whoever holds the key or the batch answers for the request.     *)
MutantAnyReceipt(order) ==
  IF byKey[order.account][order.key] # None \/ byBatch[order.account][order.batch] # None
    THEN "receipt" ELSE "none"

(* What the two indexes say of a request: the key is asked before the      *)
(* batch, and a receipt of any other request is a conflict.                *)
Resolution(order) ==
  LET keyed == byKey[order.account][order.key]
      batched == byBatch[order.account][order.batch]
      Of(receipt) == IF receipt.order = order THEN "receipt" ELSE "conflict" IN
  IF keyed # None THEN Of(keyed)
  ELSE IF batched # None THEN Of(batched)
  ELSE "none"

(* Mutant: the account's state hash is not compared.                       *)
MutantNoCompareAndSwap(order, state) == state # None /\ order.batch \notin state.batches

(* The engine plans an order only on the state it was built for, and only  *)
(* if that state has not consumed the batch (_validate_submission).        *)
Fits(order, state) ==
  /\ state # None
  /\ state.version = order.expects
  /\ order.batch \notin state.batches

CommitExecution(order) ==
  LET a == order.account
      receipt == [order |-> order, version |-> order.expects + 1] IN
  /\ Resolution(order) = "none"
  /\ Fits(order, account[a])
  /\ order.expects < MaxVersion
  /\ account' = [account EXCEPT ![a] =
                   [version |-> order.expects + 1, batches |-> @.batches \cup {order.batch}]]
  /\ byKey' = [byKey EXCEPT ![a][order.key] = receipt]
  /\ byBatch' = [byBatch EXCEPT ![a][order.batch] = receipt]
  /\ UNCHANGED refreshes

(* expected is the version the caller planned the refresh on.              *)
CommitRefresh(a, snapshot, expected) ==
  /\ account[a] # None
  /\ refreshes[a][snapshot] = None
  /\ account[a].version = expected
  /\ snapshot.base = expected
  /\ expected < MaxVersion
  /\ account' = [account EXCEPT ![a].version = expected + 1]
  /\ refreshes' = [refreshes EXCEPT ![a][snapshot] = expected + 1]
  /\ UNCHANGED <<byKey, byBatch>>

(* A call that finds its own outcome stored returns it and changes nothing. *)
Replay ==
  /\ \/ \E order \in Order : Resolution(order) # "none"
     \/ \E a \in Accounts : account[a] # None
  /\ UNCHANGED paperVars

Next ==
  \/ \E a \in Accounts : OpenAccount(a)
  \/ \E order \in Order : CommitExecution(order)
  \/ \E a \in Accounts, s \in Snapshot, v \in Versions : CommitRefresh(a, s, v)
  \/ Replay

Spec == Init /\ [][Next]_paperVars

-----------------------------------------------------------------------------
(* Every variable keeps its shape.                                         *)
TypeOK ==
  /\ account \in [Accounts -> Account \cup {None}]
  /\ byKey \in [Accounts -> [OrderKeys -> Receipt \cup {None}]]
  /\ byBatch \in [Accounts -> [Batches -> Receipt \cup {None}]]
  /\ refreshes \in [Accounts -> [Snapshot -> Versions \cup {None}]]

(* The two receipt indexes and the batches the account state carries tell  *)
(* the same story, so no delivery key and no batch has two receipts and a  *)
(* retry that misses one index is caught by the other (commit_execution).  *)
IndexesAgree ==
  \A a \in Accounts :
    /\ \A k \in OrderKeys : byKey[a][k] # None =>
         /\ byKey[a][k].order.account = a
         /\ byKey[a][k].order.key = k
         /\ byBatch[a][byKey[a][k].order.batch] = byKey[a][k]
    /\ \A b \in Batches : byBatch[a][b] # None =>
         /\ byBatch[a][b].order.batch = b
         /\ byKey[a][byBatch[a][b].order.key] = byBatch[a][b]
    /\ {b \in Batches : byBatch[a][b] # None} =
         IF account[a] = None THEN {} ELSE account[a].batches

Causes(a, v) ==
  {byKey[a][k] : k \in {j \in OrderKeys : byKey[a][j] # None /\ byKey[a][j].version = v}}
    \cup {s \in Snapshot : refreshes[a][s] = v}

(* An account's states form one chain: each state after the first was made *)
(* by exactly one execution or one refresh, planned on the state just      *)
(* before it, and nothing claims a state that does not exist.              *)
EveryVersionHasOneCause ==
  \A a \in Accounts : \A v \in Versions :
    /\ Cardinality(Causes(a, v)) =
         IF account[a] # None /\ v \in 1..account[a].version THEN 1 ELSE 0
    /\ \A k \in OrderKeys :
         byKey[a][k] # None => byKey[a][k].order.expects + 1 = byKey[a][k].version
    /\ \A s \in Snapshot : refreshes[a][s] = v => s.base + 1 = v

(* Receipts and refreshes are never revoked or replaced.                   *)
OutcomesArePermanent ==
  [][\A a \in Accounts :
       /\ \A k \in OrderKeys : byKey[a][k] # None => byKey'[a][k] = byKey[a][k]
       /\ \A b \in Batches : byBatch[a][b] # None => byBatch'[a][b] = byBatch[a][b]
       /\ \A s \in Snapshot : refreshes[a][s] # None => refreshes'[a][s] = refreshes[a][s]]_paperVars
=============================================================================
