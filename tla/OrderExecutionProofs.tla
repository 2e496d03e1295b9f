------------------------- MODULE OrderExecutionProofs -------------------------
(***************************************************************************)
(* What TLAPS proves of the path of an order and of the reconciliation of  *)
(* what became of it.                                                      *)
(*                                                                         *)
(* Of the path, for every set of accounts, keys, batches, snapshots,       *)
(* callers and refreshers: its type invariant, that the gate has one       *)
(* holder whose switches are off, that no order is executed while a switch *)
(* stops it, that the store stays consistent and every answer true, and    *)
(* that the whole keeps the promise of GuardedOrders.  The first part is   *)
(* about the paper store by itself: its two receipt indexes and the        *)
(* account states tell one story, an outcome is never revoked, and every   *)
(* state of an account has one cause.  Its lemmas carry over, because      *)
(* every step of the order path is a step of the store or leaves it alone. *)
(*                                                                         *)
(* Of the reconciliation, for every execution whose receipt holds, every   *)
(* policy and any number of things that happen to the reports: evidence    *)
(* that lets new orders go on adds up, and evidence delivered again is     *)
(* checked as if it had come once.  For the first, findings are followed   *)
(* from the stop signal down to the comparison that raises none,           *)
(* duplicates to the one report of each content that counts, and the sums  *)
(* of the fills from the orders to the account.  For the second, every     *)
(* operator of the engine is shown to look at the contents of the reports  *)
(* only.                                                                   *)
(***************************************************************************)
EXTENDS OrderAdmission, ObservedExecution, SumTheorems, TLAPS

(* The composed modules speak of the same sets.                            *)
LEMMA Vocabulary ==
  /\ Gate!Scopes = Scopes /\ Gate!Time = Time /\ Gate!Order = Order
  /\ Paper!Order = Order /\ Paper!Versions = Versions
BY DEF Gate!Scopes, Scopes, Gate!Time, Time, Gate!Order, Gate!Versions, Order, Versions,
       Paper!Order, Paper!Versions

LEMMA PaperAssumption ==
  /\ MaxVersion \in Nat /\ None \notin Nat
  /\ None \notin Paper!Account \cup Paper!Receipt
BY OrderAdmissionAssumption, PaperOrdersAssumption

(* The store and this module have an instance of FiniteSets each.          *)
LEMMA SameCount == ASSUME NEW S PROVE Paper!Cardinality(S) = Cardinality(S)
BY DEF Cardinality, Paper!Cardinality

-----------------------------------------------------------------------------
(* The store by itself.                                                    *)

(* Where nothing is resolved, neither index has an entry.                  *)
LEMMA UnresolvedIsFree ==
  ASSUME NEW order \in Paper!Order, Paper!Resolution(order) = "none"
  PROVE  /\ byKey[order.account][order.key] = None
         /\ byBatch[order.account][order.batch] = None
BY DEF Paper!Resolution

(* What an execution writes.                                               *)
LEMMA ExecutionWrites ==
  ASSUME Paper!TypeOK, NEW order \in Paper!Order, Paper!CommitExecution(order)
  PROVE  /\ order.account \in Accounts /\ order.key \in OrderKeys /\ order.batch \in Batches
         /\ [order |-> order, version |-> order.expects + 1] \in Paper!Receipt
         /\ order.expects + 1 \in Paper!Versions
         /\ account[order.account] \in Paper!Account
         /\ \A a \in Accounts :
              account'[a] = IF a = order.account
                              THEN [version |-> order.expects + 1,
                                    batches |-> account[a].batches \cup {order.batch}]
                              ELSE account[a]
         /\ \A a \in Accounts, k \in OrderKeys :
              byKey'[a][k] = IF a = order.account /\ k = order.key
                               THEN [order |-> order, version |-> order.expects + 1]
                               ELSE byKey[a][k]
         /\ \A a \in Accounts, b \in Batches :
              byBatch'[a][b] = IF a = order.account /\ b = order.batch
                                 THEN [order |-> order, version |-> order.expects + 1]
                                 ELSE byBatch[a][b]
<1>1. order.account \in Accounts /\ order.key \in OrderKeys /\ order.batch \in Batches
      /\ order.expects \in Paper!Versions
  BY DEF Paper!Order
<1>2. order.expects + 1 \in Paper!Versions
  BY <1>1, PaperAssumption DEF Paper!CommitExecution, Paper!Versions
<1>3. [order |-> order, version |-> order.expects + 1] \in Paper!Receipt
  BY <1>2 DEF Paper!Receipt
<1>4. account[order.account] \in Paper!Account
  BY <1>1 DEF Paper!TypeOK, Paper!CommitExecution, Paper!Fits
<1>5. \A a \in Accounts :
        account'[a] = IF a = order.account
                        THEN [version |-> order.expects + 1,
                              batches |-> account[a].batches \cup {order.batch}]
                        ELSE account[a]
  BY <1>1 DEF Paper!TypeOK, Paper!CommitExecution
<1>6. \A a \in Accounts, k \in OrderKeys :
        byKey'[a][k] = IF a = order.account /\ k = order.key
                         THEN [order |-> order, version |-> order.expects + 1]
                         ELSE byKey[a][k]
  BY <1>1 DEF Paper!TypeOK, Paper!CommitExecution
<1>7. \A a \in Accounts, b \in Batches :
        byBatch'[a][b] = IF a = order.account /\ b = order.batch
                           THEN [order |-> order, version |-> order.expects + 1]
                           ELSE byBatch[a][b]
  BY <1>1 DEF Paper!TypeOK, Paper!CommitExecution
<1> QED BY <1>1, <1>2, <1>3, <1>4, <1>5, <1>6, <1>7

-----------------------------------------------------------------------------
(* No step of the store breaks its type invariant.                         *)
LEMMA PaperTypeStep == Paper!TypeOK /\ [Paper!Next]_(Paper!paperVars) => Paper!TypeOK'
<1> SUFFICES ASSUME Paper!TypeOK, [Paper!Next]_(Paper!paperVars) PROVE Paper!TypeOK'
  OBVIOUS
<1>1. ASSUME NEW a \in Accounts, Paper!OpenAccount(a) PROVE Paper!TypeOK'
  <2>1. [version |-> 0, batches |-> {}] \in Paper!Account
    BY PaperAssumption DEF Paper!Account, Paper!Versions
  <2> QED BY <1>1, <2>1 DEF Paper!OpenAccount, Paper!TypeOK
<1>2. ASSUME NEW order \in Paper!Order, Paper!CommitExecution(order) PROVE Paper!TypeOK'
  <2> DEFINE receipt == [order |-> order, version |-> order.expects + 1]
             after == [version |-> order.expects + 1,
                       batches |-> account[order.account].batches \cup {order.batch}]
  <2>1. /\ order.account \in Accounts /\ order.key \in OrderKeys /\ order.batch \in Batches
        /\ receipt \in Paper!Receipt
        /\ order.expects + 1 \in Paper!Versions
        /\ account[order.account] \in Paper!Account
    BY <1>2, ExecutionWrites
  <2>2. after \in Paper!Account
    BY <2>1 DEF Paper!Account
  <2>3. /\ account' = [account EXCEPT ![order.account] = after]
        /\ byKey' = [byKey EXCEPT ![order.account][order.key] = receipt]
        /\ byBatch' = [byBatch EXCEPT ![order.account][order.batch] = receipt]
        /\ refreshes' = refreshes
    BY <1>2, <2>1 DEF Paper!CommitExecution, Paper!TypeOK
  <2> HIDE DEF receipt, after
  <2> QED BY <2>1, <2>2, <2>3 DEF Paper!TypeOK
<1>3. ASSUME NEW a \in Accounts, NEW s \in Paper!Snapshot, NEW v \in Paper!Versions,
             Paper!CommitRefresh(a, s, v)
      PROVE  Paper!TypeOK'
  <2>1. account[a] \in Paper!Account /\ v + 1 \in Paper!Versions
    BY <1>3, PaperAssumption DEF Paper!CommitRefresh, Paper!TypeOK, Paper!Versions
  <2>2. [account[a] EXCEPT !.version = v + 1] \in Paper!Account
    BY <2>1 DEF Paper!Account
  <2>3. account' = [account EXCEPT ![a] = [account[a] EXCEPT !.version = v + 1]]
    BY <1>3 DEF Paper!CommitRefresh, Paper!TypeOK
  <2> QED BY <1>3, <2>1, <2>2, <2>3 DEF Paper!CommitRefresh, Paper!TypeOK
<1>4. CASE UNCHANGED Paper!paperVars
  BY <1>4 DEF Paper!TypeOK, Paper!paperVars
<1> QED BY <1>1, <1>2, <1>3, <1>4 DEF Paper!Next, Paper!Replay

(* The type invariant of every reachable state of the store.               *)
THEOREM PaperTypeOK == Paper!Spec => []Paper!TypeOK
<1>1. Paper!Init => Paper!TypeOK
  BY DEF Paper!Init, Paper!TypeOK
<1> QED BY <1>1, PaperTypeStep, PTL DEF Paper!Spec

-----------------------------------------------------------------------------
(* IndexesAgree, one account at a time.                                    *)
KeysHaveBatches(a) ==
  \A k \in OrderKeys : byKey[a][k] # None =>
    /\ byKey[a][k].order.account = a
    /\ byKey[a][k].order.key = k
    /\ byBatch[a][byKey[a][k].order.batch] = byKey[a][k]

BatchesHaveKeys(a) ==
  \A b \in Batches : byBatch[a][b] # None =>
    /\ byBatch[a][b].order.batch = b
    /\ byKey[a][byBatch[a][b].order.key] = byBatch[a][b]

StateKnowsBatches(a) ==
  \A b \in Batches : byBatch[a][b] # None <=> account[a] # None /\ b \in account[a].batches

IndexInv == \A a \in Accounts : KeysHaveBatches(a) /\ BatchesHaveKeys(a) /\ StateKnowsBatches(a)

LEMMA IndexInvSuffices == Paper!TypeOK /\ IndexInv => Paper!IndexesAgree
<1> SUFFICES ASSUME Paper!TypeOK, IndexInv PROVE Paper!IndexesAgree
  OBVIOUS
<1>1. ASSUME NEW a \in Accounts
      PROVE  {b \in Batches : byBatch[a][b] # None} =
               IF account[a] = None THEN {} ELSE account[a].batches
  <2>1. CASE account[a] = None
    BY <2>1 DEF IndexInv, StateKnowsBatches
  <2>2. CASE account[a] # None
    <3>1. account[a].batches \in SUBSET Batches
      BY <2>2 DEF Paper!TypeOK, Paper!Account
    <3> QED BY <2>2, <3>1 DEF IndexInv, StateKnowsBatches
  <2> QED BY <2>1, <2>2
<1> QED BY <1>1 DEF IndexInv, KeysHaveBatches, BatchesHaveKeys, Paper!IndexesAgree

(* An execution adds one receipt to both indexes and its batch to the      *)
(* state: none of the three can already be there.                          *)
LEMMA ExecutionKeepsIndexes ==
  ASSUME Paper!TypeOK, IndexInv, NEW order \in Paper!Order, Paper!CommitExecution(order),
         NEW a \in Accounts
  PROVE  KeysHaveBatches(a)' /\ BatchesHaveKeys(a)' /\ StateKnowsBatches(a)'
<1> DEFINE receipt == [order |-> order, version |-> order.expects + 1]
<1>1. /\ order.account \in Accounts /\ order.key \in OrderKeys /\ order.batch \in Batches
      /\ receipt \in Paper!Receipt /\ receipt # None
      /\ account[order.account] \in Paper!Account /\ account[order.account] # None
      /\ account'[a] = IF a = order.account
                         THEN [version |-> order.expects + 1,
                               batches |-> account[a].batches \cup {order.batch}]
                         ELSE account[a]
      /\ \A k \in OrderKeys :
           byKey'[a][k] = IF a = order.account /\ k = order.key THEN receipt ELSE byKey[a][k]
      /\ \A b \in Batches :
           byBatch'[a][b] = IF a = order.account /\ b = order.batch THEN receipt ELSE byBatch[a][b]
  BY ExecutionWrites, PaperAssumption DEF Paper!CommitExecution, Paper!Fits
<1>2. byKey[order.account][order.key] = None /\ byBatch[order.account][order.batch] = None
  BY UnresolvedIsFree DEF Paper!CommitExecution
<1>3. receipt.order = order
  OBVIOUS
<1>4. /\ \A k \in OrderKeys : byKey[a][k] # None => byKey[a][k].order.batch \in Batches
      /\ \A b \in Batches : byBatch[a][b] # None => byBatch[a][b].order.key \in OrderKeys
  <2>1. \A k \in OrderKeys : byKey[a][k] \in Paper!Receipt \cup {None}
    BY DEF Paper!TypeOK
  <2>2. \A b \in Batches : byBatch[a][b] \in Paper!Receipt \cup {None}
    BY DEF Paper!TypeOK
  <2> QED BY <2>1, <2>2 DEF Paper!Receipt, Paper!Order
<1>5. KeysHaveBatches(a) /\ BatchesHaveKeys(a) /\ StateKnowsBatches(a)
  BY DEF IndexInv
<1> HIDE DEF receipt
<1>6. KeysHaveBatches(a)'
  <2> SUFFICES ASSUME NEW k \in OrderKeys, byKey'[a][k] # None
               PROVE  /\ byKey'[a][k].order.account = a
                      /\ byKey'[a][k].order.key = k
                      /\ byBatch'[a][byKey'[a][k].order.batch] = byKey'[a][k]
    BY DEF KeysHaveBatches
  <2>1. CASE a = order.account /\ k = order.key
    BY <1>1, <1>3, <2>1
  <2>2. CASE ~(a = order.account /\ k = order.key)
    <3>1. byKey'[a][k] = byKey[a][k]
      BY <1>1, <2>2
    <3>2. byKey[a][k].order.batch \in Batches
      BY <1>4, <3>1
    <3>3. ~(a = order.account /\ byKey[a][k].order.batch = order.batch)
      BY <1>2, <1>5, <3>1 DEF KeysHaveBatches
    <3> QED BY <1>1, <1>5, <3>1, <3>2, <3>3 DEF KeysHaveBatches
  <2> QED BY <2>1, <2>2
<1>7. BatchesHaveKeys(a)'
  <2> SUFFICES ASSUME NEW b \in Batches, byBatch'[a][b] # None
               PROVE  /\ byBatch'[a][b].order.batch = b
                      /\ byKey'[a][byBatch'[a][b].order.key] = byBatch'[a][b]
    BY DEF BatchesHaveKeys
  <2>1. CASE a = order.account /\ b = order.batch
    BY <1>1, <1>3, <2>1
  <2>2. CASE ~(a = order.account /\ b = order.batch)
    <3>1. byBatch'[a][b] = byBatch[a][b]
      BY <1>1, <2>2
    <3>2. byBatch[a][b].order.key \in OrderKeys
      BY <1>4, <3>1
    <3>3. ~(a = order.account /\ byBatch[a][b].order.key = order.key)
      BY <1>2, <1>5, <3>1 DEF BatchesHaveKeys
    <3> QED BY <1>1, <1>5, <3>1, <3>2, <3>3 DEF BatchesHaveKeys
  <2> QED BY <2>1, <2>2
<1>8. StateKnowsBatches(a)'
  <2>1. CASE a = order.account
    <3>1. account'[a] \in Paper!Account
      <4>1. order.expects + 1 \in Paper!Versions
        BY ExecutionWrites
      <4>2. account[a].batches \cup {order.batch} \in SUBSET Batches
        BY <1>1, <2>1 DEF Paper!Account
      <4>3. account'[a] = [version |-> order.expects + 1,
                           batches |-> account[a].batches \cup {order.batch}]
        BY <1>1, <2>1
      <4> QED BY <4>1, <4>2, <4>3 DEF Paper!Account
    <3>2. account'[a] # None
      BY <3>1, PaperAssumption
    <3> QED BY <1>1, <1>5, <2>1, <3>2 DEF StateKnowsBatches
  <2>2. CASE a # order.account
    BY <1>1, <1>5, <2>2 DEF StateKnowsBatches
  <2> QED BY <2>1, <2>2
<1> QED BY <1>6, <1>7, <1>8

(* No step of the store breaks the agreement of the indexes.               *)
LEMMA IndexInvStep == Paper!TypeOK /\ IndexInv /\ [Paper!Next]_(Paper!paperVars) => IndexInv'
<1> SUFFICES ASSUME Paper!TypeOK, IndexInv, [Paper!Next]_(Paper!paperVars) PROVE IndexInv'
  OBVIOUS
<1>1. ASSUME NEW a \in Accounts, Paper!OpenAccount(a) PROVE IndexInv'
  <2>1. /\ byKey' = byKey /\ byBatch' = byBatch
        /\ \A c \in Accounts :
             account'[c] = IF c = a THEN [version |-> 0, batches |-> {}] ELSE account[c]
    BY <1>1 DEF Paper!OpenAccount, Paper!TypeOK
  <2>2. account[a] = None
    BY <1>1 DEF Paper!OpenAccount
  <2> QED BY <2>1, <2>2 DEF IndexInv, KeysHaveBatches, BatchesHaveKeys, StateKnowsBatches
<1>2. ASSUME NEW order \in Paper!Order, Paper!CommitExecution(order) PROVE IndexInv'
  BY <1>2, ExecutionKeepsIndexes DEF IndexInv
<1>3. ASSUME NEW a \in Accounts, NEW s \in Paper!Snapshot, NEW v \in Paper!Versions,
             Paper!CommitRefresh(a, s, v)
      PROVE  IndexInv'
  <2>1. account[a] # None /\ account[a] \in Paper!Account
    BY <1>3 DEF Paper!CommitRefresh, Paper!TypeOK
  <2>2. /\ byKey' = byKey /\ byBatch' = byBatch
        /\ \A c \in Accounts :
             account'[c] = IF c = a THEN [account[a] EXCEPT !.version = v + 1] ELSE account[c]
    BY <1>3 DEF Paper!CommitRefresh, Paper!TypeOK
  <2>3. /\ account'[a].batches = account[a].batches
        /\ account'[a] # None
    <3>1. v + 1 \in Paper!Versions
      BY <1>3, PaperAssumption DEF Paper!CommitRefresh, Paper!Versions
    <3>2. [account[a] EXCEPT !.version = v + 1] \in Paper!Account
      BY <2>1, <3>1 DEF Paper!Account
    <3> QED BY <2>1, <2>2, <3>2, PaperAssumption DEF Paper!Account
  <2> QED BY <2>1, <2>2, <2>3
          DEF IndexInv, KeysHaveBatches, BatchesHaveKeys, StateKnowsBatches
<1>4. CASE UNCHANGED Paper!paperVars
  BY <1>4 DEF IndexInv, KeysHaveBatches, BatchesHaveKeys, StateKnowsBatches, Paper!paperVars
<1> QED BY <1>1, <1>2, <1>3, <1>4 DEF Paper!Next, Paper!Replay

LEMMA IndexInvInit == Paper!Init => IndexInv
<1> SUFFICES ASSUME Paper!Init, NEW a \in Accounts
             PROVE  KeysHaveBatches(a) /\ BatchesHaveKeys(a) /\ StateKnowsBatches(a)
  BY DEF IndexInv
<1>1. /\ account[a] = None
      /\ \A k \in OrderKeys : byKey[a][k] = None
      /\ \A b \in Batches : byBatch[a][b] = None
  BY DEF Paper!Init
<1> QED BY <1>1 DEF KeysHaveBatches, BatchesHaveKeys, StateKnowsBatches

(* The two indexes and the account states always tell the same story, so   *)
(* neither a key nor a batch is ever executed twice.                       *)
THEOREM PaperIndexesAgree == Paper!Spec => []Paper!IndexesAgree
BY IndexInvInit, IndexInvStep, PaperTypeOK, IndexInvSuffices, PTL DEF Paper!Spec

-----------------------------------------------------------------------------
PermanentStep ==
  \A a \in Accounts :
    /\ \A k \in OrderKeys : byKey[a][k] # None => byKey'[a][k] = byKey[a][k]
    /\ \A b \in Batches : byBatch[a][b] # None => byBatch'[a][b] = byBatch[a][b]
    /\ \A s \in Paper!Snapshot : refreshes[a][s] # None => refreshes'[a][s] = refreshes[a][s]

(* No step replaces or removes a receipt or the outcome of a refresh.      *)
THEOREM PaperOutcomesArePermanent == Paper!Spec => Paper!OutcomesArePermanent
<1>1. Paper!TypeOK /\ [Paper!Next]_(Paper!paperVars) => [PermanentStep]_(Paper!paperVars)
  <2> SUFFICES ASSUME Paper!TypeOK, Paper!Next PROVE [PermanentStep]_(Paper!paperVars)
    OBVIOUS
  <2>1. ASSUME NEW a \in Accounts, Paper!OpenAccount(a) PROVE PermanentStep
    BY <2>1 DEF Paper!OpenAccount, PermanentStep
  <2>2. ASSUME NEW order \in Paper!Order, Paper!CommitExecution(order) PROVE PermanentStep
    <3>1. byKey[order.account][order.key] = None /\ byBatch[order.account][order.batch] = None
      BY <2>2, UnresolvedIsFree DEF Paper!CommitExecution
    <3>2. ASSUME NEW a \in Accounts, NEW k \in OrderKeys, byKey[a][k] # None
          PROVE  byKey'[a][k] = byKey[a][k]
      BY <2>2, <3>1, <3>2, ExecutionWrites
    <3>3. ASSUME NEW a \in Accounts, NEW b \in Batches, byBatch[a][b] # None
          PROVE  byBatch'[a][b] = byBatch[a][b]
      BY <2>2, <3>1, <3>3, ExecutionWrites
    <3>4. refreshes' = refreshes
      BY <2>2 DEF Paper!CommitExecution
    <3> QED BY <3>2, <3>3, <3>4 DEF PermanentStep
  <2>3. ASSUME NEW a \in Accounts, NEW s \in Paper!Snapshot, NEW v \in Paper!Versions,
               Paper!CommitRefresh(a, s, v)
        PROVE  PermanentStep
    BY <2>3 DEF Paper!CommitRefresh, PermanentStep, Paper!TypeOK
  <2>4. CASE Paper!Replay
    BY <2>4 DEF Paper!Replay
  <2> QED BY <2>1, <2>2, <2>3, <2>4 DEF Paper!Next
<1>2. [PermanentStep]_(Paper!paperVars) =>
        [\A a \in Accounts :
           /\ \A k \in OrderKeys : byKey[a][k] # None => byKey'[a][k] = byKey[a][k]
           /\ \A b \in Batches : byBatch[a][b] # None => byBatch'[a][b] = byBatch[a][b]
           /\ \A s \in Paper!Snapshot :
                refreshes[a][s] # None => refreshes'[a][s] = refreshes[a][s]]_(Paper!paperVars)
  BY DEF PermanentStep
<1> QED BY <1>1, <1>2, PaperTypeOK, PTL DEF Paper!Spec, Paper!OutcomesArePermanent

-----------------------------------------------------------------------------
(* EveryVersionHasOneCause, one account at a time, without cardinalities.  *)
CausedByTheNext(a) ==
  /\ \A k \in OrderKeys :
       byKey[a][k] # None => byKey[a][k].order.expects + 1 = byKey[a][k].version
  /\ \A s \in Paper!Snapshot : refreshes[a][s] # None => s.base + 1 = refreshes[a][s]

OneCauseEach(a) ==
  \A v \in Paper!Versions :
    IF account[a] # None /\ v \in 1..account[a].version
      THEN \E c : Paper!Causes(a, v) = {c}
      ELSE Paper!Causes(a, v) = {}

ChainInv == \A a \in Accounts : CausedByTheNext(a) /\ OneCauseEach(a)

LEMMA ChainInvSuffices == Paper!TypeOK /\ ChainInv => Paper!EveryVersionHasOneCause
<1> SUFFICES ASSUME Paper!TypeOK, ChainInv, NEW a \in Accounts, NEW v \in Paper!Versions
             PROVE  /\ Cardinality(Paper!Causes(a, v)) =
                         IF account[a] # None /\ v \in 1..account[a].version THEN 1 ELSE 0
                    /\ \A k \in OrderKeys :
                         byKey[a][k] # None => byKey[a][k].order.expects + 1 = byKey[a][k].version
                    /\ \A s \in Paper!Snapshot : refreshes[a][s] = v => s.base + 1 = v
  BY SameCount DEF Paper!EveryVersionHasOneCause
<1>1. OneCauseEach(a) /\ CausedByTheNext(a)
  BY DEF ChainInv
<1>2. CASE account[a] # None /\ v \in 1..account[a].version
  <2>1. PICK c : Paper!Causes(a, v) = {c}
    BY <1>1, <1>2 DEF OneCauseEach
  <2>2. Cardinality(Paper!Causes(a, v)) = 1
    BY <2>1, FS_Singleton
  <2>3. v # None
    BY PaperAssumption DEF Paper!Versions
  <2> QED BY <1>1, <1>2, <2>2, <2>3 DEF CausedByTheNext
<1>3. CASE ~(account[a] # None /\ v \in 1..account[a].version)
  <2>1. Cardinality(Paper!Causes(a, v)) = 0
    BY <1>1, <1>3, FS_EmptySet DEF OneCauseEach
  <2>2. v # None
    BY PaperAssumption DEF Paper!Versions
  <2> QED BY <1>1, <1>3, <2>1, <2>2 DEF CausedByTheNext
<1> QED BY <1>2, <1>3

(* An account moves on by one state that had no cause, and gets one.       *)
LEMMA OneCauseMore ==
  ASSUME Paper!TypeOK, NEW a \in Accounts, OneCauseEach(a), NEW v \in Paper!Versions,
         v + 1 \in Paper!Versions,
         account[a] # None, account[a].version = v,
         account'[a] # None, account'[a].version = v + 1,
         NEW cause, Paper!Causes(a, v + 1)' = Paper!Causes(a, v + 1) \cup {cause},
         \A w \in Paper!Versions \ {v + 1} : Paper!Causes(a, w)' = Paper!Causes(a, w)
  PROVE  OneCauseEach(a)'
<1>1. v \in Int
  BY DEF Paper!Versions
<1>2. ASSUME NEW w \in Paper!Versions
      PROVE  IF account'[a] # None /\ w \in 1..account'[a].version
               THEN \E c : Paper!Causes(a, w)' = {c}
               ELSE Paper!Causes(a, w)' = {}
  <2>1. CASE w = v + 1
    <3>1. Paper!Causes(a, w) = {}
      BY <1>1, <2>1 DEF OneCauseEach
    <3>2. Paper!Causes(a, w)' = {cause}
      BY <2>1, <3>1
    <3>3. w \in 1..account'[a].version
      BY <1>1, <2>1, PaperAssumption DEF Paper!Versions
    <3> QED BY <3>2, <3>3
  <2>2. CASE w # v + 1
    <3>1. w \in 1..v <=> w \in 1..v + 1
      BY <1>1, <2>2 DEF Paper!Versions
    <3>2. Paper!Causes(a, w)' = Paper!Causes(a, w)
      BY <2>2
    <3> QED BY <3>1, <3>2 DEF OneCauseEach
  <2> QED BY <2>1, <2>2
<1> QED BY <1>2 DEF OneCauseEach

LEMMA ExecutionIsOneCause ==
  ASSUME Paper!TypeOK, ChainInv, NEW order \in Paper!Order, Paper!CommitExecution(order),
         NEW a \in Accounts
  PROVE  CausedByTheNext(a)' /\ OneCauseEach(a)'
<1> DEFINE receipt == [order |-> order, version |-> order.expects + 1]
<1>1. /\ order.account \in Accounts /\ order.key \in OrderKeys
      /\ receipt \in Paper!Receipt /\ receipt # None
      /\ order.expects + 1 \in Paper!Versions /\ order.expects \in Paper!Versions
      /\ account[order.account] \in Paper!Account /\ account[order.account] # None
      /\ account[order.account].version = order.expects
      /\ account'[a] = IF a = order.account
                         THEN [version |-> order.expects + 1,
                               batches |-> account[a].batches \cup {order.batch}]
                         ELSE account[a]
      /\ \A k \in OrderKeys :
           byKey'[a][k] = IF a = order.account /\ k = order.key THEN receipt ELSE byKey[a][k]
      /\ refreshes' = refreshes
  BY ExecutionWrites, PaperAssumption DEF Paper!CommitExecution, Paper!Fits, Paper!Order
<1>2. byKey[order.account][order.key] = None
  BY UnresolvedIsFree DEF Paper!CommitExecution
<1>3. CausedByTheNext(a) /\ OneCauseEach(a)
  BY DEF ChainInv
<1>4. receipt.order = order /\ receipt.version = order.expects + 1
  OBVIOUS
<1> HIDE DEF receipt
<1>5. CausedByTheNext(a)'
  BY <1>1, <1>3, <1>4 DEF CausedByTheNext
<1>6. CASE a # order.account
  <2>1. \A v \in Paper!Versions : Paper!Causes(a, v)' = Paper!Causes(a, v)
    BY <1>1, <1>6 DEF Paper!Causes
  <2> QED BY <1>1, <1>3, <1>5, <1>6, <2>1 DEF OneCauseEach
<1>7. CASE a = order.account
  <2>1. Paper!Causes(a, order.expects + 1)' = Paper!Causes(a, order.expects + 1) \cup {receipt}
    BY <1>1, <1>2, <1>4, <1>7 DEF Paper!Causes
  <2>2. \A w \in Paper!Versions \ {order.expects + 1} : Paper!Causes(a, w)' = Paper!Causes(a, w)
    BY <1>1, <1>2, <1>4, <1>7 DEF Paper!Causes
  <2>3. account'[a] # None /\ account'[a].version = order.expects + 1
    <3>1. account'[a] = [version |-> order.expects + 1,
                         batches |-> account[a].batches \cup {order.batch}]
      BY <1>1, <1>7
    <3>2. account[a].batches \cup {order.batch} \in SUBSET Batches
      BY <1>1, <1>7 DEF Paper!Account, Paper!Order
    <3>3. account'[a] \in Paper!Account
      BY <1>1, <3>1, <3>2 DEF Paper!Account
    <3> QED BY <3>1, <3>3, PaperAssumption
  <2>4. account[a] # None /\ account[a].version = order.expects
    BY <1>1, <1>7
  <2>5. OneCauseEach(a)'
    BY <1>1, <1>3, <2>1, <2>2, <2>3, <2>4, OneCauseMore
  <2> QED BY <1>5, <2>5
<1> QED BY <1>6, <1>7

LEMMA RefreshIsOneCause ==
  ASSUME Paper!TypeOK, ChainInv, NEW b \in Accounts, NEW s \in Paper!Snapshot,
         NEW v \in Paper!Versions,
         Paper!CommitRefresh(b, s, v), NEW a \in Accounts
  PROVE  CausedByTheNext(a)' /\ OneCauseEach(a)'
<1>1. /\ account[b] \in Paper!Account /\ account[b] # None /\ account[b].version = v
      /\ v + 1 \in Paper!Versions /\ s.base = v /\ refreshes[b][s] = None
      /\ byKey' = byKey
      /\ account'[a] = IF a = b THEN [account[a] EXCEPT !.version = v + 1] ELSE account[a]
      /\ \A t \in Paper!Snapshot :
           refreshes'[a][t] = IF a = b /\ t = s THEN v + 1 ELSE refreshes[a][t]
  <2>1. v + 1 \in Paper!Versions
    BY PaperAssumption DEF Paper!CommitRefresh, Paper!Versions
  <2>2. /\ account' = [account EXCEPT ![b].version = v + 1]
        /\ refreshes' = [refreshes EXCEPT ![b][s] = v + 1]
    BY DEF Paper!CommitRefresh
  <2>3. /\ account'[a] = IF a = b THEN [account[a] EXCEPT !.version = v + 1] ELSE account[a]
        /\ \A t \in Paper!Snapshot :
             refreshes'[a][t] = IF a = b /\ t = s THEN v + 1 ELSE refreshes[a][t]
    BY <2>2 DEF Paper!TypeOK
  <2>4. /\ account[b] \in Paper!Account /\ account[b] # None /\ account[b].version = v
        /\ s.base = v /\ refreshes[b][s] = None /\ byKey' = byKey
    BY DEF Paper!CommitRefresh, Paper!TypeOK
  <2> QED BY <2>1, <2>3, <2>4
<1>2. CausedByTheNext(a) /\ OneCauseEach(a)
  BY DEF ChainInv
<1>3. CausedByTheNext(a)'
  BY <1>1, <1>2 DEF CausedByTheNext
<1>4. CASE a # b
  <2>1. \A w \in Paper!Versions : Paper!Causes(a, w)' = Paper!Causes(a, w)
    BY <1>1, <1>4 DEF Paper!Causes
  <2> QED BY <1>1, <1>2, <1>3, <1>4, <2>1 DEF OneCauseEach
<1>5. CASE a = b
  <2>0. \A w \in Paper!Versions : None # w
    BY PaperAssumption DEF Paper!Versions
  <2>1. Paper!Causes(a, v + 1)' = Paper!Causes(a, v + 1) \cup {s}
    BY <1>1, <1>5, <2>0 DEF Paper!Causes
  <2>2. \A w \in Paper!Versions \ {v + 1} : Paper!Causes(a, w)' = Paper!Causes(a, w)
    BY <1>1, <1>5, <2>0 DEF Paper!Causes
  <2>3. account'[a] # None /\ account'[a].version = v + 1
    <3>1. [account[a] EXCEPT !.version = v + 1] \in Paper!Account
      BY <1>1, <1>5 DEF Paper!Account
    <3> QED BY <1>1, <1>5, <3>1, PaperAssumption DEF Paper!Account
  <2>4. account[a] # None /\ account[a].version = v
    BY <1>1, <1>5
  <2>5. OneCauseEach(a)'
    BY <1>1, <1>2, <2>1, <2>2, <2>3, <2>4, OneCauseMore
  <2> QED BY <1>3, <2>5
<1> QED BY <1>4, <1>5

(* No step of the store leaves a state without its one cause.              *)
LEMMA ChainInvStep == Paper!TypeOK /\ ChainInv /\ [Paper!Next]_(Paper!paperVars) => ChainInv'
<1> SUFFICES ASSUME Paper!TypeOK, ChainInv, [Paper!Next]_(Paper!paperVars) PROVE ChainInv'
  OBVIOUS
<1>1. ASSUME NEW a \in Accounts, Paper!OpenAccount(a), NEW c \in Accounts
      PROVE  CausedByTheNext(c)' /\ OneCauseEach(c)'
  <2>1. /\ byKey' = byKey /\ refreshes' = refreshes
        /\ account'[c] = IF c = a THEN [version |-> 0, batches |-> {}] ELSE account[c]
        /\ account[a] = None
    BY <1>1 DEF Paper!OpenAccount, Paper!TypeOK
  <2>2. CausedByTheNext(c) /\ OneCauseEach(c)
    BY DEF ChainInv
  <2>3. CausedByTheNext(c)'
    BY <2>1, <2>2 DEF CausedByTheNext
  <2>4. \A v \in Paper!Versions : Paper!Causes(c, v)' = Paper!Causes(c, v)
    BY <2>1 DEF Paper!Causes
  <2>5. c = a => \A v \in Paper!Versions : v \notin 1..account'[c].version
    BY <2>1
  <2> QED BY <2>1, <2>2, <2>3, <2>4, <2>5 DEF OneCauseEach
<1>2. ASSUME NEW order \in Paper!Order, Paper!CommitExecution(order) PROVE ChainInv'
  BY <1>2, ExecutionIsOneCause DEF ChainInv
<1>3. ASSUME NEW a \in Accounts, NEW s \in Paper!Snapshot, NEW v \in Paper!Versions,
             Paper!CommitRefresh(a, s, v)
      PROVE  ChainInv'
  BY <1>3, RefreshIsOneCause DEF ChainInv
<1>4. CASE UNCHANGED Paper!paperVars
  <2>1. account' = account /\ byKey' = byKey /\ refreshes' = refreshes
    BY <1>4 DEF Paper!paperVars
  <2>2. \A a \in Accounts, v \in Paper!Versions : Paper!Causes(a, v)' = Paper!Causes(a, v)
    BY <2>1 DEF Paper!Causes
  <2>3. \A a \in Accounts : CausedByTheNext(a)'
    BY <2>1 DEF ChainInv, CausedByTheNext
  <2>4. \A a \in Accounts : OneCauseEach(a)'
    <3> SUFFICES ASSUME NEW a \in Accounts PROVE OneCauseEach(a)'
      OBVIOUS
    <3>1. OneCauseEach(a)
      BY DEF ChainInv
    <3> QED BY <2>1, <2>2, <3>1 DEF OneCauseEach
  <2> QED BY <2>3, <2>4 DEF ChainInv
<1>5. ASSUME NEW a \in Accounts, Paper!OpenAccount(a) PROVE ChainInv'
  BY <1>1, <1>5 DEF ChainInv
<1> QED BY <1>2, <1>3, <1>4, <1>5 DEF Paper!Next, Paper!Replay

LEMMA ChainInvInit == Paper!Init => ChainInv
<1> SUFFICES ASSUME Paper!Init, NEW a \in Accounts PROVE CausedByTheNext(a) /\ OneCauseEach(a)
  BY DEF ChainInv
<1>1. /\ account[a] = None
      /\ \A k \in OrderKeys : byKey[a][k] = None
      /\ \A s \in Paper!Snapshot : refreshes[a][s] = None
  BY DEF Paper!Init
<1>2. \A v \in Paper!Versions : Paper!Causes(a, v) = {}
  BY <1>1, PaperAssumption DEF Paper!Causes, Paper!Versions
<1> QED BY <1>1, <1>2 DEF CausedByTheNext, OneCauseEach

(* Each state of an account after the first has exactly one cause, which   *)
(* was planned on the state just before it.                                *)
THEOREM PaperEveryVersionHasOneCause == Paper!Spec => []Paper!EveryVersionHasOneCause
BY ChainInvInit, ChainInvStep, PaperTypeOK, ChainInvSuffices, PTL DEF Paper!Spec

-----------------------------------------------------------------------------
(* The order path.                                                         *)

CallersTypeOK ==
  /\ caller \in [Callers -> CallerState]
  /\ \A t \in Callers : ~At(t, "idle") => caller[t].order # None

RefreshersTypeOK ==
  /\ refresher \in [Refreshers -> RefresherState]
  /\ \A r \in Refreshers : refresher[r].pc # "idle" =>
       refresher[r].account # None /\ refresher[r].snapshot # None

AnsweredTypeOK == answered \in SUBSET [order : Submittable, says : {"receipt", "blocked"}]

-----------------------------------------------------------------------------
(* The order of a busy caller is a submittable order.                      *)
LEMMA BusyOrder ==
  ASSUME CallersTypeOK, NEW t \in Callers, ~At(t, "idle")
  PROVE  /\ caller[t].order \in Submittable /\ caller[t].order \in Order
         /\ caller[t].order.account \in Accounts
         /\ caller[t].order.key \in OrderKeys
         /\ caller[t].order.batch \in Batches
         /\ caller[t].order.expects \in Versions
BY DEF CallersTypeOK, CallerState, Submittable, Order

(* Moving one caller keeps the callers typed.                              *)
LEMMA GotoType ==
  ASSUME CallersTypeOK, NEW t \in Callers, ~At(t, "idle"),
         NEW pc \in {"lookup", "gate", "recheck", "load", "commit", "leave", "resolve"},
         NEW says \in {"none", "receipt", "blocked", "failed"},
         NEW at \in Time,
         caller' = [caller EXCEPT ![t] = [caller[t] EXCEPT !.pc = pc, !.at = at, !.says = says]]
  PROVE  CallersTypeOK'
<1>1. caller[t] \in CallerState
  BY DEF CallersTypeOK
<1>2. [caller[t] EXCEPT !.pc = pc, !.at = at, !.says = says] \in CallerState
  BY <1>1 DEF CallerState
<1>3. caller' \in [Callers -> CallerState]
  BY <1>2 DEF CallersTypeOK
<1>4. \A u \in Callers : ~(caller'[u].pc = "idle") => caller'[u].order # None
  BY <1>1 DEF CallersTypeOK, CallerState, At
<1> QED BY <1>3, <1>4 DEF CallersTypeOK, At

LEMMA GotoTypes ==
  ASSUME CallersTypeOK, NEW t \in Callers, ~At(t, "idle"),
         NEW pc \in {"lookup", "gate", "recheck", "load", "commit", "leave", "resolve"},
         \/ Goto(t, pc)
         \/ \E says \in {"none", "receipt", "blocked", "failed"} : GotoSaying(t, pc, says)
  PROVE  CallersTypeOK'
<1>1. caller[t] \in CallerState
  BY DEF CallersTypeOK
<1>2. caller[t].at \in Time /\ caller[t].says \in {"none", "receipt", "blocked", "failed"}
  BY <1>1 DEF CallerState
<1>3. CASE Goto(t, pc)
  <2>1. caller' = [caller EXCEPT ![t] =
                     [caller[t] EXCEPT !.pc = pc, !.at = caller[t].at, !.says = caller[t].says]]
    BY <1>1, <1>3 DEF Goto, CallersTypeOK, CallerState
  <2> QED BY <1>2, <2>1, GotoType
<1>4. ASSUME NEW says \in {"none", "receipt", "blocked", "failed"}, GotoSaying(t, pc, says)
      PROVE  CallersTypeOK'
  <2>1. caller' = [caller EXCEPT ![t] =
                     [caller[t] EXCEPT !.pc = pc, !.at = caller[t].at, !.says = says]]
    BY <1>1, <1>4 DEF GotoSaying, CallersTypeOK, CallerState
  <2> QED BY <1>2, <2>1, GotoType
<1> QED BY <1>3, <1>4

(* Making a caller idle keeps the callers typed.                           *)
LEMMA IdleType ==
  ASSUME CallersTypeOK, NEW t \in Callers, caller' = [caller EXCEPT ![t] = IdleCaller]
  PROVE  CallersTypeOK'
<1>1. IdleCaller \in CallerState
  BY PaperOrdersAssumption DEF IdleCaller, CallerState, Time
<1> QED BY <1>1 DEF CallersTypeOK, At, IdleCaller

LEMMA FinishType ==
  ASSUME CallersTypeOK, AnsweredTypeOK, NEW t \in Callers, ~At(t, "idle"),
         NEW says \in {"none", "receipt", "blocked", "failed"}, Finish(t, says)
  PROVE  CallersTypeOK' /\ AnsweredTypeOK'
<1>1. CallersTypeOK'
  BY IdleType DEF Finish
<1>2. AnsweredTypeOK'
  <2>1. CASE says \in {"receipt", "blocked"}
    <3>1. [order |-> caller[t].order, says |-> says]
            \in [order : Submittable, says : {"receipt", "blocked"}]
      BY <2>1, BusyOrder
    <3> QED BY <2>1, <3>1 DEF Finish, AnsweredTypeOK
  <2>2. CASE says \notin {"receipt", "blocked"}
    BY <2>2 DEF Finish, AnsweredTypeOK
  <2> QED BY <2>1, <2>2
<1> QED BY <1>1, <1>2

-----------------------------------------------------------------------------
(* No step of the gate breaks its type invariant.                          *)
LEMMA GateTypeStep == GateTypeOK /\ [Gate!Next]_gateVars => GateTypeOK'
<1> SUFFICES ASSUME GateTypeOK, [Gate!Next]_gateVars PROVE GateTypeOK'
  OBVIOUS
<1> USE Vocabulary
<1>0. clock \in Int /\ MaxTime \in Nat
  BY PaperOrdersAssumption DEF GateTypeOK, Time
<1>1. CASE Gate!Tick
  BY <1>0, <1>1 DEF Gate!Tick, GateTypeOK, Time
<1>2. ASSUME NEW s \in Scopes, NEW active \in BOOLEAN, NEW at \in 0..clock,
             Gate!SetSwitch(s, active, at)
      PROVE  GateTypeOK'
  <2>1. [active |-> active, changedAt |-> at] \in Gate!Switch
    BY <1>0 DEF Gate!Switch, GateTypeOK, Time
  <2> QED BY <1>2, <2>1 DEF Gate!SetSwitch, GateTypeOK
<1>3. CASE Gate!SwitchNext
  <2>1. PICK s \in Scopes : Gate!Install(s) \/ Gate!TurnOn(s) \/ Gate!TurnOff(s)
    BY <1>3 DEF Gate!SwitchNext
  <2>2. CASE Gate!Install(s)
    BY <1>2, <2>2 DEF Gate!Install
  <2>3. CASE Gate!TurnOn(s)
    BY <1>2, <2>3 DEF Gate!TurnOn
  <2>4. CASE Gate!TurnOff(s)
    <3>1. PICK moment \in 0..clock : moment = clock
      BY <1>0 DEF GateTypeOK, Time
    <3>2. Gate!SetSwitch(s, FALSE, moment)
      BY <2>4, <3>1 DEF Gate!TurnOff, Gate!SetSwitch
    <3> QED BY <1>2, <3>2
  <2> QED BY <2>1, <2>2, <2>3, <2>4
<1>4. ASSUME NEW order \in Order, NEW at \in Time, Gate!Block(order, at) PROVE GateTypeOK'
  BY <1>4 DEF Gate!Block, GateTypeOK, Order
<1>5. ASSUME NEW order \in Order, NEW at \in Time, Gate!Enter(order, at) PROVE GateTypeOK'
  BY <1>5 DEF Gate!Enter, GateTypeOK, Order
<1>6. CASE Gate!Exit
  BY <1>6 DEF Gate!Exit, GateTypeOK
<1>7. CASE Gate!Lose
  BY <1>7 DEF Gate!Lose, GateTypeOK, Order
<1>8. CASE UNCHANGED gateVars
  BY <1>8 DEF gateVars, GateTypeOK
<1> QED BY <1>1, <1>3, <1>4, <1>5, <1>6, <1>7, <1>8 DEF Gate!Next

-----------------------------------------------------------------------------
(* Every step of the order path is a step of the gate, and a step of the   *)
(* paper store, or leaves them alone.                                      *)
LEMMA GateSteps ==
  ASSUME CallersTypeOK, [Next]_vars
  PROVE  [Gate!Next]_gateVars
<1> USE Vocabulary
<1>1. ASSUME NEW t \in Callers, ~At(t, "idle")
      PROVE  caller[t].order \in Order /\ caller[t].at \in Time
  BY <1>1, BusyOrder DEF CallersTypeOK, CallerState
<1>2. CASE SwitchesMove
  BY <1>2 DEF SwitchesMove, Gate!Next
<1>3. ASSUME NEW t \in Callers, At(t, "gate"),
             \/ Gate!Enter(caller[t].order, caller[t].at)
             \/ Gate!Block(caller[t].order, caller[t].at)
      PROVE  Gate!Next
  <2>1. caller[t].order \in Order /\ caller[t].at \in Time
    BY <1>1, <1>3 DEF At
  <2> QED BY <1>3, <2>1 DEF Gate!Next
<1>4. ASSUME NEW t \in Callers, Progress(t) PROVE [Gate!Next]_gateVars
  <2>1. CASE EnterGate(t) \/ BlockAtGate(t)
    BY <1>3, <2>1 DEF EnterGate, BlockAtGate
  <2>2. CASE Leave(t)
    BY <2>2 DEF Leave, Gate!Next
  <2>3. CASE LeaveFails(t)
    BY <2>3 DEF LeaveFails, Gate!Next
  <2>4. CASE Lookup(t) \/ BlockedBefore(t) \/ GateFails(t) \/ Recheck(t) \/ Load(t)
               \/ Commit(t) \/ CommitRefused(t) \/ Resolve(t)
    BY <2>4 DEF Lookup, BlockedBefore, GateFails, Recheck, Load, Commit, CommitRefused, Resolve
  <2> QED BY <1>4, <2>1, <2>2, <2>3, <2>4 DEF Progress, AtGate
<1>5. ASSUME NEW t \in Callers, Crash(t) PROVE [Gate!Next]_gateVars
  BY <1>5 DEF Crash, Gate!Next
<1>6. ASSUME NEW r \in Refreshers, Refresh(r) PROVE UNCHANGED gateVars
  BY <1>6 DEF Refresh, StartRefresh, RefreshLookup, RefreshCommit, RefreshCommitReplays,
              RefreshReturn
<1> QED BY <1>2, <1>4, <1>5, <1>6 DEF Next, vars, gateVars, OpenAccount, Submit

LEMMA PaperSteps ==
  ASSUME CallersTypeOK, RefreshersTypeOK, [Next]_vars
  PROVE  [Paper!Next]_paperVars
<1> USE Vocabulary
<1>1. ASSUME NEW t \in Callers, Commit(t) PROVE Paper!Next
  <2>1. caller[t].order \in Order
    BY <1>1, BusyOrder DEF Commit, At
  <2>2. Paper!CommitExecution(caller[t].order)
    BY <1>1 DEF Commit
  <2> QED BY <2>1, <2>2 DEF Paper!Next
<1>2. ASSUME NEW r \in Refreshers, RefreshCommit(r) PROVE Paper!Next
  <2>1. /\ refresher[r].account \in Accounts
        /\ refresher[r].snapshot \in Paper!Snapshot
        /\ refresher[r].version \in Versions
    BY <1>2 DEF RefreshCommit, RefreshersTypeOK, RefresherState
  <2>2. Paper!CommitRefresh(refresher[r].account, refresher[r].snapshot, refresher[r].version)
    BY <1>2 DEF RefreshCommit
  <2> QED BY <2>1, <2>2 DEF Paper!Next
<1>3. ASSUME NEW a \in Accounts, OpenAccount(a) PROVE Paper!Next
  BY <1>3 DEF OpenAccount, Paper!Next
<1>4. ASSUME NEW t \in Callers, Progress(t), ~Commit(t) PROVE UNCHANGED paperVars
  BY <1>4 DEF Progress, AtGate, Lookup, EnterGate, BlockAtGate, BlockedBefore, GateFails,
              Recheck, Load, CommitRefused, Leave, LeaveFails, Resolve
<1>5. ASSUME NEW r \in Refreshers, Refresh(r), ~RefreshCommit(r) PROVE UNCHANGED paperVars
  BY <1>5 DEF Refresh, StartRefresh, RefreshLookup, RefreshCommitReplays, RefreshReturn
<1> QED BY <1>1, <1>2, <1>3, <1>4, <1>5 DEF Next, vars, paperVars, SwitchesMove, Submit, Crash

(* Callers, refreshers and answers keep their shape.                       *)
LEMMA CallersTypeStep ==
  ASSUME TypeOK, [Next]_vars
  PROVE  CallersTypeOK' /\ AnsweredTypeOK'
<1>0. CallersTypeOK /\ AnsweredTypeOK /\ clock \in Time
  BY DEF TypeOK, CallersTypeOK, AnsweredTypeOK, GateTypeOK
<1>1. ASSUME UNCHANGED <<caller, answered>> PROVE CallersTypeOK' /\ AnsweredTypeOK'
  BY <1>0, <1>1 DEF CallersTypeOK, AnsweredTypeOK, At
<1>2. ASSUME NEW t \in Callers, ~At(t, "idle"), UNCHANGED answered,
             NEW pc \in {"lookup", "gate", "recheck", "load", "commit", "leave", "resolve"},
             \/ Goto(t, pc)
             \/ \E says \in {"none", "receipt", "blocked", "failed"} : GotoSaying(t, pc, says)
      PROVE  CallersTypeOK' /\ AnsweredTypeOK'
  BY <1>0, <1>2, GotoTypes DEF AnsweredTypeOK
<1>3. ASSUME NEW t \in Callers, ~At(t, "idle"),
             NEW says \in {"none", "receipt", "blocked", "failed"}, Finish(t, says)
      PROVE  CallersTypeOK' /\ AnsweredTypeOK'
  BY <1>0, <1>3, FinishType
<1>4. ASSUME NEW t \in Callers, NEW order \in Submittable, Submit(t, order)
      PROVE  CallersTypeOK' /\ AnsweredTypeOK'
  <2>1. order # None
    BY OrderAdmissionAssumption DEF Submittable
  <2> DEFINE next == [pc |-> "lookup", order |-> order, at |-> 0, says |-> "none"]
  <2>2. next \in CallerState
    BY PaperOrdersAssumption DEF CallerState, Time
  <2>3. caller' = [caller EXCEPT ![t] = next] /\ answered' = answered
    BY <1>4 DEF Submit
  <2>4. CallersTypeOK'
    <3>1. next.order # None
      BY <2>1
    <3> HIDE DEF next
    <3> QED BY <1>0, <2>2, <2>3, <3>1 DEF CallersTypeOK, At
  <2> QED BY <1>0, <2>3, <2>4 DEF AnsweredTypeOK
<1>5. ASSUME NEW t \in Callers, Lookup(t) PROVE CallersTypeOK' /\ AnsweredTypeOK'
  <2>1. ~At(t, "idle")
    BY <1>5 DEF Lookup, At
  <2>2. caller[t] \in CallerState
    BY <1>0 DEF CallersTypeOK
  <2>3. CASE /\ caller' = [caller EXCEPT ![t].pc = "gate", ![t].at = clock]
             /\ UNCHANGED answered
    <3>0. PICK moment \in Time : moment = clock
      BY <1>0
    <3>1. caller' = [caller EXCEPT ![t] =
                       [caller[t] EXCEPT !.pc = "gate", !.at = moment, !.says = caller[t].says]]
      BY <1>0, <2>2, <2>3, <3>0 DEF CallersTypeOK, CallerState
    <3>2. caller[t].says \in {"none", "receipt", "blocked", "failed"}
      BY <2>2 DEF CallerState
    <3>3. PICK says \in {"none", "receipt", "blocked", "failed"} : says = caller[t].says
      BY <3>2
    <3>4. CallersTypeOK'
      BY <1>0, <2>1, <3>1, <3>3, GotoType
    <3> QED BY <1>0, <2>3, <3>4 DEF AnsweredTypeOK
  <2>4. CASE Finish(t, "receipt") \/ Finish(t, "failed")
    BY <1>3, <2>1, <2>4
  <2> QED BY <1>5, <2>3, <2>4 DEF Lookup
<1>6. ASSUME NEW t \in Callers, AtGate(t) PROVE CallersTypeOK' /\ AnsweredTypeOK'
  BY <1>2, <1>6 DEF AtGate, EnterGate, BlockAtGate, BlockedBefore, GateFails, At
<1>7. ASSUME NEW t \in Callers, Recheck(t) \/ Load(t) \/ Commit(t) \/ CommitRefused(t)
      PROVE  CallersTypeOK' /\ AnsweredTypeOK'
  BY <1>2, <1>7 DEF Recheck, Load, Commit, CommitRefused, At
<1>8. ASSUME NEW t \in Callers, Leave(t) \/ LeaveFails(t) PROVE CallersTypeOK' /\ AnsweredTypeOK'
  <2>1. CASE Leave(t)
    BY <1>2, <1>3, <2>1 DEF Leave, At
  <2>2. CASE LeaveFails(t)
    BY <1>2, <2>2 DEF LeaveFails, At
  <2> QED BY <1>8, <2>1, <2>2
<1>9. ASSUME NEW t \in Callers, Resolve(t) PROVE CallersTypeOK' /\ AnsweredTypeOK'
  <2>1. caller[t].says \in {"none", "receipt", "blocked", "failed"} /\ ~At(t, "idle")
    BY <1>0, <1>9 DEF CallersTypeOK, CallerState, Resolve, At
  <2> QED BY <1>3, <1>9, <2>1 DEF Resolve
<1>10. ASSUME NEW t \in Callers, Crash(t) PROVE CallersTypeOK' /\ AnsweredTypeOK'
  BY <1>0, <1>10, IdleType DEF Crash, AnsweredTypeOK
<1>11. ASSUME NEW r \in Refreshers, Refresh(r) PROVE UNCHANGED <<caller, answered>>
  BY <1>11 DEF Refresh, StartRefresh, RefreshLookup, RefreshCommit, RefreshCommitReplays,
               RefreshReturn
<1> QED BY <1>1, <1>4, <1>5, <1>6, <1>7, <1>8, <1>9, <1>10, <1>11
        DEF Next, Progress, vars, SwitchesMove, OpenAccount

LEMMA RefreshersTypeStep ==
  ASSUME TypeOK, [Next]_vars
  PROVE  RefreshersTypeOK'
<1>0. RefreshersTypeOK
  BY DEF TypeOK, RefreshersTypeOK
<1>1. ASSUME UNCHANGED refresher PROVE RefreshersTypeOK'
  BY <1>0, <1>1 DEF RefreshersTypeOK
<1>2. ASSUME NEW r \in Refreshers, NEW next \in RefresherState,
             refresher' = [refresher EXCEPT ![r] = next],
             next.pc # "idle" => next.account # None /\ next.snapshot # None
      PROVE  RefreshersTypeOK'
  BY <1>0, <1>2 DEF RefreshersTypeOK
<1>3. IdleRefresher \in RefresherState /\ IdleRefresher.pc = "idle"
  BY PaperOrdersAssumption DEF IdleRefresher, RefresherState, Versions
<1>4. ASSUME NEW r \in Refreshers, refresher[r].pc # "idle",
             NEW pc \in {"commit", "done"}, NEW version \in Versions,
             refresher' = [refresher EXCEPT ![r] = [refresher[r] EXCEPT !.pc = pc, !.version = version]]
      PROVE  RefreshersTypeOK'
  <2>1. /\ refresher[r] \in RefresherState
        /\ refresher[r].account # None /\ refresher[r].snapshot # None
    BY <1>0, <1>4 DEF RefreshersTypeOK
  <2>2. [refresher[r] EXCEPT !.pc = pc, !.version = version] \in RefresherState
    BY <2>1 DEF RefresherState
  <2> QED BY <1>2, <1>4, <2>1, <2>2 DEF RefresherState
<1>5. ASSUME NEW r \in Refreshers, refresher[r].pc # "idle", NEW pc \in {"commit", "done"},
             refresher' = [refresher EXCEPT ![r].pc = pc]
      PROVE  RefreshersTypeOK'
  <2>1. refresher[r] \in RefresherState
    BY <1>0 DEF RefreshersTypeOK
  <2>2. [refresher[r] EXCEPT !.pc = pc]
          = [refresher[r] EXCEPT !.pc = pc, !.version = refresher[r].version]
    BY <2>1 DEF RefresherState
  <2> QED BY <1>0, <1>4, <1>5, <2>1, <2>2 DEF RefresherState, RefreshersTypeOK
<1>6. ASSUME NEW r \in Refreshers, refresher' = [refresher EXCEPT ![r] = IdleRefresher]
      PROVE  RefreshersTypeOK'
  BY <1>2, <1>3, <1>6
<1>7. ASSUME NEW r \in Refreshers, NEW a \in Accounts, NEW s \in Paper!Snapshot,
             StartRefresh(r, a, s)
      PROVE  RefreshersTypeOK'
  <2>1. account[a] \in Paper!Account
    BY <1>7 DEF StartRefresh, TypeOK, Paper!TypeOK
  <2> DEFINE next == [pc |-> "lookup", account |-> a, snapshot |-> s, version |-> account[a].version]
  <2>2. next \in RefresherState
    BY <2>1, Vocabulary DEF RefresherState, Paper!Account
  <2>3. a # None /\ s # None
    BY OrderAdmissionAssumption
  <2> QED BY <1>2, <1>7, <2>2, <2>3 DEF StartRefresh
<1>8. ASSUME NEW r \in Refreshers, RefreshLookup(r) PROVE RefreshersTypeOK'
  <2>1. refresher[r].pc # "idle"
    BY <1>8 DEF RefreshLookup
  <2>2. \/ refresher' = [refresher EXCEPT ![r].pc = "done"]
        \/ refresher' = [refresher EXCEPT ![r].pc = "commit"]
        \/ refresher' = [refresher EXCEPT ![r] = IdleRefresher]
    BY <1>8 DEF RefreshLookup
  <2> QED BY <1>5, <1>6, <2>1, <2>2
<1>9. ASSUME NEW r \in Refreshers, RefreshCommit(r) PROVE RefreshersTypeOK'
  <2>1. refresher[r] \in RefresherState /\ refresher[r].pc # "idle"
    BY <1>0, <1>9 DEF RefreshCommit, RefreshersTypeOK
  <2>2. refresher[r].version + 1 \in Versions
    BY <1>9, <2>1, PaperOrdersAssumption
       DEF RefreshCommit, Paper!CommitRefresh, RefresherState, Versions
  <2>3. refresher' = [refresher EXCEPT ![r] =
                        [refresher[r] EXCEPT !.pc = "done", !.version = refresher[r].version + 1]]
    BY <1>0, <1>9, <2>1 DEF RefreshCommit, RefreshersTypeOK, RefresherState
  <2> QED BY <1>4, <2>1, <2>2, <2>3
<1>10. ASSUME NEW r \in Refreshers, RefreshCommitReplays(r) PROVE RefreshersTypeOK'
  <2>1. CASE /\ Committed(r) # None
             /\ refresher' = [refresher EXCEPT ![r].pc = "done", ![r].version = Committed(r)]
    <3>1. /\ refresher[r] \in RefresherState /\ refresher[r].pc = "commit"
          /\ refresher[r].account # None /\ refresher[r].snapshot # None
      BY <1>0, <1>10 DEF RefreshCommitReplays, RefreshersTypeOK
    <3>2. refresher[r].account \in Accounts /\ refresher[r].snapshot \in Paper!Snapshot
      BY <3>1 DEF RefresherState
    <3>3. Committed(r) \in Versions
      BY <2>1, <3>2, Vocabulary DEF Committed, TypeOK, Paper!TypeOK
    <3>4. refresher' = [refresher EXCEPT ![r] =
                          [refresher[r] EXCEPT !.pc = "done", !.version = Committed(r)]]
      BY <1>0, <2>1, <3>1 DEF RefreshersTypeOK, RefresherState
    <3> QED BY <1>4, <3>1, <3>3, <3>4
  <2>2. CASE refresher' = [refresher EXCEPT ![r] = IdleRefresher]
    BY <1>6, <2>2
  <2> QED BY <1>10, <2>1, <2>2 DEF RefreshCommitReplays
<1>11. ASSUME NEW r \in Refreshers, RefreshReturn(r) PROVE RefreshersTypeOK'
  BY <1>6, <1>11 DEF RefreshReturn
<1>12. ASSUME NEW t \in Callers, Progress(t) PROVE UNCHANGED refresher
  BY <1>12 DEF Progress, AtGate, Lookup, EnterGate, BlockAtGate, BlockedBefore, GateFails,
               Recheck, Load, Commit, CommitRefused, Leave, LeaveFails, Resolve
<1> QED BY <1>1, <1>7, <1>8, <1>9, <1>10, <1>11, <1>12
        DEF Next, Refresh, Refreshable, vars, SwitchesMove, OpenAccount, Submit, Crash

(* The type invariant of every reachable state of the order path.          *)
THEOREM AdmissionTypeOK == Spec => []TypeOK
<1>1. Init => TypeOK
  <2> SUFFICES ASSUME Init PROVE TypeOK
    OBVIOUS
  <2>1. GateTypeOK
    BY PaperOrdersAssumption, Vocabulary DEF Init, Gate!Init, GateTypeOK, Time
  <2>2. Paper!TypeOK
    BY DEF Init, Paper!Init, Paper!TypeOK
  <2>3. CallersTypeOK
    <3>1. IdleCaller \in CallerState /\ IdleCaller.pc = "idle"
      BY PaperOrdersAssumption DEF IdleCaller, CallerState, Time
    <3> QED BY <3>1 DEF Init, CallersTypeOK, At
  <2>4. RefreshersTypeOK
    <3>1. IdleRefresher \in RefresherState /\ IdleRefresher.pc = "idle"
      BY PaperOrdersAssumption DEF IdleRefresher, RefresherState, Versions
    <3> QED BY <3>1 DEF Init, RefreshersTypeOK
  <2>5. AnsweredTypeOK
    BY DEF Init, AnsweredTypeOK
  <2> QED BY <2>1, <2>2, <2>3, <2>4, <2>5
          DEF TypeOK, CallersTypeOK, RefreshersTypeOK, AnsweredTypeOK
<1>2. TypeOK /\ [Next]_vars => TypeOK'
  <2> SUFFICES ASSUME TypeOK, [Next]_vars PROVE TypeOK'
    OBVIOUS
  <2>0. CallersTypeOK /\ RefreshersTypeOK /\ GateTypeOK /\ Paper!TypeOK
    BY DEF TypeOK, CallersTypeOK, RefreshersTypeOK
  <2>1. GateTypeOK'
    BY <2>0, GateSteps, GateTypeStep
  <2>2. Paper!TypeOK'
    <3>1. [Paper!Next]_(Paper!paperVars)
      BY <2>0, PaperSteps DEF paperVars, Paper!paperVars
    <3>2. Paper!TypeOK'
      BY <2>0, <3>1, PaperTypeStep
    <3> QED BY <3>2
  <2>3. CallersTypeOK' /\ AnsweredTypeOK'
    BY CallersTypeStep
  <2>4. RefreshersTypeOK'
    BY RefreshersTypeStep
  <2> QED BY <2>1, <2>2, <2>3, <2>4
          DEF TypeOK, CallersTypeOK, RefreshersTypeOK, AnsweredTypeOK
<1> QED BY <1>1, <1>2, PTL DEF Spec

-----------------------------------------------------------------------------
(* GuardHasOneHolder in three parts; with the type invariant they are      *)
(* inductive.  A caller that enters finds the gate empty, so no one holds  *)
(* it; a caller that leaves, fails or dies empties it; switches and blocks *)
(* wait until it is empty.                                                 *)
HoldersGuard == \A t \in Callers : Holding(t) => guard # None /\ guard.order = caller[t].order
OneHolder == \A t, u \in Callers : Holding(t) /\ Holding(u) => t = u
GuardIsHeld == guard # None => \E t \in Callers : Holding(t)
GuardIsSafe ==
  guard # None =>
    /\ ~blocked[guard.order.account][guard.order.key]
    /\ \A s \in {Global, guard.order.account} : sw[s] # None /\ ~sw[s].active

HolderInv == HoldersGuard /\ OneHolder /\ GuardIsHeld /\ GuardIsSafe

LEMMA HolderInvIsGuardHasOneHolder == HolderInv <=> GuardHasOneHolder
BY DEF HolderInv, HoldersGuard, OneHolder, GuardIsHeld, GuardIsSafe, GuardHasOneHolder

(* A step that changes neither the guard nor who holds it keeps the parts. *)
LEMMA SameHolders ==
  ASSUME HolderInv, UNCHANGED <<guard, sw, blocked>>,
         \A t \in Callers : Holding(t)' = Holding(t),
         \A t \in Callers : Holding(t) => caller'[t].order = caller[t].order
  PROVE  HolderInv'
BY DEF HolderInv, HoldersGuard, OneHolder, GuardIsHeld, GuardIsSafe

(* So does a step that empties the gate, if its holder lets go.            *)
LEMMA EmptyGate ==
  ASSUME HolderInv, NEW t \in Callers, Holding(t), guard' = None,
         caller' \in [Callers -> CallerState],
         caller'[t].pc \in {"idle", "resolve"},
         \A u \in Callers : u # t => caller'[u] = caller[u]
  PROVE  HolderInv'
<1>1. \A u \in Callers : ~(caller'[u].pc \in {"recheck", "load", "commit", "leave"})
  BY DEF HolderInv, OneHolder, Holding
<1> QED BY <1>1 DEF HolderInv, HoldersGuard, OneHolder, GuardIsHeld, GuardIsSafe, Holding

(* While the gate is empty no one holds it, and only entering it changes   *)
(* that; switches and blocks may change freely.                            *)
LEMMA GateStaysEmpty ==
  ASSUME HolderInv, guard = None, guard' = None,
         \A t \in Callers : caller'[t] = caller[t] \/ ~(Holding(t)')
  PROVE  HolderInv'
<1>1. \A t \in Callers : ~Holding(t)
  BY DEF HolderInv, HoldersGuard
<1>2. \A t \in Callers : ~(Holding(t)')
  BY <1>1 DEF Holding
<1> QED BY <1>2 DEF HolderInv, HoldersGuard, OneHolder, GuardIsHeld, GuardIsSafe

(* Where a caller is after a step of its own; the others have not moved.   *)
LEMMA Moved ==
  ASSUME caller \in [Callers -> CallerState], NEW t \in Callers, NEW pc,
         Goto(t, pc) \/ \E says \in {"none", "receipt", "blocked", "failed"} : GotoSaying(t, pc, says)
  PROVE  /\ caller'[t].pc = pc /\ caller'[t].order = caller[t].order
         /\ \A u \in Callers : u # t => caller'[u] = caller[u]
<1>1. CASE Goto(t, pc)
  BY <1>1 DEF Goto, CallerState
<1>2. ASSUME NEW says, GotoSaying(t, pc, says)
      PROVE  /\ caller'[t].pc = pc /\ caller'[t].order = caller[t].order
             /\ \A u \in Callers : u # t => caller'[u] = caller[u]
  BY <1>2 DEF GotoSaying, CallerState
<1> QED BY <1>1, <1>2

LEMMA Finished ==
  ASSUME caller \in [Callers -> CallerState], NEW t \in Callers, NEW says, Finish(t, says)
  PROVE  caller'[t].pc = "idle" /\ \A u \in Callers : u # t => caller'[u] = caller[u]
BY DEF Finish, IdleCaller

LEMMA HolderStep ==
  ASSUME TypeOK, HolderInv, [Next]_vars
  PROVE  HolderInv'
<1> USE Vocabulary
<1>0. /\ CallersTypeOK /\ GateTypeOK
      /\ caller \in [Callers -> CallerState]
      /\ caller' \in [Callers -> CallerState]
  BY CallersTypeStep DEF TypeOK, CallersTypeOK
<1>1. ASSUME UNCHANGED <<caller, guard, sw, blocked>> PROVE HolderInv'
  BY <1>1, SameHolders DEF Holding
<1>2. CASE SwitchesMove
  <2>1. CASE Gate!Tick
    BY <1>1, <1>2, <2>1 DEF SwitchesMove, Gate!Tick
  <2>2. CASE Gate!SwitchNext
    <3>1. guard = None /\ guard' = None
      BY <2>2 DEF Gate!SwitchNext, Gate!Install, Gate!TurnOn, Gate!TurnOff, Gate!SetSwitch
    <3> QED BY <1>2, <3>1, GateStaysEmpty DEF SwitchesMove
  <2> QED BY <1>2, <2>1, <2>2 DEF SwitchesMove
(* A caller outside the gate moves to another place outside it.            *)
<1>3. ASSUME NEW t \in Callers, ~Holding(t), UNCHANGED <<guard, sw, blocked>>,
             ~(Holding(t)'), \A u \in Callers : u # t => caller'[u] = caller[u]
      PROVE  HolderInv'
  <2>1. \A u \in Callers : Holding(u)' = Holding(u)
    BY <1>3 DEF Holding
  <2>2. \A u \in Callers : Holding(u) => caller'[u].order = caller[u].order
    BY <1>3 DEF Holding
  <2> QED BY <1>3, <2>1, <2>2, SameHolders
(* A caller inside the gate stays inside it, with its order.               *)
<1>4. ASSUME NEW t \in Callers, Holding(t), UNCHANGED <<guard, sw, blocked>>,
             Holding(t)', caller'[t].order = caller[t].order,
             \A u \in Callers : u # t => caller'[u] = caller[u]
      PROVE  HolderInv'
  <2>1. \A u \in Callers : Holding(u)' = Holding(u)
    BY <1>4 DEF Holding
  <2>2. \A u \in Callers : Holding(u) => caller'[u].order = caller[u].order
    BY <1>4 DEF Holding
  <2> QED BY <1>4, <2>1, <2>2, SameHolders
<1>5. ASSUME NEW t \in Callers, NEW order \in Submittable, Submit(t, order) PROVE HolderInv'
  BY <1>0, <1>3, <1>5 DEF Submit, At, Holding, gateVars
<1>6. ASSUME NEW t \in Callers, Lookup(t) PROVE HolderInv'
  <2>1. CASE Finish(t, "receipt") \/ Finish(t, "failed")
    BY <1>0, <1>3, <1>6, <2>1, Finished DEF Lookup, At, Holding, gateVars
  <2>2. CASE caller' = [caller EXCEPT ![t].pc = "gate", ![t].at = clock]
    <3>1. caller'[t].pc = "gate" /\ \A u \in Callers : u # t => caller'[u] = caller[u]
      BY <1>0, <2>2 DEF CallerState
    <3> QED BY <1>3, <1>6, <3>1 DEF Lookup, At, Holding, gateVars
  <2> QED BY <1>6, <2>1, <2>2 DEF Lookup
<1>7. ASSUME NEW t \in Callers, BlockedBefore(t) \/ GateFails(t) PROVE HolderInv'
  <2>1. GotoSaying(t, "resolve", "blocked") \/ GotoSaying(t, "resolve", "failed")
    BY <1>7 DEF BlockedBefore, GateFails
  <2>2. caller'[t].pc = "resolve" /\ \A u \in Callers : u # t => caller'[u] = caller[u]
    BY <1>0, <2>1, Moved
  <2> QED BY <1>3, <1>7, <2>2 DEF BlockedBefore, GateFails, At, Holding, gateVars
<1>8. ASSUME NEW t \in Callers, Resolve(t) PROVE HolderInv'
  <2>1. \E says : Finish(t, says)
    BY <1>8 DEF Resolve
  <2>2. caller'[t].pc = "idle" /\ \A u \in Callers : u # t => caller'[u] = caller[u]
    BY <1>0, <2>1, Finished
  <2> QED BY <1>3, <1>8, <2>2 DEF Resolve, At, Holding, gateVars
<1>9. ASSUME NEW t \in Callers, Recheck(t) \/ Load(t) PROVE HolderInv'
  <2>1. PICK pc \in {"load", "commit", "leave"} :
          Goto(t, pc) \/ \E says \in {"none", "receipt", "blocked", "failed"} : GotoSaying(t, pc, says)
    BY <1>9 DEF Recheck, Load
  <2>2. /\ caller'[t].pc = pc /\ caller'[t].order = caller[t].order
        /\ \A u \in Callers : u # t => caller'[u] = caller[u]
    BY <1>0, <2>1, Moved
  <2>3. Holding(t) /\ Holding(t)' /\ UNCHANGED gateVars
    BY <1>9, <2>1, <2>2 DEF Recheck, Load, At, Holding
  <2> QED BY <1>4, <2>2, <2>3 DEF gateVars
<1>10. ASSUME NEW t \in Callers, Commit(t) \/ CommitRefused(t) PROVE HolderInv'
  <2>1. \E says \in {"none", "receipt", "blocked", "failed"} : GotoSaying(t, "leave", says)
    BY <1>10 DEF Commit, CommitRefused
  <2>2. /\ caller'[t].pc = "leave" /\ caller'[t].order = caller[t].order
        /\ \A u \in Callers : u # t => caller'[u] = caller[u]
    BY <1>0, <2>1, Moved
  <2>3. Holding(t) /\ Holding(t)' /\ UNCHANGED gateVars
    BY <1>10, <2>2 DEF Commit, CommitRefused, At, Holding
  <2> QED BY <1>4, <2>2, <2>3 DEF gateVars
<1>11. ASSUME NEW t \in Callers, BlockAtGate(t) PROVE HolderInv'
  <2>1. guard = None /\ guard' = None
    BY <1>11 DEF BlockAtGate, Gate!Block, Gate!Undecided
  <2>2. \A u \in Callers : caller'[u] = caller[u] \/ ~(Holding(u)')
    BY <1>0, <1>11 DEF BlockAtGate, GotoSaying, Holding
  <2> QED BY <2>1, <2>2, GateStaysEmpty
<1>12. ASSUME NEW t \in Callers, EnterGate(t) PROVE HolderInv'
  <2> DEFINE order == caller[t].order
             next == [order |-> order, at |-> caller[t].at,
                      fresh |-> gateOf[order.account][order.key] = None]
  <2>1. /\ guard = None
        /\ guard' = next /\ sw' = sw /\ blocked' = blocked
        /\ ~blocked[order.account][order.key]
        /\ \A s \in {Global, order.account} : sw[s] # None /\ ~sw[s].active
    BY <1>12 DEF EnterGate, Gate!Enter, Gate!Undecided, Gate!Admits
  <2>2. guard'.order = order /\ guard' # None
    <3>1. caller[t].order \in Order /\ caller[t].at \in Time
      BY <1>0, <1>12, BusyOrder DEF EnterGate, At, CallerState
    <3>2. next \in [order : Order, at : Time, fresh : BOOLEAN]
      BY <3>1
    <3> QED BY <2>1, <3>2, OrderAdmissionAssumption
  <2> HIDE DEF next
  <2>3. \A u \in Callers : ~Holding(u)
    BY <2>1 DEF HolderInv, HoldersGuard
  <2>4. \A u \in Callers : u # t => caller'[u] = caller[u]
    BY <1>12 DEF EnterGate, Goto
  <2>5. caller'[t].order = order /\ caller'[t].pc = "recheck"
    BY <1>0, <1>12 DEF EnterGate, Goto, CallerState
  <2>6. \A u \in Callers : Holding(u)' <=> u = t
    BY <2>3, <2>4, <2>5 DEF Holding
  <2>7. HoldersGuard' /\ OneHolder' /\ GuardIsHeld'
    BY <2>2, <2>5, <2>6 DEF HoldersGuard, OneHolder, GuardIsHeld
  <2>8. GuardIsSafe'
    BY <2>1, <2>2 DEF GuardIsSafe
  <2> QED BY <2>7, <2>8 DEF HolderInv
<1>13. ASSUME NEW t \in Callers, Leave(t) \/ LeaveFails(t) PROVE HolderInv'
  <2>1. guard' = None /\ Holding(t)
    BY <1>13 DEF Leave, LeaveFails, Gate!Exit, Gate!Lose, Holding, At
  <2>2. caller'[t].pc \in {"idle", "resolve"} /\ \A u \in Callers : u # t => caller'[u] = caller[u]
    <3>1. \/ Finish(t, "receipt") \/ Goto(t, "resolve")
          \/ GotoSaying(t, "resolve", "failed")
      BY <1>13 DEF Leave, LeaveFails
    <3> QED BY <1>0, <3>1, Moved, Finished
  <2> QED BY <1>0, <2>1, <2>2, EmptyGate
<1>14. ASSUME NEW t \in Callers, Crash(t) PROVE HolderInv'
  <2>1. caller'[t].pc = "idle" /\ \A u \in Callers : u # t => caller'[u] = caller[u]
    BY <1>0, <1>14 DEF Crash, IdleCaller
  <2>2. CASE Holding(t)
    BY <1>0, <1>14, <2>1, <2>2, EmptyGate DEF Crash, Gate!Lose
  <2>3. CASE ~Holding(t)
    BY <1>3, <1>14, <2>1, <2>3 DEF Crash, Holding, gateVars
  <2> QED BY <2>2, <2>3
<1>15. ASSUME NEW r \in Refreshers, Refresh(r) PROVE HolderInv'
  BY <1>1, <1>15 DEF Refresh, StartRefresh, RefreshLookup, RefreshCommit, RefreshCommitReplays,
                     RefreshReturn, gateVars
<1>16. ASSUME NEW a \in Accounts, OpenAccount(a) PROVE HolderInv'
  BY <1>1, <1>16 DEF OpenAccount, gateVars
<1> QED BY <1>1, <1>2, <1>5, <1>6, <1>7, <1>8, <1>9, <1>10, <1>11, <1>12, <1>13, <1>14, <1>15, <1>16
        DEF Next, Progress, AtGate, vars

(* The gate is held by exactly one caller, for its own order, with both    *)
(* switches off and an unblocked key, through every error and crash.       *)
THEOREM AdmissionGuardHasOneHolder == Spec => []GuardHasOneHolder
<1>1. Init => HolderInv
  BY DEF Init, Gate!Init, IdleCaller, HolderInv, HoldersGuard, OneHolder, GuardIsHeld,
         GuardIsSafe, Holding
<1> QED BY <1>1, HolderStep, AdmissionTypeOK, HolderInvIsGuardHasOneHolder, PTL DEF Spec

-----------------------------------------------------------------------------
ExecutionIsAllowed ==
  \A a \in Accounts, k \in OrderKeys : byKey'[a][k] # byKey[a][k] =>
    /\ \A s \in {Global, a} : sw[s] # None /\ ~sw[s].active /\ sw'[s] = sw[s]
    /\ ~blocked[a][k]

(* No step of any caller executes an order unless both its switches are    *)
(* off in that very step and its key was never blocked.                    *)
THEOREM AdmissionNoOrderWhileStopped == Spec => NoOrderWhileStopped
<1>1. TypeOK /\ HolderInv /\ [Next]_vars => [ExecutionIsAllowed]_vars
  <2> SUFFICES ASSUME TypeOK, HolderInv, Next PROVE ExecutionIsAllowed
    OBVIOUS
  <2>0. CallersTypeOK /\ Paper!TypeOK
    BY DEF TypeOK, CallersTypeOK
  <2>1. ASSUME UNCHANGED byKey PROVE ExecutionIsAllowed
    BY <2>1 DEF ExecutionIsAllowed
  <2>2. ASSUME NEW t \in Callers, Commit(t) PROVE ExecutionIsAllowed
    <3> DEFINE order == caller[t].order
    <3>1. order.account \in Accounts /\ order.key \in OrderKeys
      BY <2>0, <2>2, BusyOrder DEF Commit, At
    <3>2. \A a \in Accounts, k \in OrderKeys :
            byKey'[a][k] # byKey[a][k] => a = order.account /\ k = order.key
      BY <2>0, <2>2, <3>1 DEF Commit, Paper!CommitExecution, Paper!TypeOK
    <3>3. guard # None /\ guard.order = order
      BY <2>2 DEF Commit, At, Holding, HolderInv, HoldersGuard
    <3>4. sw' = sw
      BY <2>2 DEF Commit, gateVars
    <3>5. /\ ~blocked[order.account][order.key]
          /\ \A s \in {Global, order.account} : sw[s] # None /\ ~sw[s].active
      BY <3>3 DEF HolderInv, GuardIsSafe
    <3> QED BY <3>2, <3>4, <3>5 DEF ExecutionIsAllowed
  <2>3. ASSUME NEW t \in Callers, Progress(t), ~Commit(t) PROVE UNCHANGED byKey
    BY <2>3 DEF Progress, AtGate, Lookup, EnterGate, BlockAtGate, BlockedBefore, GateFails,
                Recheck, Load, CommitRefused, Leave, LeaveFails, Resolve, paperVars
  <2>4. ASSUME NEW r \in Refreshers, Refresh(r) PROVE UNCHANGED byKey
    BY <2>4 DEF Refresh, StartRefresh, RefreshLookup, RefreshCommit, RefreshCommitReplays,
                RefreshReturn, Paper!CommitRefresh, paperVars
  <2>5. ASSUME NEW a \in Accounts, OpenAccount(a) PROVE UNCHANGED byKey
    BY <2>5 DEF OpenAccount, Paper!OpenAccount
  <2> QED BY <2>1, <2>2, <2>3, <2>4, <2>5 DEF Next, SwitchesMove, Submit, Crash, paperVars
<1>2. Spec => [](TypeOK /\ HolderInv)
  BY AdmissionTypeOK, AdmissionGuardHasOneHolder, HolderInvIsGuardHasOneHolder, PTL
<1>3. [ExecutionIsAllowed]_vars =>
        [\A a \in Accounts, k \in OrderKeys : byKey'[a][k] # byKey[a][k] =>
           /\ \A s \in {Global, a} : sw[s] # None /\ ~sw[s].active /\ sw'[s] = sw[s]
           /\ ~blocked[a][k]]_vars
  BY DEF ExecutionIsAllowed
<1> QED BY <1>1, <1>2, <1>3, PTL DEF Spec, NoOrderWhileStopped

-----------------------------------------------------------------------------
(* The two invariants of the paper store hold of the composition, because  *)
(* every step of the order path is a step of the store or leaves it alone. *)
StoreInv == IndexInv /\ ChainInv

LEMMA StoreStep ==
  ASSUME TypeOK, StoreInv, [Next]_vars
  PROVE  StoreInv'
<1>1. CallersTypeOK /\ RefreshersTypeOK /\ Paper!TypeOK
  BY DEF TypeOK, CallersTypeOK, RefreshersTypeOK
<1>2. [Paper!Next]_(Paper!paperVars)
  BY <1>1, PaperSteps DEF paperVars, Paper!paperVars
<1>3. IndexInv'
  BY <1>1, <1>2, IndexInvStep DEF StoreInv
<1>4. ChainInv'
  BY <1>1, <1>2, ChainInvStep DEF StoreInv
<1> QED BY <1>3, <1>4 DEF StoreInv

LEMMA StoreInvSuffices == TypeOK /\ StoreInv => StoreStaysConsistent
<1> SUFFICES ASSUME TypeOK, StoreInv PROVE StoreStaysConsistent
  OBVIOUS
<1>1. Paper!TypeOK
  BY DEF TypeOK
<1>2. Paper!IndexesAgree /\ Paper!EveryVersionHasOneCause
  BY <1>1, IndexInvSuffices, ChainInvSuffices DEF StoreInv
<1> QED BY <1>2 DEF StoreStaysConsistent

LEMMA StoreInvariant == Spec => []StoreInv
<1>1. Init => StoreInv
  <2> SUFFICES ASSUME Init PROVE StoreInv
    OBVIOUS
  <2>1. Paper!Init
    BY DEF Init
  <2> QED BY <2>1, IndexInvInit, ChainInvInit DEF StoreInv
<1> QED BY <1>1, StoreStep, AdmissionTypeOK, PTL DEF Spec

(* The paper store stays one consistent chain under any number of callers  *)
(* and refreshers that plan on states they read earlier.                   *)
THEOREM AdmissionStoreStaysConsistent == Spec => []StoreStaysConsistent
BY StoreInvariant, StoreInvSuffices, AdmissionTypeOK, PTL

-----------------------------------------------------------------------------
Executed(order) ==
  /\ byKey[order.account][order.key] # None
  /\ byKey[order.account][order.key].order = order

IsTrue(order, says) ==
  /\ says = "receipt" => Executed(order)
  /\ says = "blocked" => blocked[order.account][order.key] /\ ~Executed(order)

(* What a caller in state c is about to say is true: a receipt it carries  *)
(* out of the gate is stored, and a block it reports is stored as well.    *)
Says(c) ==
  /\ c.pc = "leave" => c.says \in {"receipt", "failed"}
  /\ c.pc = "leave" /\ c.says = "receipt" => Executed(c.order)
  /\ c.pc = "resolve" => c.says \in {"blocked", "failed"}
  /\ c.pc = "resolve" /\ c.says = "blocked" => blocked[c.order.account][c.order.key]

SaysInv == \A t \in Callers : Says(caller[t])

(* Because the indexes agree, what Resolution finds is the key's receipt.  *)
LEMMA Resolves ==
  ASSUME TypeOK, StoreInv, NEW order \in Order
  PROVE  /\ Paper!Resolution(order) = "receipt" => Executed(order)
         /\ Paper!Resolution(order) = "none" => byKey[order.account][order.key] = None
<1>1. order.account \in Accounts /\ order.key \in OrderKeys /\ order.batch \in Batches
  BY DEF Order
<1>2. ASSUME byBatch[order.account][order.batch] # None,
             byBatch[order.account][order.batch].order = order
      PROVE  byKey[order.account][order.key] # None
  BY <1>1, <1>2 DEF StoreInv, IndexInv, BatchesHaveKeys
<1> QED BY <1>2 DEF Paper!Resolution, Executed

(* Only a commit adds a receipt, and only where there was none.            *)
LEMMA ReceiptSteps ==
  ASSUME TypeOK, [Next]_vars
  PROVE  UNCHANGED byKey \/ \E t \in Callers : Commit(t)
<1>1. ASSUME NEW t \in Callers, Progress(t), ~Commit(t) PROVE UNCHANGED byKey
  BY <1>1 DEF Progress, AtGate, Lookup, EnterGate, BlockAtGate, BlockedBefore, GateFails,
              Recheck, Load, CommitRefused, Leave, LeaveFails, Resolve, paperVars
<1>2. ASSUME NEW r \in Refreshers, Refresh(r) PROVE UNCHANGED byKey
  BY <1>2 DEF Refresh, StartRefresh, RefreshLookup, RefreshCommit, RefreshCommitReplays,
              RefreshReturn, Paper!CommitRefresh, paperVars
<1>3. ASSUME NEW a \in Accounts, OpenAccount(a) PROVE UNCHANGED byKey
  BY <1>3 DEF OpenAccount, Paper!OpenAccount
<1> QED BY <1>1, <1>2, <1>3 DEF Next, SwitchesMove, Submit, Crash, paperVars, vars

LEMMA CommitAdds ==
  ASSUME TypeOK, StoreInv, HolderInv, NEW t \in Callers, Commit(t)
  PROVE  LET order == caller[t].order IN
         /\ order \in Order
         /\ byKey[order.account][order.key] = None
         /\ \A a \in Accounts, k \in OrderKeys :
              ~(a = order.account /\ k = order.key) => byKey'[a][k] = byKey[a][k]
         /\ byKey'[order.account][order.key] # None
         /\ byKey'[order.account][order.key].order = order
         /\ Paper!Resolution(order) = "none"
         /\ ~blocked[order.account][order.key]
         /\ \A s \in {Global, order.account} : sw[s] # None /\ ~sw[s].active
         /\ UNCHANGED <<sw, blocked, answered>>
<1> DEFINE order == caller[t].order
           receipt == [order |-> order, version |-> order.expects + 1]
<1>1. /\ CallersTypeOK /\ Paper!TypeOK /\ Holding(t)
  BY DEF TypeOK, CallersTypeOK, Commit, At, Holding
<1>2. /\ order \in Order /\ order.account \in Accounts /\ order.key \in OrderKeys
      /\ order.expects \in Versions
  BY <1>1, BusyOrder DEF Commit, At
<1>3. /\ Paper!Resolution(order) = "none" /\ order.expects < MaxVersion
      /\ byKey' = [byKey EXCEPT ![order.account][order.key] = receipt]
  BY DEF Commit, Paper!CommitExecution
<1>4. byKey[order.account][order.key] = None
  BY <1>2, <1>3, Resolves
<1>5. receipt \in Paper!Receipt
  BY <1>2, <1>3, PaperOrdersAssumption, Vocabulary DEF Paper!Receipt, Versions
<1>6. receipt # None /\ receipt.order = order
  BY <1>5, OrderAdmissionAssumption
<1> HIDE DEF receipt
<1>7. /\ byKey'[order.account][order.key] = receipt
      /\ \A a \in Accounts, k \in OrderKeys :
           ~(a = order.account /\ k = order.key) => byKey'[a][k] = byKey[a][k]
  BY <1>1, <1>2, <1>3 DEF Paper!TypeOK
<1>8. guard # None /\ guard.order = order
  BY <1>1 DEF HolderInv, HoldersGuard
<1>9. /\ ~blocked[order.account][order.key]
      /\ \A s \in {Global, order.account} : sw[s] # None /\ ~sw[s].active
  BY <1>8 DEF HolderInv, GuardIsSafe
<1>10. UNCHANGED <<sw, blocked, answered>>
  BY DEF Commit, gateVars
<1> QED BY <1>2, <1>3, <1>4, <1>6, <1>7, <1>9, <1>10

(* A receipt stays, a blocked key gets none, and a block stays.            *)
LEMMA OutcomesStay ==
  ASSUME TypeOK, StoreInv, HolderInv, [Next]_vars, NEW a \in Accounts, NEW k \in OrderKeys
  PROVE  /\ byKey[a][k] # None => byKey'[a][k] = byKey[a][k]
         /\ blocked[a][k] => blocked'[a][k] /\ byKey'[a][k] = byKey[a][k]
<1>1. ASSUME NEW t \in Callers, Commit(t)
      PROVE  (byKey[a][k] # None \/ blocked[a][k]) => byKey'[a][k] = byKey[a][k]
  <2> DEFINE order == caller[t].order
  <2>1. /\ byKey[order.account][order.key] = None
        /\ ~(a = order.account /\ k = order.key) => byKey'[a][k] = byKey[a][k]
        /\ ~blocked[order.account][order.key]
    BY <1>1, CommitAdds
  <2> HIDE DEF order
  <2> QED BY <2>1
<1>2. (byKey[a][k] # None \/ blocked[a][k]) => byKey'[a][k] = byKey[a][k]
  BY <1>1, ReceiptSteps
<1>3. [Gate!Next]_gateVars
  BY GateSteps DEF TypeOK, CallersTypeOK
<1>4. blocked[a][k] => blocked'[a][k]
  <2>1. ASSUME NEW order \in Order, NEW at, Gate!Block(order, at),
               blocked[a][k] PROVE blocked'[a][k]
    BY <2>1 DEF Gate!Block, TypeOK, GateTypeOK
  <2> QED BY <1>3, <2>1, Vocabulary
          DEF Gate!Next, Gate!Tick, Gate!SwitchNext, Gate!Install, Gate!TurnOn, Gate!TurnOff,
              Gate!SetSwitch, Gate!Enter, Gate!Exit, Gate!Lose, gateVars
<1> QED BY <1>2, <1>4

LEMMA TruthStays ==
  ASSUME TypeOK, StoreInv, HolderInv, [Next]_vars, NEW order \in Order
  PROVE  /\ Executed(order) => Executed(order)'
         /\ blocked[order.account][order.key] =>
              blocked'[order.account][order.key] /\ Executed(order)' = Executed(order)
         /\ \A says : IsTrue(order, says) => IsTrue(order, says)'
<1>1. order.account \in Accounts /\ order.key \in OrderKeys
  BY DEF Order
<1>2. Executed(order) => Executed(order)'
  BY <1>1, OutcomesStay DEF Executed
<1>3. blocked[order.account][order.key] =>
        blocked'[order.account][order.key] /\ Executed(order)' = Executed(order)
  BY <1>1, OutcomesStay DEF Executed
<1>4. ASSUME NEW says, IsTrue(order, says) PROVE IsTrue(order, says)'
  BY <1>2, <1>3, <1>4 DEF IsTrue
<1> QED BY <1>2, <1>3, <1>4

(* A step of one caller keeps what the others say true.                    *)
LEMMA OthersStillRight ==
  ASSUME TypeOK, StoreInv, HolderInv, SaysInv, [Next]_vars, NEW u \in Callers,
         caller'[u] = caller[u]
  PROVE  Says(caller[u])'
<1>1. Says(caller[u])
  BY DEF SaysInv
<1>2. CASE caller[u].pc \in {"leave", "resolve"}
  <2>1. caller[u].order \in Order
    BY <1>2, BusyOrder DEF TypeOK, CallersTypeOK, At
  <2>2. PICK order \in Order : order = caller[u].order
    BY <2>1
  <2>3. /\ Executed(order) => Executed(order)'
        /\ blocked[order.account][order.key] => blocked'[order.account][order.key]
    BY TruthStays
  <2> QED BY <1>1, <2>2, <2>3 DEF Says, Executed
<1>3. CASE caller[u].pc \notin {"leave", "resolve"}
  BY <1>3 DEF Says
<1> QED BY <1>2, <1>3

(* The record of a caller after a step of its own.                         *)
LEMMA CallerMoves ==
  ASSUME TypeOK, NEW t \in Callers, NEW pc, NEW says,
         (Goto(t, pc) /\ says = caller[t].says) \/ GotoSaying(t, pc, says)
  PROVE  /\ caller'[t].pc = pc /\ caller'[t].says = says
         /\ caller'[t].order = caller[t].order
         /\ \A u \in Callers \ {t} : caller'[u] = caller[u]
<1>1. caller \in [Callers -> CallerState]
  BY DEF TypeOK
<1> QED BY <1>1 DEF Goto, GotoSaying, CallerState

(* A caller that has moved to pc says what is true there.                  *)
LEMMA MoverIsRight ==
  ASSUME TypeOK, StoreInv, HolderInv, SaysInv, [Next]_vars,
         NEW t \in Callers, ~At(t, "idle"), NEW pc, NEW says,
         (Goto(t, pc) /\ says = caller[t].says) \/ GotoSaying(t, pc, says),
         pc = "leave" => says \in {"receipt", "failed"},
         pc = "leave" /\ says = "receipt" => Executed(caller[t].order) \/ Commit(t),
         pc = "resolve" => says \in {"blocked", "failed"},
         pc = "resolve" /\ says = "blocked" =>
           blocked'[caller[t].order.account][caller[t].order.key]
  PROVE  SaysInv'
<1>1. /\ caller'[t].pc = pc /\ caller'[t].says = says
      /\ caller'[t].order = caller[t].order
      /\ \A u \in Callers \ {t} : caller'[u] = caller[u]
  BY CallerMoves
<1>2. caller[t].order \in Order
  BY BusyOrder DEF TypeOK, CallersTypeOK
<1>3. PICK order \in Order : order = caller[t].order
  BY <1>2
<1>4. pc = "leave" /\ says = "receipt" => Executed(order)'
  <2>1. Executed(order) => Executed(order)'
    BY TruthStays
  <2>2. Commit(t) => Executed(order)'
    BY <1>3, CommitAdds DEF Executed
  <2> QED BY <1>3, <2>1, <2>2
<1>5. Says(caller[t])'
  BY <1>1, <1>3, <1>4 DEF Says, Executed
<1> QED BY <1>1, <1>5, OthersStillRight DEF SaysInv

LEMMA IdleIsRight ==
  ASSUME TypeOK, StoreInv, HolderInv, SaysInv, [Next]_vars,
         NEW t \in Callers, caller'[t].pc \in {"idle", "lookup"},
         \A u \in Callers \ {t} : caller'[u] = caller[u]
  PROVE  SaysInv'
<1>1. Says(caller[t])'
  BY DEF Says
<1> QED BY <1>1, OthersStillRight DEF SaysInv

LEMMA SaysStep ==
  ASSUME TypeOK, StoreInv, HolderInv, SaysInv, [Next]_vars
  PROVE  SaysInv'
<1>1. ASSUME UNCHANGED caller PROVE SaysInv'
  BY <1>1, OthersStillRight DEF SaysInv
<1>2. ASSUME NEW t \in Callers, NEW says, Finish(t, says) PROVE SaysInv'
  <2>1. caller'[t].pc = "idle" /\ \A u \in Callers \ {t} : caller'[u] = caller[u]
    BY <1>2 DEF Finish, IdleCaller, TypeOK
  <2> QED BY <2>1, IdleIsRight
<1>3. ASSUME NEW t \in Callers, NEW order \in Submittable, Submit(t, order) PROVE SaysInv'
  <2>1. caller'[t].pc = "lookup" /\ \A u \in Callers \ {t} : caller'[u] = caller[u]
    BY <1>3 DEF Submit, TypeOK
  <2> QED BY <2>1, IdleIsRight
<1>4. ASSUME NEW t \in Callers, Crash(t) PROVE SaysInv'
  <2>1. caller'[t].pc = "idle" /\ \A u \in Callers \ {t} : caller'[u] = caller[u]
    BY <1>4 DEF Crash, IdleCaller, TypeOK
  <2> QED BY <2>1, IdleIsRight
<1>5. ASSUME NEW t \in Callers, Lookup(t) PROVE SaysInv'
  <2>1. CASE caller' = [caller EXCEPT ![t].pc = "gate", ![t].at = clock]
    <3>1. /\ caller'[t].pc = "gate" /\ \A u \in Callers \ {t} : caller'[u] = caller[u]
      BY <2>1 DEF TypeOK, CallerState
    <3>2. Says(caller[t])'
      BY <3>1 DEF Says
    <3> QED BY <3>1, <3>2, OthersStillRight DEF SaysInv
  <2>2. CASE Finish(t, "receipt") \/ Finish(t, "failed")
    BY <1>2, <2>2
  <2> QED BY <1>5, <2>1, <2>2 DEF Lookup
<1>6. ASSUME NEW t \in Callers, AtGate(t) PROVE SaysInv'
  <2>1. ~At(t, "idle") /\ caller[t].order \in Order
    BY <1>6, BusyOrder DEF AtGate, EnterGate, BlockAtGate, BlockedBefore, GateFails, At,
                           TypeOK, CallersTypeOK
  <2>2. CASE EnterGate(t)
    <3>1. PICK says : Goto(t, "recheck") /\ says = caller[t].says
      BY <2>2 DEF EnterGate
    <3> QED BY <2>1, <3>1, MoverIsRight
  <2>3. CASE BlockAtGate(t)
    <3>1. blocked'[caller[t].order.account][caller[t].order.key]
      BY <2>1, <2>3, Vocabulary DEF BlockAtGate, Gate!Block, TypeOK, GateTypeOK, Order
    <3> QED BY <2>1, <2>3, <3>1, MoverIsRight DEF BlockAtGate
  <2>4. CASE BlockedBefore(t)
    BY <2>1, <2>4, MoverIsRight DEF BlockedBefore, gateVars
  <2>5. CASE GateFails(t)
    BY <2>1, <2>5, MoverIsRight DEF GateFails
  <2> QED BY <1>6, <2>2, <2>3, <2>4, <2>5 DEF AtGate
<1>7. ASSUME NEW t \in Callers, Recheck(t) \/ Load(t) \/ Commit(t) \/ CommitRefused(t)
      PROVE  SaysInv'
  <2>1. ~At(t, "idle") /\ caller[t].order \in Order
    BY <1>7, BusyOrder DEF Recheck, Load, Commit, CommitRefused, At, TypeOK, CallersTypeOK
  <2>2. Paper!Resolution(caller[t].order) = "receipt" => Executed(caller[t].order)
    BY <2>1, Resolves
  <2>3. CASE Recheck(t) \/ Load(t)
    BY <2>1, <2>2, <2>3, MoverIsRight DEF Recheck, Load
  <2>4. CASE Commit(t)
    <3>1. PICK says \in {"receipt", "failed"} : GotoSaying(t, "leave", says)
      BY <2>4 DEF Commit
    <3> QED BY <2>1, <2>4, <3>1, MoverIsRight
  <2>5. CASE CommitRefused(t)
    BY <2>1, <2>5, MoverIsRight DEF CommitRefused
  <2> QED BY <1>7, <2>3, <2>4, <2>5
<1>8. ASSUME NEW t \in Callers, Leave(t) PROVE SaysInv'
  <2>1. ~At(t, "idle") /\ At(t, "leave")
    BY <1>8 DEF Leave, At
  <2>2. CASE caller[t].says = "receipt"
    BY <1>2, <1>8, <2>2 DEF Leave
  <2>3. CASE caller[t].says # "receipt"
    <3>1. caller[t].says = "failed"
      BY <2>1, <2>3 DEF SaysInv, Says, At
    <3> QED BY <1>8, <2>1, <2>3, <3>1, MoverIsRight DEF Leave
  <2> QED BY <2>2, <2>3
<1>9. ASSUME NEW t \in Callers, LeaveFails(t) PROVE SaysInv'
  BY <1>9, MoverIsRight DEF LeaveFails, At
<1>10. ASSUME NEW t \in Callers, Resolve(t) PROVE SaysInv'
  BY <1>2, <1>10 DEF Resolve
<1>11. ASSUME NEW r \in Refreshers, Refresh(r) PROVE UNCHANGED caller
  BY <1>11 DEF Refresh, StartRefresh, RefreshLookup, RefreshCommit, RefreshCommitReplays,
               RefreshReturn
<1> QED BY <1>1, <1>3, <1>4, <1>5, <1>6, <1>7, <1>8, <1>9, <1>10, <1>11
        DEF Next, Progress, vars, SwitchesMove, OpenAccount

LEMMA SaysInvariant == Spec => []SaysInv
<1>1. Init => SaysInv
  BY DEF Init, SaysInv, Says, IdleCaller
<1>2. Spec => [](TypeOK /\ StoreInv /\ HolderInv)
  BY AdmissionTypeOK, StoreInvariant, AdmissionGuardHasOneHolder, HolderInvIsGuardHasOneHolder, PTL
<1> QED BY <1>1, <1>2, SaysStep, PTL DEF Spec

-----------------------------------------------------------------------------
(* Every new answer is true when it is given, and is all that the step     *)
(* does to what the promise speaks of.                                     *)
LEMMA AnswerSteps ==
  ASSUME TypeOK, StoreInv, SaysInv, [Next]_vars
  PROVE  \/ UNCHANGED answered
         \/ \E order \in Order, says \in {"receipt", "blocked"} :
              /\ IsTrue(order, says)
              /\ answered' = answered \cup {[order |-> order, says |-> says]}
              /\ UNCHANGED <<sw, blocked, byKey>>
<1> DEFINE Answering ==
      \E order \in Order, says \in {"receipt", "blocked"} :
        /\ IsTrue(order, says)
        /\ answered' = answered \cup {[order |-> order, says |-> says]}
        /\ UNCHANGED <<sw, blocked, byKey>>
<1>1. ASSUME NEW t \in Callers, ~At(t, "idle"), NEW says, Finish(t, says),
             says \in {"receipt", "blocked"} => IsTrue(caller[t].order, says),
             UNCHANGED <<sw, blocked, byKey>>
      PROVE  UNCHANGED answered \/ Answering
  <2>1. caller[t].order \in Order
    BY <1>1, BusyOrder DEF TypeOK, CallersTypeOK
  <2>2. CASE says \in {"receipt", "blocked"}
    BY <1>1, <2>1, <2>2 DEF Finish
  <2>3. CASE says \notin {"receipt", "blocked"}
    BY <1>1, <2>3 DEF Finish
  <2> QED BY <2>2, <2>3
<1>2. ASSUME NEW t \in Callers, Lookup(t) PROVE UNCHANGED answered \/ Answering
  <2>1. caller[t].order \in Order /\ ~At(t, "idle")
    BY <1>2, BusyOrder DEF Lookup, At, TypeOK, CallersTypeOK
  <2>2. UNCHANGED <<sw, blocked, byKey>>
    BY <1>2 DEF Lookup, gateVars, paperVars
  <2>3. CASE Finish(t, "receipt") /\ Paper!Resolution(caller[t].order) = "receipt"
    BY <1>1, <2>1, <2>2, <2>3, Resolves DEF IsTrue
  <2>4. CASE Finish(t, "failed")
    BY <1>1, <2>1, <2>2, <2>4
  <2>5. CASE UNCHANGED answered
    BY <2>5
  <2> QED BY <1>2, <2>3, <2>4, <2>5 DEF Lookup
<1>3. ASSUME NEW t \in Callers, Leave(t) PROVE UNCHANGED answered \/ Answering
  <2>1. ~At(t, "idle") /\ At(t, "leave") /\ UNCHANGED <<sw, blocked, byKey>>
    BY <1>3 DEF Leave, At, Gate!Exit, paperVars
  <2>2. CASE caller[t].says = "receipt"
    <3>1. IsTrue(caller[t].order, "receipt")
      BY <2>1, <2>2 DEF SaysInv, Says, At, IsTrue
    <3> QED BY <1>1, <1>3, <2>1, <2>2, <3>1 DEF Leave
  <2>3. CASE caller[t].says # "receipt"
    BY <1>3, <2>3 DEF Leave
  <2> QED BY <2>2, <2>3
<1>4. ASSUME NEW t \in Callers, Resolve(t) PROVE UNCHANGED answered \/ Answering
  <2>1. caller[t].order \in Order /\ ~At(t, "idle") /\ At(t, "resolve")
    BY <1>4, BusyOrder DEF Resolve, At, TypeOK, CallersTypeOK
  <2>2. UNCHANGED <<sw, blocked, byKey>>
    BY <1>4 DEF Resolve, gateVars, paperVars
  <2>3. CASE Finish(t, "receipt") /\ Paper!Resolution(caller[t].order) = "receipt"
    BY <1>1, <2>1, <2>2, <2>3, Resolves DEF IsTrue
  <2>4. CASE Finish(t, "failed")
    BY <1>1, <2>1, <2>2, <2>4
  <2>5. CASE Finish(t, caller[t].says) /\ Paper!Resolution(caller[t].order) = "none"
    <3>1. byKey[caller[t].order.account][caller[t].order.key] = None
      BY <2>1, <2>5, Resolves
    <3>2. caller[t].says \in {"receipt", "blocked"} => IsTrue(caller[t].order, caller[t].says)
      BY <2>1, <3>1 DEF SaysInv, Says, At, IsTrue, Executed
    <3> QED BY <1>1, <2>1, <2>2, <2>5, <3>2
  <2>6. Paper!Resolution(caller[t].order) \in {"receipt", "conflict", "none"}
    BY DEF Paper!Resolution
  <2> QED BY <1>4, <2>3, <2>4, <2>5, <2>6 DEF Resolve
<1> HIDE DEF Answering
<1>5. ASSUME NEW t \in Callers, Progress(t), ~Lookup(t), ~Leave(t), ~Resolve(t)
      PROVE  UNCHANGED answered
  BY <1>5 DEF Progress, AtGate, EnterGate, BlockAtGate, BlockedBefore, GateFails,
              Recheck, Load, Commit, CommitRefused, LeaveFails
<1>6. ASSUME NEW r \in Refreshers, Refresh(r) PROVE UNCHANGED answered
  BY <1>6 DEF Refresh, StartRefresh, RefreshLookup, RefreshCommit, RefreshCommitReplays,
              RefreshReturn
<1>7. UNCHANGED answered \/ Answering
  BY <1>2, <1>3, <1>4, <1>5, <1>6 DEF Next, vars, SwitchesMove, OpenAccount, Submit, Crash
<1> QED BY <1>7 DEF Answering

(* The inductive invariant of the order path.                              *)
AdmissionInv == TypeOK /\ StoreInv /\ HolderInv /\ SaysInv

LEMMA AdmissionInvariant == Spec => []AdmissionInv
BY AdmissionTypeOK, StoreInvariant, AdmissionGuardHasOneHolder, HolderInvIsGuardHasOneHolder,
   SaysInvariant, PTL DEF AdmissionInv

(* No answer a client was given ever becomes false.                        *)
THEOREM AdmissionAnswersStayTrue == Spec => []AnswersStayTrue
<1> DEFINE AllTrue == \A answer \in answered : IsTrue(answer.order, answer.says)
<1>1. Init => AllTrue
  BY DEF Init
<1>2. AdmissionInv /\ AllTrue /\ [Next]_vars => AllTrue'
  <2> SUFFICES ASSUME AdmissionInv, AllTrue, [Next]_vars, NEW answer \in answered'
               PROVE  IsTrue(answer.order, answer.says)'
    OBVIOUS
  <2>1. CASE answer \in answered
    <3>1. PICK order \in Order, says \in {"receipt", "blocked"} :
            answer.order = order /\ answer.says = says
      BY <2>1 DEF AdmissionInv, TypeOK, Submittable
    <3>2. IsTrue(order, says)
      BY <2>1, <3>1
    <3>3. IsTrue(order, says)'
      BY <3>2, TruthStays DEF AdmissionInv
    <3> QED BY <3>1, <3>3
  <2>2. CASE answer \notin answered
    <3>1. PICK order \in Order, says \in {"receipt", "blocked"} :
            /\ IsTrue(order, says)
            /\ answered' = answered \cup {[order |-> order, says |-> says]}
            /\ UNCHANGED <<sw, blocked, byKey>>
      BY <2>2, AnswerSteps DEF AdmissionInv
    <3>2. answer.order = order /\ answer.says = says
      BY <2>2, <3>1
    <3>3. IsTrue(order, says)'
      BY <3>1 DEF IsTrue, Executed
    <3> QED BY <3>2, <3>3
  <2> QED BY <2>1, <2>2
<1>3. AllTrue => AnswersStayTrue
  BY DEF AnswersStayTrue, IsTrue, Executed
<1> QED BY <1>1, <1>2, <1>3, AdmissionInvariant, PTL DEF Spec

-----------------------------------------------------------------------------
(* What the promise speaks of, as state functions of the order path.       *)
Stopped == [s \in Scopes |-> sw[s] = None \/ sw[s].active]
ExecutedOrders == {order \in Order : Executed(order)}
RefusedSlots == {slot \in Accounts \X OrderKeys : blocked[slot[1]][slot[2]]}

LEMMA PromiseVocabulary == Promise!Scopes = Scopes /\ Promise!Order = Order
BY DEF Promise!Scopes, Scopes, Promise!Order, Promise!Versions, Order, Versions

(* An execution is one the promise allows: both switches off, a key that   *)
(* was not refused, and no order executed before has its key or batch.     *)
LEMMA CommitExecutes ==
  ASSUME AdmissionInv, [Next]_vars, NEW t \in Callers, Commit(t)
  PROVE  \E order \in Order : Promise!Execute(order)
<1> DEFINE order == caller[t].order
<1>1. /\ order \in Order
      /\ byKey[order.account][order.key] = None
      /\ \A a \in Accounts, k \in OrderKeys :
           ~(a = order.account /\ k = order.key) => byKey'[a][k] = byKey[a][k]
      /\ byKey'[order.account][order.key] # None
      /\ byKey'[order.account][order.key].order = order
      /\ Paper!Resolution(order) = "none"
      /\ ~blocked[order.account][order.key]
      /\ \A s \in {Global, order.account} : sw[s] # None /\ ~sw[s].active
      /\ sw' = sw /\ blocked' = blocked /\ answered' = answered
  BY CommitAdds DEF AdmissionInv
<1> HIDE DEF order
<1>2. /\ order.account \in Accounts /\ order.key \in OrderKeys /\ order.batch \in Batches
      /\ Global \in Scopes /\ order.account \in Scopes
  BY <1>1 DEF Order, Scopes
<1>3. ~Stopped[Global] /\ ~Stopped[order.account]
  BY <1>1, <1>2 DEF Stopped
<1>4. <<order.account, order.key>> \notin RefusedSlots
  BY <1>1 DEF RefusedSlots
<1>5. ASSUME NEW other \in ExecutedOrders, other.account = order.account
      PROVE  other.key # order.key /\ other.batch # order.batch
  <2>1. /\ other \in Order /\ other.key \in OrderKeys
        /\ byKey[order.account][other.key] # None
        /\ byKey[order.account][other.key].order = other
    BY <1>5 DEF ExecutedOrders, Executed, Order
  <2>2. other.key # order.key
    BY <1>1, <2>1
  <2>3. byBatch[order.account][other.batch] = byKey[order.account][other.key]
    BY <1>2, <2>1 DEF AdmissionInv, StoreInv, IndexInv, KeysHaveBatches
  <2>4. byBatch[order.account][order.batch] = None
    BY <1>1 DEF Paper!Resolution
  <2> QED BY <2>1, <2>2, <2>3, <2>4
<1>6. ExecutedOrders' = ExecutedOrders \cup {order}
  <2>1. ASSUME NEW o \in Order PROVE Executed(o)' <=> Executed(o) \/ o = order
    <3>1. o.account \in Accounts /\ o.key \in OrderKeys
      BY DEF Order
    <3> QED BY <1>1, <3>1 DEF Executed
  <2> QED BY <1>1, <2>1 DEF ExecutedOrders
<1>7. Stopped' = Stopped /\ RefusedSlots' = RefusedSlots
  BY <1>1 DEF Stopped, RefusedSlots
<1> QED BY <1>1, <1>3, <1>4, <1>5, <1>6, <1>7
        DEF Promise!Execute, Promise!SlotOf, Stopped, ExecutedOrders, RefusedSlots, Executed

LEMMA BlockRefuses ==
  ASSUME AdmissionInv, NEW t \in Callers, BlockAtGate(t)
  PROVE  \E order \in Order : Promise!Refuse(order)
<1> DEFINE order == caller[t].order
<1>1. order \in Order
  BY BusyOrder DEF BlockAtGate, At, AdmissionInv, TypeOK, CallersTypeOK
<1>2. /\ blocked' = [blocked EXCEPT ![order.account][order.key] = TRUE]
      /\ UNCHANGED <<sw, byKey, answered>>
  BY DEF BlockAtGate, Gate!Block, paperVars
<1> HIDE DEF order
<1>3. RefusedSlots' = RefusedSlots \cup {<<order.account, order.key>>}
  <2>1. order.account \in Accounts /\ order.key \in OrderKeys
    BY <1>1 DEF Order
  <2>2. ASSUME NEW a \in Accounts, NEW k \in OrderKeys
        PROVE  blocked'[a][k] <=> blocked[a][k] \/ (a = order.account /\ k = order.key)
    BY <1>2, <2>1 DEF AdmissionInv, TypeOK, GateTypeOK
  <2> QED BY <2>1, <2>2 DEF RefusedSlots
<1>4. Stopped' = Stopped /\ ExecutedOrders' = ExecutedOrders
  BY <1>2 DEF Stopped, ExecutedOrders, Executed
<1> QED BY <1>1, <1>2, <1>3, <1>4
        DEF Promise!Refuse, Promise!SlotOf, Stopped, ExecutedOrders, RefusedSlots, Executed

LEMMA SwitchSwitches ==
  ASSUME AdmissionInv, SwitchesMove
  PROVE  \/ \E s \in Scopes : Promise!Switch(s)
         \/ UNCHANGED <<sw, blocked, byKey, answered>>
<1>1. CASE Gate!Tick
  BY <1>1 DEF SwitchesMove, Gate!Tick, paperVars
<1>2. ASSUME NEW s \in Scopes, NEW active \in BOOLEAN, NEW at, Gate!SetSwitch(s, active, at)
      PROVE  Promise!Switch(s)
  <2> DEFINE state == [active |-> active, changedAt |-> at]
  <2>1. /\ sw' = [sw EXCEPT ![s] = state] /\ state.active = active
        /\ UNCHANGED <<blocked, byKey, answered>>
    BY <1>2 DEF Gate!SetSwitch, SwitchesMove, paperVars
  <2> HIDE DEF state
  <2>2. PICK on \in BOOLEAN : on = (state = None \/ state.active)
    BY <2>1
  <2>3. \A r \in Scopes : sw'[r] = IF r = s THEN state ELSE sw[r]
    BY <2>1 DEF AdmissionInv, TypeOK, GateTypeOK
  <2>4. \A r \in Scopes : (sw'[r] = None \/ sw'[r].active) =
          IF r = s THEN on ELSE (sw[r] = None \/ sw[r].active)
    BY <2>2, <2>3
  <2>5. Stopped' = [Stopped EXCEPT ![s] = on]
    BY <2>4 DEF Stopped
  <2>6. ExecutedOrders' = ExecutedOrders /\ RefusedSlots' = RefusedSlots
    BY <2>1 DEF ExecutedOrders, RefusedSlots, Executed
  <2> QED BY <2>1, <2>5, <2>6
          DEF Promise!Switch, Stopped, ExecutedOrders, RefusedSlots, Executed
<1>3. CASE Gate!SwitchNext
  BY <1>2, <1>3, Vocabulary DEF Gate!SwitchNext, Gate!Install, Gate!TurnOn, Gate!TurnOff
<1> QED BY <1>1, <1>3 DEF SwitchesMove

LEMMA AnswerAnswers ==
  ASSUME AdmissionInv, NEW order \in Order, NEW says \in {"receipt", "blocked"},
         IsTrue(order, says), answered' = answered \cup {[order |-> order, says |-> says]},
         UNCHANGED <<sw, blocked, byKey>>
  PROVE  Promise!Answer(order, says)
<1>1. order.account \in Accounts /\ order.key \in OrderKeys
  BY DEF Order
<1>2. Executed(order) <=> order \in ExecutedOrders
  BY DEF ExecutedOrders
<1>3. blocked[order.account][order.key] <=> <<order.account, order.key>> \in RefusedSlots
  BY <1>1 DEF RefusedSlots
<1>4. Stopped' = Stopped /\ ExecutedOrders' = ExecutedOrders /\ RefusedSlots' = RefusedSlots
  BY DEF Stopped, ExecutedOrders, RefusedSlots, Executed
<1> QED BY <1>2, <1>3, <1>4
        DEF IsTrue, Promise!Answer, Promise!SlotOf, Stopped, ExecutedOrders, RefusedSlots, Executed

(* Nothing but commits, blocks, switch changes and answers shows.          *)
LEMMA QuietSteps ==
  ASSUME AdmissionInv, [Next]_vars, UNCHANGED answered,
         ~SwitchesMove, \A t \in Callers : ~Commit(t) /\ ~BlockAtGate(t)
  PROVE  UNCHANGED <<sw, blocked, byKey>>
<1>1. UNCHANGED byKey
  BY ReceiptSteps DEF AdmissionInv
<1>2. ASSUME NEW t \in Callers, Progress(t) PROVE UNCHANGED <<sw, blocked>>
  BY <1>2 DEF Progress, AtGate, Lookup, EnterGate, Gate!Enter, BlockedBefore, GateFails,
              Recheck, Load, CommitRefused, Leave, Gate!Exit, LeaveFails, Gate!Lose, Resolve, gateVars
<1>3. ASSUME NEW t \in Callers, Crash(t) PROVE UNCHANGED <<sw, blocked>>
  BY <1>3 DEF Crash, Gate!Lose, gateVars
<1>4. ASSUME NEW r \in Refreshers, Refresh(r) PROVE UNCHANGED <<sw, blocked>>
  BY <1>4 DEF Refresh, StartRefresh, RefreshLookup, RefreshCommit, RefreshCommitReplays,
              RefreshReturn, gateVars
<1> QED BY <1>1, <1>2, <1>3, <1>4 DEF Next, Submit, OpenAccount, gateVars, vars

(* The order path, with its threads, retries, lost acknowledgements and    *)
(* crashes, keeps the promise of GuardedOrders: at most one execution per  *)
(* key and per batch, only while both switches are off, never under a      *)
(* refused key, and only true answers.                                     *)
THEOREM AdmissionImplementsGuardedOrders == Spec => ImplementsGuardedOrders
<1> USE PromiseVocabulary
<1>1. Init => Promise!Init
  <2> SUFFICES ASSUME Init PROVE Promise!Init
    OBVIOUS
  <2>1. Stopped = [s \in Scopes |-> TRUE]
    BY Vocabulary DEF Init, Gate!Init, Stopped
  <2>2. ExecutedOrders = {}
    BY DEF Init, Paper!Init, ExecutedOrders, Executed, Order
  <2>3. RefusedSlots = {}
    BY DEF Init, Gate!Init, RefusedSlots
  <2>4. answered = {}
    BY DEF Init
  <2> QED BY <2>1, <2>2, <2>3, <2>4
          DEF Promise!Init, Stopped, ExecutedOrders, RefusedSlots, Executed
<1>2. AdmissionInv /\ [Next]_vars => [Promise!Next]_(Promise!promiseVars)
  <2> SUFFICES ASSUME AdmissionInv, [Next]_vars
               PROVE  [Promise!Next]_(Promise!promiseVars)
    OBVIOUS
  <2>1. ASSUME UNCHANGED <<sw, blocked, byKey, answered>>
        PROVE  UNCHANGED Promise!promiseVars
    BY <2>1 DEF Promise!promiseVars
  <2>2. ASSUME NEW t \in Callers, Commit(t) PROVE Promise!Next
    BY <2>2, CommitExecutes DEF Promise!Next
  <2>3. ASSUME NEW t \in Callers, BlockAtGate(t) PROVE Promise!Next
    BY <2>3, BlockRefuses DEF Promise!Next
  <2>4. CASE SwitchesMove
    BY <2>1, <2>4, SwitchSwitches DEF Promise!Next
  <2>5. CASE ~UNCHANGED answered
    BY <2>5, AnswerSteps, AnswerAnswers DEF AdmissionInv, Promise!Next
  <2>6. CASE /\ UNCHANGED answered /\ ~SwitchesMove
             /\ \A t \in Callers : ~Commit(t) /\ ~BlockAtGate(t)
    BY <2>1, <2>6, QuietSteps
  <2> QED BY <2>2, <2>3, <2>4, <2>5, <2>6
<1> QED BY <1>1, <1>2, AdmissionInvariant, PTL DEF Spec, ImplementsGuardedOrders, Promise!Spec

-----------------------------------------------------------------------------
(* The reconciliation.                                                     *)

(* The elements of a set with one key.                                     *)
Class(S, key, k) == {x \in S : key[x] = k}

(* A sum over a set is the sum, over the classes of its elements, of the   *)
(* sums over the classes.                                                  *)
LEMMA SumGrouped ==
  ASSUME NEW S, IsFiniteSet(S), NEW v, \A x \in S : v[x] \in Int,
         NEW K, IsFiniteSet(K), NEW key, \A x \in S : key[x] \in K,
         NEW w, \A k \in K : w[k] = SumOver(v, Class(S, key, k))
  PROVE  SumOver(v, S) = SumOver(w, K)
<1> DEFINE Part(T) == {x \in S : key[x] \in T}
           Bad == {n \in Nat : \E T \in SUBSET K : /\ Cardinality(T) = n
                                                   /\ SumOver(v, Part(T)) # SumOver(w, T)}
<1>1. ASSUME Bad # {} PROVE FALSE
  <2>1. PICK n \in Bad : \A m \in Bad : n <= m
    BY <1>1, LeastNat
  <2>2. PICK T \in SUBSET K : Cardinality(T) = n /\ SumOver(v, Part(T)) # SumOver(w, T)
    BY <2>1
  <2>3. T # {}
    <3> SUFFICES ASSUME T = {} PROVE FALSE
      OBVIOUS
    <3>1. Part(T) = {}
      OBVIOUS
    <3>2. SumOver(v, {}) = 0 /\ SumOver(w, {}) = 0
      BY SumEmpty
    <3> QED
      BY <2>2, <3>1, <3>2
  <2>4. IsFiniteSet(T) /\ Cardinality(T) \in Nat /\ Cardinality(T) # 0
    BY <2>3, SubsetFacts
  <2>5. PICK p : p = Pick(T) /\ p \in T /\ Cardinality(T \ {p}) = Cardinality(T) - 1
    BY <2>3, SubsetFacts
  <2> DEFINE U == T \ {p}
  <2>6. n - 1 \notin Bad /\ n - 1 \in Nat
    <3>1. n \in Nat /\ n # 0
      BY <2>2, <2>4
    <3> HIDE DEF Bad
    <3> QED
      BY <2>1, <3>1
  <2>7. SumOver(v, Part(U)) = SumOver(w, U)
    <3>1. U \in SUBSET K /\ Cardinality(U) = n - 1
      BY <2>2, <2>5
    <3> HIDE DEF Part, U
    <3> QED
      BY <2>6, <3>1
  <2>8. SumOver(w, T) = w[p] + SumOver(w, U)
    BY <2>3, <2>4, <2>5, SumPick
  <2> DEFINE C == {x \in S : key[x] = p}
  <2>9. w[p] = SumOver(v, C)
    BY <2>5 DEF Class
  <2>10. Part(T) = Part(U) \cup C /\ Part(U) \cap C = {} /\ Part(U) \subseteq S /\ C \subseteq S
    BY <2>5
  <2>11. IsFiniteSet(Part(U)) /\ IsFiniteSet(C)
    BY <2>10, FS_Subset
  <2>12. SumOver(v, Part(U)) \in Int /\ SumOver(v, C) \in Int
    <3>1. (\A x \in Part(U) : v[x] \in Int) /\ (\A x \in C : v[x] \in Int)
      BY <2>10
    <3> HIDE DEF Part, U, C
    <3> QED
      BY <2>11, <3>1, SumType
  <2> HIDE DEF Part, U, C
  <2>13. SumOver(v, Part(U) \cup C) = SumOver(v, Part(U)) + SumOver(v, C)
    BY <2>10, SumUnion
  <2> QED
    BY <2>2, <2>7, <2>8, <2>9, <2>10, <2>12, <2>13
<1>2. Cardinality(K) \in Nat
  BY FS_CardinalityType
<1>3. Part(K) = S
  OBVIOUS
<1> QED
  BY <1>1, <1>2, <1>3

(* Sums of values that lie near each other, one by one, lie near each      *)
(* other, the distances adding up.                                         *)
LEMMA SumNear ==
  ASSUME NEW S, IsFiniteSet(S), NEW t \in Int, NEW v, NEW w,
         \A x \in S : v[x] \in Int /\ w[x] \in Int /\ v[x] - w[x] <= t /\ w[x] - v[x] <= t
  PROVE  /\ SumOver(v, S) - SumOver(w, S) <= t * Cardinality(S)
         /\ SumOver(w, S) - SumOver(v, S) <= t * Cardinality(S)
<1> DEFINE Near(T) == /\ SumOver(v, T) - SumOver(w, T) <= t * Cardinality(T)
                      /\ SumOver(w, T) - SumOver(v, T) <= t * Cardinality(T)
           Bad == {n \in Nat : \E T \in SUBSET S : Cardinality(T) = n /\ ~Near(T)}
<1>1. ASSUME Bad # {} PROVE FALSE
  <2>1. PICK n \in Bad : \A m \in Bad : n <= m
    BY <1>1, LeastNat
  <2>2. PICK T \in SUBSET S : Cardinality(T) = n /\ ~Near(T)
    BY <2>1
  <2>3. T # {}
    <3> SUFFICES ASSUME T = {} PROVE Near(T)
      BY <2>2
    <3>1. SumOver(v, T) = 0 /\ SumOver(w, T) = 0 /\ Cardinality(T) = 0
      BY SumEmpty, FS_EmptySet
    <3>2. t * 0 = 0
      OBVIOUS
    <3> QED
      BY <3>1, <3>2
  <2>4. IsFiniteSet(T) /\ Cardinality(T) \in Nat /\ Cardinality(T) # 0
    BY <2>3, SubsetFacts
  <2>5. PICK p : p = Pick(T) /\ p \in T /\ Cardinality(T \ {p}) = Cardinality(T) - 1
    BY <2>3, SubsetFacts
  <2> DEFINE U == T \ {p}
  <2>6. n - 1 \notin Bad /\ n - 1 \in Nat
    <3>1. n \in Nat /\ n # 0
      BY <2>2, <2>4
    <3> HIDE DEF Bad
    <3> QED
      BY <2>1, <3>1
  <2>7. Near(U)
    <3>1. U \in SUBSET S /\ Cardinality(U) = n - 1
      BY <2>2, <2>5
    <3> HIDE DEF Near, U
    <3> QED
      BY <2>6, <3>1
  <2>8. SumOver(v, T) = v[p] + SumOver(v, U) /\ SumOver(w, T) = w[p] + SumOver(w, U)
    BY <2>3, <2>4, <2>5, SumPick
  <2>9. IsFiniteSet(U) /\ \A x \in U : v[x] \in Int /\ w[x] \in Int
    BY <2>4, <2>5, FS_Subset
  <2>10. SumOver(v, U) \in Int /\ SumOver(w, U) \in Int
    BY <2>9, SumType
  <2>11. v[p] \in Int /\ w[p] \in Int /\ v[p] - w[p] <= t /\ w[p] - v[p] <= t
    BY <2>5
  <2>12. Cardinality(U) = n - 1
    BY <2>2, <2>5
  <2> HIDE DEF U
  <2>13. t * n = t * (n - 1) + t /\ t * n \in Int /\ t * (n - 1) \in Int
    <3>1. n \in Int
      BY <2>1
    <3> QED
      BY <3>1
  <2>14. Near(T)
    BY <2>2, <2>7, <2>8, <2>10, <2>11, <2>12, <2>13
  <2> QED
    BY <2>2, <2>14
<1>2. Cardinality(S) \in Nat
  BY FS_CardinalityType
<1> HIDE DEF Near
<1>3. Near(S)
  BY <1>1, <1>2
<1> QED
  BY <1>3 DEF Near

-----------------------------------------------------------------------------
(* Findings.  Every one is a warning or critical, which makes the gravest  *)
(* severity well defined, and a request that does not stop has none that   *)
(* is critical.                                                            *)

Graded(findings) == \A f \in findings : f.severity \in {"WARNING", "CRITICAL"}
Mild(findings) == \A f \in findings : f.severity # "CRITICAL"

(* The constructors of findings: what they grade and when they are mild.   *)
LEMMA CriticalIs ==
  ASSUME NEW domain, NEW code, NEW status, NEW entity
  PROVE  Critical(domain, code, status, entity).severity = "CRITICAL"
BY DEF Critical

(* A finding that depends on a condition is there when the condition is.   *)
LEMMA WhenIs ==
  ASSUME NEW condition, NEW finding
  PROVE  /\ condition => When(condition, finding) = {finding}
         /\ ~condition => When(condition, finding) = {}
BY DEF When

(* A critical finding is mild only where there is none.                    *)
LEMMA WhenCritical ==
  ASSUME NEW condition \in BOOLEAN, NEW domain, NEW code, NEW status, NEW entity
  PROVE  /\ Graded(When(condition, Critical(domain, code, status, entity)))
         /\ Mild(When(condition, Critical(domain, code, status, entity))) => ~condition
<1>1. PICK f : f = Critical(domain, code, status, entity)
  OBVIOUS
<1>2. f.severity = "CRITICAL"
  BY <1>1, CriticalIs
<1>3. CASE condition
  <2>1. When(condition, f) = {f}
    BY <1>3, WhenIs
  <2> QED
    BY <1>1, <1>2, <2>1 DEF Graded, Mild
<1>4. CASE ~condition
  <2>1. When(condition, f) = {}
    BY <1>4, WhenIs
  <2> QED
    BY <1>1, <1>4, <2>1 DEF Graded, Mild
<1> QED
  BY <1>3, <1>4

(* A conflict of the inputs is graded.                                     *)
LEMMA ConflictGraded ==
  ASSUME NEW condition, NEW code, NEW entity
  PROVE  Graded(Conflict(condition, code, entity))
BY DEF Conflict, When, Critical, Graded

(* A difference of amounts is mild only within its tolerance.              *)
LEMMA DifferenceIs ==
  ASSUME NEW domain, NEW code, NEW entity, NEW delta, NEW tolerance
  PROVE  /\ Graded(Difference(domain, code, entity, delta, tolerance))
         /\ Mild(Difference(domain, code, entity, delta, tolerance)) =>
              delta = 0 \/ Within(delta, tolerance)
<1>1. PICK f : f = Variance(domain, code, entity, Within(delta, tolerance))
  OBVIOUS
<1>2. /\ Within(delta, tolerance) => f.severity = "WARNING"
      /\ ~Within(delta, tolerance) => f.severity = "CRITICAL"
  BY <1>1 DEF Variance
<1>3. PICK F : F = Difference(domain, code, entity, delta, tolerance)
  OBVIOUS
<1>4. F = When(delta # 0, f)
  BY <1>1, <1>3 DEF Difference
<1>5. (delta # 0 => F = {f}) /\ (delta = 0 => F = {})
  BY <1>4 DEF When
<1>6. Graded(F) /\ (Mild(F) => delta = 0 \/ Within(delta, tolerance))
  BY <1>2, <1>5 DEF Graded, Mild
<1> QED
  BY <1>3, <1>6

(* What the lineage of the request turns up is graded.                     *)
LEMMA LineageGraded == ASSUME NEW q PROVE Graded(LineageFindings(q))
BY DEF LineageFindings, Graded, Conflict, When, Critical

(* So is what its age turns up.                                            *)
LEMMA TimelinessGraded ==
  ASSUME NEW q, NEW available, NEW entity PROVE Graded(Timeliness(q, available, entity))
BY DEF Timeliness, Graded, Conflict, When, Critical

(* So is what its reports turn up one by one.                              *)
LEMMA ReportGraded ==
  ASSUME NEW q, NEW kind, NEW r, NEW floor PROVE Graded(ReportFindings(q, kind, r, floor))
<1>1. Graded(Timeliness(q, r.available, <<kind, r.report, r>>))
  BY TimelinessGraded
<1> QED
  BY <1>1 DEF ReportFindings, Graded, Conflict, When, Critical

(* So is everything found of the inputs.                                   *)
LEMMA InputGraded == ASSUME NEW q PROVE Graded(InputFindings(q))
<1>1. ASSUME NEW r PROVE Graded(OrderReportFindings(q, r))
  BY ReportGraded DEF OrderReportFindings
<1>2. ASSUME NEW r PROVE Graded(FillReportFindings(q, r))
  <2>1. Graded(ReportFindings(q, "FILL", r,
                 IF {a \in q.receipt.attempts : a.order = r.client} = {} THEN q.receipt.submitted
                 ELSE Max({a.at : a \in {a \in q.receipt.attempts : a.order = r.client}})))
    BY ReportGraded
  <2>2. Graded(Conflict(r.currency # q.receipt.after.currency, "CURRENCY_MISMATCH",
                        <<"FILL", r.report, r>>))
    BY ConflictGraded
  <2> QED
    BY <2>1, <2>2 DEF FillReportFindings, Graded
<1>3. Graded(UNION {OrderReportFindings(q, r) : r \in BagToSet(q.observed.orders)})
  BY <1>1 DEF Graded
<1>4. Graded(UNION {FillReportFindings(q, r) : r \in BagToSet(q.observed.fills)})
  BY <1>2 DEF Graded
<1>5. Graded(LineageFindings(q)) /\ Graded(Timeliness(q, q.observed.available, <<"evidence">>))
  BY LineageGraded, TimelinessGraded
<1> QED
  BY <1>3, <1>4, <1>5 DEF InputFindings, Graded

(* A report of no known order is critical.                                 *)
LEMMA UnlinkedIs ==
  ASSUME NEW code, NEW R
  PROVE  /\ Graded(Unlinked(code, R))
         /\ Mild(Unlinked(code, R)) => \A r \in R : r.client # Absent
<1>1. \A r : Critical("REPORT", code, "CONFLICT", <<r.report, r>>).severity = "CRITICAL"
  BY CriticalIs
<1> QED
  BY <1>1 DEF Unlinked, Graded, Mild

(* Links are graded, and mild only where every report names an order of    *)
(* ours.                                                                   *)
LEMMA LinkGraded ==
  ASSUME NEW orders, NEW fills
  PROVE  /\ Graded(LinkFindings(orders, fills))
         /\ Mild(LinkFindings(orders, fills)) => \A r \in orders \cup fills : r.client # Absent
<1>1. Graded(Regressions(orders))
  BY DEF Regressions, Critical, Graded
<1>2. Graded(RivalSources(orders))
  <2>1. \A c : Critical("REPORT", "ORDER_IDENTITY_MISMATCH", "CONFLICT", <<"sources", c>>).severity = "CRITICAL"
    BY CriticalIs
  <2>2. \A f \in RivalSources(orders) :
          \E c : f = Critical("REPORT", "ORDER_IDENTITY_MISMATCH", "CONFLICT", <<"sources", c>>)
    BY DEF RivalSources
  <2> QED
    BY <2>1, <2>2 DEF Graded
<1>3. Graded(LinkFindings(orders, fills))
  BY <1>1, <1>2, UnlinkedIs DEF LinkFindings, Graded
<1>4. ASSUME Mild(LinkFindings(orders, fills)), NEW r \in orders \cup fills PROVE r.client # Absent
  <2>1. Mild(Unlinked("UNLINKED_ORDER_REPORT", orders)) /\ Mild(Unlinked("UNLINKED_FILL_REPORT", fills))
    BY <1>4 DEF LinkFindings, Mild
  <2> QED
    BY <2>1, UnlinkedIs
<1> QED
  BY <1>3, <1>4

(* What a mild comparison of an order says.                                *)
LEMMA OrderGraded ==
  ASSUME NEW q, NEW o, NEW latest
  PROVE  /\ Graded(OrderFindings(q, o, latest))
         /\ Mild(OrderFindings(q, o, latest)) =>
              latest # {} /\ \A r \in latest : r.status = o.status /\ r.filled = o.filled
<1> DEFINE missing == When(latest = {}, Critical("ORDER", "ORDER_MISSING", "MISSING", o.id))
           compared == UNION {Comparisons(q, o, r) : r \in latest}
           grave == ExpectedIdentity(q, o) \cup missing \cup compared
           Severe(F) == \A f \in F : f.severity = "CRITICAL"
<1>1. ASSUME NEW condition, NEW domain, NEW code, NEW status, NEW entity
      PROVE  Severe(When(condition, Critical(domain, code, status, entity)))
  BY CriticalIs DEF When
<1>2. Severe(ExpectedIdentity(q, o))
  <2> DEFINE lines == {l \in q.draft.lines : l.id = o.line}
  <2>1. PICK condition : condition =
          (\/ lines = {}
           \/ \E l \in lines :
                <<l.instrument, l.type, l.side, l.quantity, l.full, l.rules, q.draft.expires>>
                  # <<o.instrument, o.type, o.side, o.quantity, o.full, o.rules, o.expires>>
           \/ o.batch # q.draft.batch \/ o.decision # q.draft.decision
           \/ Cardinality({p \in q.receipt.orders : p.line = o.line}) # 1)
    OBVIOUS
  <2>2. ExpectedIdentity(q, o) =
          When(condition, Critical("ORDER", "ORDER_IDENTITY_MISMATCH", "CONFLICT", <<"expected", o.id>>))
    BY <2>1, Zenon DEF ExpectedIdentity
  <2> QED
    BY <1>1, <2>2
<1>3. Severe(missing)
  BY <1>1
<1>4. ASSUME NEW r
      PROVE  /\ Severe(Comparisons(q, o, r))
             /\ Comparisons(q, o, r) = {} => r.status = o.status /\ r.filled = o.filled
  <2> DEFINE A == When(<<r.instrument, r.type, r.side>> # <<o.instrument, o.type, o.side>>,
                       Critical("ORDER", "ORDER_IDENTITY_MISMATCH", "MISMATCH", <<"observed", o.id>>))
             B == When(<<r.requested, r.filled, r.remaining>>
                         # <<o.quantity, o.filled, o.quantity - o.filled>>,
                       Critical("ORDER", "ORDER_QUANTITY_MISMATCH", "MISMATCH", o.id))
             C == When(r.status # o.status, Critical("ORDER", "ORDER_STATUS_MISMATCH", "MISMATCH", o.id))
             D == When(r.outcome # ExpectedOutcome(q, o),
                       Critical("ORDER", "ORDER_REASON_MISMATCH", "MISMATCH", o.id))
  <2>1. Comparisons(q, o, r) = UNION {A, B, C, D}
    BY DEF Comparisons
  <2>2. Severe(A) /\ Severe(B) /\ Severe(C) /\ Severe(D)
    BY <1>1
  <2>3. B = {} => r.filled = o.filled
    BY DEF When
  <2>4. C = {} => r.status = o.status
    BY DEF When
  <2> HIDE DEF A, B, C, D
  <2> QED
    BY <2>1, <2>2, <2>3, <2>4
<1>5. Severe(compared)
  BY <1>4
<1>7. Severe(grave)
  BY <1>2, <1>3, <1>5
<1>8. OrderFindings(q, o, latest) = IF grave = {} THEN ExpectedVariance(o) ELSE grave
  BY DEF OrderFindings
<1>9. Graded(ExpectedVariance(o))
  BY DEF ExpectedVariance, When, Variance, Graded
<1>10. Graded(OrderFindings(q, o, latest))
  <2> HIDE DEF grave
  <2> QED
    BY <1>7, <1>8, <1>9 DEF Graded
<1>11. ASSUME Mild(OrderFindings(q, o, latest))
       PROVE  latest # {} /\ \A r \in latest : r.status = o.status /\ r.filled = o.filled
  <2>1. grave = {}
    <3> HIDE DEF grave
    <3> QED
      BY <1>7, <1>8, <1>11 DEF Mild
  <2>2. missing = {} /\ compared = {}
    BY <2>1
  <2>3. latest # {}
    BY <2>2 DEF When
  <2>4. \A r \in latest : Comparisons(q, o, r) = {}
    BY <2>2
  <2> QED
    BY <1>4, <2>3, <2>4
<1> QED
  BY <1>10, <1>11

(* What a mild comparison of sums says: the cash moves within tolerance.   *)
LEMMA EconomicGraded ==
  ASSUME NEW q, NEW entity, NEW S, NEW T
  PROVE  /\ Graded(EconomicDifferences(q, entity, Amounts(S), Amounts(T)))
         /\ Mild(EconomicDifferences(q, entity, Amounts(S), Amounts(T))) =>
              \/ CashOf(T) - CashOf(S) = 0
              \/ Within(CashOf(T) - CashOf(S), q.policy.cash)
<1> DEFINE x == Amounts(S)
           y == Amounts(T)
           D(part) == Difference("FILL", CodeOf(part), <<entity, part>>, y[part] - x[part],
                                 ToleranceOf(q.policy, part))
<1>1. EconomicDifferences(q, entity, x, y) = UNION {D(part) : part \in DOMAIN x}
  BY DEF EconomicDifferences
<1>2. "cash" \in DOMAIN x /\ x["cash"] = CashOf(S) /\ y["cash"] = CashOf(T)
  BY DEF Amounts
<1>3. ToleranceOf(q.policy, "cash") = q.policy.cash
  BY DEF ToleranceOf
<1> HIDE DEF x, y
<1>4. ASSUME NEW part PROVE Graded(D(part))
  BY DifferenceIs
<1>5. Graded(EconomicDifferences(q, entity, x, y))
  <2> HIDE DEF D
  <2> QED
    BY <1>1, <1>4 DEF Graded
<1>6. ASSUME Mild(EconomicDifferences(q, entity, x, y))
      PROVE  \/ CashOf(T) - CashOf(S) = 0
             \/ Within(CashOf(T) - CashOf(S), q.policy.cash)
  <2>1. Mild(D("cash"))
    <3> HIDE DEF D
    <3> QED
      BY <1>1, <1>2, <1>6 DEF Mild
  <2>2. y["cash"] - x["cash"] = 0 \/ Within(y["cash"] - x["cash"], ToleranceOf(q.policy, "cash"))
    BY <2>1, DifferenceIs
  <2> QED
    BY <1>2, <1>3, <2>2
<1> QED
  BY <1>5, <1>6 DEF x, y

(* Comparisons fill by fill are graded.                                    *)
LEMMA FillByFillGraded ==
  ASSUME NEW q, NEW f, NEW observed
  PROVE  Graded(FillByFill(q, f, observed))
<1> DEFINE r == CHOOSE r \in observed : r.clientFill = f.id
           A == When(r.at # f.at, Critical("FILL", "FILL_IDENTITY_MISMATCH", "MISMATCH", <<"filled-at", f.id>>))
           B == When(r.quantity # f.quantity,
                     Critical("FILL", "FILL_QUANTITY_MISMATCH", "MISMATCH", <<"fill", f.id>>))
           C == Difference("FILL", "FILL_PRICE_MISMATCH", <<"fill", f.id>>, r.price - f.price, q.policy.price)
           D == EconomicDifferences(q, <<"fill", f.id>>, Amounts({f}), Amounts({r}))
<1>1. FillByFill(q, f, observed) = UNION {A, B, C, D}
  BY DEF FillByFill
<1>2. Graded(A) /\ Graded(B)
  BY DEF When, Critical, Graded
<1>3. Graded(C)
  BY DifferenceIs
<1>4. Graded(D)
  BY EconomicGraded
<1> HIDE DEF A, B, C, D
<1> QED
  BY <1>1, <1>2, <1>3, <1>4 DEF Graded

(* What a mild comparison of quantities says.                              *)
LEMMA QuantitiesGraded ==
  ASSUME NEW o, NEW S, NEW T
  PROVE  /\ Graded(FillQuantities(o, S, T))
         /\ Mild(FillQuantities(o, S, T)) /\ QuantityOf(S) \in Nat /\ QuantityOf(T) \in Nat =>
              QuantityOf(T) = QuantityOf(S)
<1>1. PICK due : due = QuantityOf(S)
  OBVIOUS
<1>2. PICK seen : seen = QuantityOf(T)
  OBVIOUS
<1>3. PICK F : F = FillQuantities(o, S, T)
  OBVIOUS
<1> DEFINE A == Critical("FILL", "FILL_MISSING", "MISSING", o.id)
           B == Critical("FILL", "FILL_UNEXPECTED", "UNEXPECTED", o.id)
           C == Critical("FILL", IF seen > o.quantity THEN "FILL_OVERFILL" ELSE "FILL_QUANTITY_MISMATCH",
                         "MISMATCH", o.id)
<1>4. A.severity = "CRITICAL" /\ B.severity = "CRITICAL" /\ C.severity = "CRITICAL"
  BY CriticalIs
<1>5. F = CASE due > 0 /\ seen = 0 -> {A}
            [] due = 0 /\ seen > 0 -> {B}
            [] due > 0 /\ seen > 0 /\ due # seen -> {C}
            [] OTHER -> {}
  BY <1>1, <1>2, <1>3 DEF FillQuantities
<1> HIDE DEF A, B, C
<1>6. F \in {{A}, {B}, {C}, {}}
  BY <1>5
<1>7. Graded(F)
  BY <1>4, <1>6 DEF Graded
<1>8. ASSUME Mild(F), due \in Nat, seen \in Nat PROVE seen = due
  <2>1. F = {}
    BY <1>4, <1>6, <1>8 DEF Mild
  <2>2. ~(due > 0 /\ seen = 0) /\ ~(due = 0 /\ seen > 0) /\ ~(due > 0 /\ seen > 0 /\ due # seen)
    BY <1>5, <2>1, <1>8
  <2> QED
    BY <1>8, <2>2
<1> QED
  BY <1>1, <1>2, <1>3, <1>7, <1>8

(* The comparison of average prices is graded.                             *)
LEMMA AverageGraded ==
  ASSUME NEW q, NEW o, NEW S, NEW T
  PROVE  Graded(AveragePrice(q, o, S, T))
<1>1. \A c, d, e, w : Variance(c, d, e, w).severity \in {"WARNING", "CRITICAL"}
  BY DEF Variance
<1>2. \A c, f : f.severity \in {"WARNING", "CRITICAL"} => Graded(When(c, f))
  BY DEF When, Graded
<1> DEFINE due == QuantityOf(S)
           seen == QuantityOf(T)
           numerator == Amounts(T).gross * due - Amounts(S).gross * seen
<1>3. PICK n : n = numerator
  OBVIOUS
<1>4. PICK c : c = (due > 0 /\ seen > 0 /\ n # 0)
  OBVIOUS
<1>5. PICK w : w = Within(n, q.policy.price * due * seen)
  OBVIOUS
<1>6. AveragePrice(q, o, S, T) = When(c, Variance("FILL", "FILL_PRICE_MISMATCH", <<"vwap", o.id>>, w))
  BY <1>3, <1>4, <1>5, Zenon DEF AveragePrice
<1> QED
  BY <1>1, <1>2, <1>6

(* What a mild comparison of the fills of an order says.                   *)
LEMMA FillGraded ==
  ASSUME NEW q, NEW o, NEW latest, NEW S, NEW T
  PROVE  /\ Graded(FillFindings(q, o, latest, S, T))
         /\ Mild(FillFindings(q, o, latest, S, T)) =>
              /\ \A r \in T : r.instrument = o.instrument /\ r.side = o.side
              /\ QuantityOf(S) \in Nat /\ QuantityOf(T) \in Nat => QuantityOf(T) = QuantityOf(S)
              /\ CashOf(T) - CashOf(S) = 0 \/ Within(CashOf(T) - CashOf(S), q.policy.cash)
<1> DEFINE A == FillIdentity(q, o, latest, T)
           B == IF Identified(T) = {} THEN {}
                ELSE IF OneToOne(S, T)
                  THEN UNION {FillByFill(q, f, T) : f \in S}
                  ELSE {Critical("FILL", "FILL_IDENTITY_MISMATCH", "MISMATCH", <<"fill-ids", o.id>>)}
           C == FillQuantities(o, S, T)
           D == EconomicDifferences(q, o.id, Amounts(S), Amounts(T))
           E == AveragePrice(q, o, S, T)
<1>1. FillFindings(q, o, latest, S, T) = UNION {A, B, C, D, E}
  BY DEF FillFindings
<1>2. Graded(A) /\ (Mild(A) => \A r \in T : r.instrument = o.instrument /\ r.side = o.side)
  <2>1. PICK c : c = (\E r \in T :
                        \/ <<r.instrument, r.type, r.side>> # <<o.instrument, o.type, o.side>>
                        \/ r.currency # q.receipt.after.currency
                        \/ ~ \E newest \in latest : r.source = newest.source)
    OBVIOUS
  <2>2. c \in BOOLEAN
    BY <2>1
  <2>3. A = When(c, Critical("FILL", "FILL_IDENTITY_MISMATCH", "MISMATCH", <<"identity", o.id>>))
    BY <2>1, Zenon DEF FillIdentity
  <2>4. Graded(A) /\ (Mild(A) => ~c)
    BY <2>2, <2>3, WhenCritical
  <2>5. ASSUME ~c, NEW r \in T PROVE r.instrument = o.instrument /\ r.side = o.side
    <3>1. <<r.instrument, r.type, r.side>> = <<o.instrument, o.type, o.side>>
      BY <2>1, <2>5
    <3> QED
      BY <3>1
  <2> QED
    BY <2>4, <2>5
<1>3. Graded(B)
  <2>1. \A f \in S : Graded(FillByFill(q, f, T))
    BY FillByFillGraded
  <2>2. Graded(UNION {FillByFill(q, f, T) : f \in S})
    BY <2>1 DEF Graded
  <2>3. Graded({Critical("FILL", "FILL_IDENTITY_MISMATCH", "MISMATCH", <<"fill-ids", o.id>>)})
    BY CriticalIs DEF Graded
  <2>4. Graded({})
    BY DEF Graded
  <2> QED
    BY <2>2, <2>3, <2>4
<1>4. /\ Graded(C)
      /\ Mild(C) /\ QuantityOf(S) \in Nat /\ QuantityOf(T) \in Nat => QuantityOf(T) = QuantityOf(S)
  BY QuantitiesGraded
<1>5. /\ Graded(D)
      /\ Mild(D) => CashOf(T) - CashOf(S) = 0 \/ Within(CashOf(T) - CashOf(S), q.policy.cash)
  BY EconomicGraded
<1>6. Graded(E)
  BY AverageGraded
<1> HIDE DEF A, B, C, D, E
<1>7. Graded(FillFindings(q, o, latest, S, T))
  BY <1>1, <1>2, <1>3, <1>4, <1>5, <1>6 DEF Graded
<1>8. Mild(FillFindings(q, o, latest, S, T)) => Mild(A) /\ Mild(C) /\ Mild(D)
  BY <1>1 DEF Mild
<1> QED
  BY <1>2, <1>4, <1>5, <1>7, <1>8

(* What a mild comparison of the cash balance says.                        *)
LEMMA CashGraded ==
  ASSUME NEW q
  PROVE  /\ Graded(CashFindings(q))
         /\ Mild(CashFindings(q)) =>
              LET delta == q.observed.snapshot.cash["total"] - q.receipt.after.cash["total"]
              IN  delta = 0 \/ Within(delta, q.policy.cash)
<1> DEFINE codes == [total |-> "CASH_TOTAL_MISMATCH", available |-> "CASH_AVAILABLE_MISMATCH",
                     frozen |-> "CASH_FROZEN_MISMATCH"]
           D(b) == Difference("CASH", codes[b], <<b>>,
                              q.observed.snapshot.cash[b] - q.receipt.after.cash[b], q.policy.cash)
<1>1. CashFindings(q) = UNION {D(b) : b \in DOMAIN codes}
  BY DEF CashFindings
<1>2. "total" \in DOMAIN codes
  OBVIOUS
<1> HIDE DEF codes
<1>3. \A b : Graded(D(b))
  BY DifferenceIs
<1>4. Mild(D("total")) => LET delta == q.observed.snapshot.cash["total"] - q.receipt.after.cash["total"]
                          IN  delta = 0 \/ Within(delta, q.policy.cash)
  BY DifferenceIs
<1> HIDE DEF D
<1> QED
  BY <1>1, <1>2, <1>3, <1>4 DEF Graded, Mild

(* What a mild comparison of a position says.                              *)
LEMMA PositionGraded ==
  ASSUME NEW q, NEW i, NEW x, NEW y
  PROVE  /\ Graded(PositionFindings(q, i, x, y))
         /\ Mild(PositionFindings(q, i, x, y)) => x.total = y.total
<1> DEFINE A == When(x.type # y.type, Critical("POSITION", "POSITION_TYPE_MISMATCH", "MISMATCH", i))
           B == When(x.total # y.total, Critical("POSITION", "POSITION_QUANTITY_MISMATCH", "MISMATCH", i))
           C == When(<<x.available, x.frozen, x.unsettled>> # <<y.available, y.frozen, y.unsettled>>,
                     Critical("POSITION", "POSITION_BUCKET_MISMATCH", "MISMATCH", i))
           D == Difference("POSITION", "POSITION_COST_MISMATCH", <<"basis", i>>,
                           y.basis - x.basis, q.policy.cost)
           E == Difference("POSITION", "POSITION_COST_MISMATCH", <<"average", i>>,
                           y.average - x.average, q.policy.cost)
<1>1. PositionFindings(q, i, x, y) = UNION {A, B, C, D, E}
  BY DEF PositionFindings
<1>2. Graded(A) /\ Graded(B) /\ Graded(C) /\ (Mild(B) => x.total = y.total)
  BY WhenCritical
<1>3. Graded(D) /\ Graded(E)
  BY DifferenceIs
<1> HIDE DEF A, B, C, D, E
<1>4. Graded(PositionFindings(q, i, x, y))
  BY <1>1, <1>2, <1>3 DEF Graded
<1>5. Mild(PositionFindings(q, i, x, y)) => Mild(B)
  BY <1>1 DEF Mild
<1> QED
  BY <1>2, <1>4, <1>5

(* Mild checks of the positions: what the receipt holds is what is seen.   *)
LEMMA PositionCheckIs ==
  ASSUME NEW q, NEW i
  PROVE  /\ Graded(PositionCheck(q, i).findings)
         /\ Mild(PositionCheck(q, i).findings) =>
              /\ i \in DOMAIN q.receipt.after.positions
              /\ i \in DOMAIN q.observed.snapshot.positions
              /\ q.receipt.after.positions[i].total = q.observed.snapshot.positions[i].total
<1> DEFINE x == q.receipt.after.positions
           y == q.observed.snapshot.positions
           A == Critical("POSITION", "POSITION_UNEXPECTED", "UNEXPECTED", i)
           B == Critical("POSITION", "POSITION_MISSING", "MISSING", i)
           F == IF i \notin DOMAIN x THEN {A}
                ELSE IF i \notin DOMAIN y THEN {B}
                ELSE PositionFindings(q, i, x[i], y[i])
<1>1. PositionCheck(q, i).findings = F
  BY DEF PositionCheck, Check
<1>2. A.severity = "CRITICAL" /\ B.severity = "CRITICAL"
  BY CriticalIs
<1>3. Graded(PositionFindings(q, i, x[i], y[i])) /\ (Mild(PositionFindings(q, i, x[i], y[i])) => x[i].total = y[i].total)
  BY PositionGraded
<1> HIDE DEF A, B, x, y
<1>4. Graded(F)
  BY <1>2, <1>3 DEF Graded
<1>5. Mild(F) => i \in DOMAIN x /\ i \in DOMAIN y /\ x[i].total = y[i].total
  BY <1>2, <1>3 DEF Mild
<1> QED
  BY <1>1, <1>4, <1>5 DEF x, y

(* The checks of the orders.                                               *)
LEMMA OrderChecksGraded ==
  ASSUME NEW q, NEW orders
  PROVE  /\ \A c \in OrderChecks(q, orders) : Graded(c.findings)
         /\ (\A c \in OrderChecks(q, orders) : Mild(c.findings)) =>
              \A o \in q.receipt.orders :
                /\ LatestReport(orders, o.id) # {}
                /\ \A r \in LatestReport(orders, o.id) : r.status = o.status /\ r.filled = o.filled
<1> DEFINE A == {Check(<<"order", o.id>>, OrderFindings(q, o, LatestReport(orders, o.id)))
                   : o \in q.receipt.orders}
           B == {Check(<<"draft-line", l.id>>,
                       {Critical("ORDER", "ORDER_MISSING", "MISSING", <<"line", l.id>>)})
                   : l \in {l \in q.draft.lines : \A o \in q.receipt.orders : o.line # l.id}}
           C == {Check(<<"unexpected-order", c>>,
                       {Critical("ORDER", "ORDER_UNEXPECTED", "UNEXPECTED", c)})
                   : c \in ClientsOf(orders) \ {o.id : o \in q.receipt.orders}}
<1>1. OrderChecks(q, orders) = A \cup B \cup C
  BY DEF OrderChecks
<1>2. \A id, F : Check(id, F).findings = F
  BY DEF Check
<1>3. \A c \in A : \E o \in q.receipt.orders : c.findings = OrderFindings(q, o, LatestReport(orders, o.id))
  BY <1>2
<1>4. \A d, code, s, e : Graded({Critical(d, code, s, e)})
  BY CriticalIs DEF Graded
<1>5. \A c \in B : Graded(c.findings)
  <2>1. ASSUME NEW c \in B PROVE Graded(c.findings)
    <3>1. PICK l \in q.draft.lines :
            c = Check(<<"draft-line", l.id>>,
                      {Critical("ORDER", "ORDER_MISSING", "MISSING", <<"line", l.id>>)})
      OBVIOUS
    <3>2. c.findings = {Critical("ORDER", "ORDER_MISSING", "MISSING", <<"line", l.id>>)}
      BY <1>2, <3>1
    <3> QED
      BY <1>4, <3>2
  <2> QED
    BY <2>1
<1>6. \A c \in C : Graded(c.findings)
  <2>1. ASSUME NEW c \in C PROVE Graded(c.findings)
    <3>1. PICK d \in ClientsOf(orders) :
            c = Check(<<"unexpected-order", d>>,
                      {Critical("ORDER", "ORDER_UNEXPECTED", "UNEXPECTED", d)})
      OBVIOUS
    <3>2. c.findings = {Critical("ORDER", "ORDER_UNEXPECTED", "UNEXPECTED", d)}
      BY <1>2, <3>1
    <3> QED
      BY <1>4, <3>2
  <2> QED
    BY <2>1
<1>7. \A c \in A : Graded(c.findings)
  BY <1>3, OrderGraded
<1>8. ASSUME \A c \in A : Mild(c.findings), NEW o \in q.receipt.orders
      PROVE  /\ LatestReport(orders, o.id) # {}
             /\ \A r \in LatestReport(orders, o.id) : r.status = o.status /\ r.filled = o.filled
  <2>1. PICK c \in A : c = Check(<<"order", o.id>>, OrderFindings(q, o, LatestReport(orders, o.id)))
    OBVIOUS
  <2>2. Mild(OrderFindings(q, o, LatestReport(orders, o.id)))
    BY <1>2, <1>8, <2>1
  <2> QED
    BY <2>2, OrderGraded
<1> HIDE DEF A, B, C
<1> QED
  BY <1>1, <1>5, <1>6, <1>7, <1>8

(* The checks of the fills.                                                *)
LEMMA FillChecksGraded ==
  ASSUME NEW q, NEW orders, NEW R
  PROVE  /\ \A c \in FillChecks(q, orders, R) : Graded(c.findings)
         /\ (\A c \in FillChecks(q, orders, R) : Mild(c.findings)) =>
              /\ ClientsOf(R) \subseteq {o.id : o \in q.receipt.orders}
              /\ \A o \in q.receipt.orders :
                   Mild(FillFindings(q, o, LatestReport(orders, o.id),
                                     {f \in q.receipt.fills : f.order = o.id}, Claiming(R, o.id)))
<1> DEFINE F(o) == FillFindings(q, o, LatestReport(orders, o.id),
                                {f \in q.receipt.fills : f.order = o.id}, Claiming(R, o.id))
           ids == {o.id : o \in q.receipt.orders}
           A == {Check(<<"fill", o.id>>, F(o)) : o \in q.receipt.orders}
           B == {Check(<<"fill", c>>, {Critical("FILL", "FILL_UNEXPECTED", "UNEXPECTED", c)})
                   : c \in ClientsOf(R) \ ids}
<1>1. FillChecks(q, orders, R) = A \cup B
  BY DEF FillChecks
<1>2. \A id, G : Check(id, G).findings = G
  BY DEF Check
<1>3. \A c \in A : Graded(c.findings)
  <2>1. \A o \in q.receipt.orders : Graded(F(o))
    BY FillGraded
  <2> HIDE DEF F
  <2> QED
    BY <1>2, <2>1
<1>4. \A c : Graded({Critical("FILL", "FILL_UNEXPECTED", "UNEXPECTED", c)})
             /\ ~Mild({Critical("FILL", "FILL_UNEXPECTED", "UNEXPECTED", c)})
  BY CriticalIs DEF Graded, Mild
<1>5. \A c \in B : Graded(c.findings)
  <2>1. ASSUME NEW c \in B PROVE Graded(c.findings)
    <3>1. PICK d \in ClientsOf(R) :
            c = Check(<<"fill", d>>, {Critical("FILL", "FILL_UNEXPECTED", "UNEXPECTED", d)})
      OBVIOUS
    <3>2. c.findings = {Critical("FILL", "FILL_UNEXPECTED", "UNEXPECTED", d)}
      BY <1>2, <3>1
    <3> QED
      BY <1>4, <3>2
  <2> QED
    BY <2>1
<1>6. ASSUME \A c \in A \cup B : Mild(c.findings)
      PROVE  ClientsOf(R) \subseteq ids /\ \A o \in q.receipt.orders : Mild(F(o))
  <2>1. ASSUME NEW c \in ClientsOf(R), c \notin ids PROVE FALSE
    <3>1. PICK d \in B : d = Check(<<"fill", c>>, {Critical("FILL", "FILL_UNEXPECTED", "UNEXPECTED", c)})
      BY <2>1
    <3>2. d.findings = {Critical("FILL", "FILL_UNEXPECTED", "UNEXPECTED", c)}
      BY <1>2, <3>1
    <3> QED
      BY <1>4, <1>6, <3>2
  <2>2. ASSUME NEW o \in q.receipt.orders PROVE Mild(F(o))
    <3> HIDE DEF F
    <3>1. PICK d \in A : d = Check(<<"fill", o.id>>, F(o))
      OBVIOUS
    <3>2. d.findings = F(o)
      BY <1>2, <3>1
    <3> QED
      BY <1>6, <3>2
  <2> QED
    BY <2>1, <2>2
<1> HIDE DEF A, B
<1> QED
  BY <1>1, <1>3, <1>5, <1>6

(* The gravest of warnings and at least one critical finding is critical.  *)
LEMMA GravestIs ==
  ASSUME NEW V, V \subseteq {"WARNING", "CRITICAL"}, "CRITICAL" \in V
  PROVE  SeverityRank[Gravest(SeverityRank, V, "INFO")] = 3
<1>1. SeverityRank["WARNING"] = 1 /\ SeverityRank["CRITICAL"] = 3
  BY DEF SeverityRank
<1>2. \E v \in V : \A w \in V : SeverityRank[w] <= SeverityRank[v]
  BY <1>1
<1> DEFINE g == CHOOSE v \in V : \A w \in V : SeverityRank[w] <= SeverityRank[v]
<1>3. g \in V /\ \A w \in V : SeverityRank[w] <= SeverityRank[g]
  BY <1>2
<1>4. Gravest(SeverityRank, V, "INFO") = g
  BY DEF Gravest
<1> HIDE DEF g
<1>5. SeverityRank[g] = 3
  BY <1>1, <1>3
<1> QED
  BY <1>4, <1>5

(* What every request has checked, and how a group of duplicates grades.   *)
ChecksOf(q) ==
  LET orders == Canonical("ORDER", q.observed.orders)
      fills == Canonical("FILL", q.observed.fills) IN
  OrderChecks(q, orders) \cup FillChecks(q, orders, fills) \cup {CashCheck(q)} \cup PositionChecks(q)

GroupsOf(q) ==
  DuplicateGroups("ORDER", q.observed.orders) \cup DuplicateGroups("FILL", q.observed.fills)

InputsOf(q) ==
  InputFindings(q) \cup LinkFindings(Canonical("ORDER", q.observed.orders),
                                     Canonical("FILL", q.observed.fills))

(* All findings and groups of a request are graded.                        *)
LEMMA AllGraded ==
  ASSUME NEW q
  PROVE  /\ Graded(InputsOf(q)) /\ \A c \in ChecksOf(q) : Graded(c.findings)
         /\ \A g \in GroupsOf(q) : GroupSeverity(g) \in {"WARNING", "CRITICAL"}
<1>1. Graded(InputsOf(q))
  BY InputGraded, LinkGraded DEF InputsOf, Graded
<1>2. Graded(CashCheck(q).findings)
  BY CashGraded DEF CashCheck, Check
<1>3. \A c \in PositionChecks(q) : Graded(c.findings)
  BY PositionCheckIs DEF PositionChecks
<1>4. \A c \in ChecksOf(q) : Graded(c.findings)
  BY <1>2, <1>3, OrderChecksGraded, FillChecksGraded DEF ChecksOf
<1>5. \A g \in GroupsOf(q) : GroupSeverity(g) \in {"WARNING", "CRITICAL"}
  BY DEF GroupSeverity
<1> QED
  BY <1>1, <1>4, <1>5

(* A check has the id it is made under.                                    *)
LEMMA CheckId == ASSUME NEW id, NEW findings PROVE Check(id, findings).id = id
BY DEF Check

(* No comparison is left out: every required check is made.                *)
LEMMA RequiredAreChecked ==
  ASSUME NEW q PROVE RequiredChecks(q) \subseteq {c.id : c \in ChecksOf(q)}
<1> DEFINE orders == Canonical("ORDER", q.observed.orders)
           fills == Canonical("FILL", q.observed.fills)
           owned == DOMAIN q.receipt.after.positions \cup DOMAIN q.observed.snapshot.positions
           idle == {l \in q.draft.lines : \A o \in q.receipt.orders : o.line # l.id}
<1>1. \A o \in q.receipt.orders :
        Check(<<"order", o.id>>, OrderFindings(q, o, LatestReport(orders, o.id))) \in OrderChecks(q, orders)
  BY DEF OrderChecks
<1>2. \A l \in idle :
        Check(<<"draft-line", l.id>>, {Critical("ORDER", "ORDER_MISSING", "MISSING", <<"line", l.id>>)})
          \in OrderChecks(q, orders)
  BY DEF OrderChecks
<1>3. \A o \in q.receipt.orders :
        Check(<<"fill", o.id>>,
              FillFindings(q, o, LatestReport(orders, o.id),
                           {f \in q.receipt.fills : f.order = o.id}, Claiming(fills, o.id)))
          \in FillChecks(q, orders, fills)
  BY DEF FillChecks
<1>4. CashCheck(q).id = <<"cash", q.receipt.after.account>>
  BY CheckId DEF CashCheck
<1>5. \A i \in owned : PositionCheck(q, i) \in PositionChecks(q)
  BY DEF PositionChecks
<1>6. \A i : PositionCheck(q, i).id = <<"position", i>>
  BY CheckId DEF PositionCheck
<1>7. ChecksOf(q) = OrderChecks(q, orders) \cup FillChecks(q, orders, fills) \cup {CashCheck(q)}
                      \cup PositionChecks(q)
  BY DEF ChecksOf
<1>8. \A l \in {l.id : l \in q.draft.lines} \ {o.line : o \in q.receipt.orders} :
        \E line \in idle : line.id = l
  OBVIOUS
<1>9. RequiredChecks(q) =
        {<<"order", o.id>> : o \in q.receipt.orders}
          \cup {<<"draft-line", l>> : l \in {l.id : l \in q.draft.lines} \ {o.line : o \in q.receipt.orders}}
          \cup {<<"fill", o.id>> : o \in q.receipt.orders}
          \cup {<<"cash", q.receipt.after.account>>}
          \cup {<<"position", i>> : i \in owned}
  BY DEF RequiredChecks
<1> SUFFICES ASSUME NEW id \in RequiredChecks(q) PROVE \E c \in ChecksOf(q) : c.id = id
  OBVIOUS
<1> HIDE DEF orders, fills, owned, idle
<1>10. CASE \E o \in q.receipt.orders : id = <<"order", o.id>>
  BY <1>1, <1>7, <1>10, CheckId
<1>11. CASE \E l \in {l.id : l \in q.draft.lines} \ {o.line : o \in q.receipt.orders} :
              id = <<"draft-line", l>>
  <2>1. PICK line \in idle : id = <<"draft-line", line.id>>
    BY <1>8, <1>11
  <2> QED
    BY <1>2, <1>7, <2>1, CheckId
<1>12. CASE \E o \in q.receipt.orders : id = <<"fill", o.id>>
  BY <1>3, <1>7, <1>12, CheckId
<1>13. CASE id = <<"cash", q.receipt.after.account>>
  BY <1>4, <1>7, <1>13
<1>14. CASE \E i \in owned : id = <<"position", i>>
  BY <1>5, <1>6, <1>7, <1>14
<1> QED
  BY <1>9, <1>10, <1>11, <1>12, <1>13, <1>14

(* A result that lets new orders go on has nothing critical in it.         *)
LEMMA UnstoppedIsMild ==
  ASSUME NEW q, q.policy.stopOn \in {"WARNING", "ERROR", "CRITICAL"},
         ~Result(q).stop.required
  PROVE  /\ Mild(InputsOf(q)) /\ \A c \in ChecksOf(q) : Mild(c.findings)
         /\ \A g \in GroupsOf(q) : g.class = "IDENTICAL"
<1>1. RequiredChecks(q) \subseteq {c.id : c \in ChecksOf(q)}
  BY RequiredAreChecked
<1>2. Result(q) = Assembled(q, InputsOf(q), GroupsOf(q), ChecksOf(q))
  BY DEF Result, InputsOf, GroupsOf, ChecksOf
<1> DEFINE findings == InputsOf(q) \cup UNION {c.findings : c \in ChecksOf(q)}
           V == {f.severity : f \in findings} \cup {GroupSeverity(g) : g \in GroupsOf(q)}
           s == Gravest(SeverityRank, V, "INFO")
<1>3. Result(q).stop = StopSignal(q.policy, findings, GroupsOf(q), s)
  BY <1>1, <1>2 DEF Assembled
<1>4. ~(SeverityRank[s] >= SeverityRank[q.policy.stopOn])
  <2> HIDE DEF s, findings
  <2>1. StopSignal(q.policy, findings, GroupsOf(q), s).required
          = (SeverityRank[s] >= SeverityRank[q.policy.stopOn])
    BY DEF StopSignal
  <2> QED
    BY <1>3, <2>1
<1>5. V \subseteq {"WARNING", "CRITICAL"}
  <2>1. \A f \in findings : f.severity \in {"WARNING", "CRITICAL"}
    BY AllGraded DEF Graded
  <2> HIDE DEF findings
  <2> QED
    BY <2>1, AllGraded
<1>6. "CRITICAL" \notin V
  <2> SUFFICES ASSUME "CRITICAL" \in V PROVE FALSE
    OBVIOUS
  <2>1. SeverityRank[s] = 3
    BY <1>5, GravestIs
  <2>2. SeverityRank[q.policy.stopOn] \in {1, 2, 3}
    BY DEF SeverityRank
  <2> HIDE DEF s, V
  <2> QED
    BY <1>4, <2>1, <2>2
<1>7. Mild(findings) /\ \A g \in GroupsOf(q) : GroupSeverity(g) # "CRITICAL"
  BY <1>6 DEF Mild
<1>8. Mild(InputsOf(q)) /\ \A c \in ChecksOf(q) : Mild(c.findings)
  BY <1>7 DEF Mild
<1>9. \A g \in GroupsOf(q) : g.class = "IDENTICAL"
  BY <1>7 DEF GroupSeverity
<1> QED
  BY <1>8, <1>9

-----------------------------------------------------------------------------
(* Duplicates.  Where no group of duplicates conflicts, the reports that   *)
(* count are one of each content.                                          *)

(* A content is its report but for what an envelope adds.                  *)
LEMMA PayloadKeeps ==
  ASSUME NEW r, NEW part \in DOMAIN r, part \notin {"report", "available"}
  PROVE  Payload(r)[part] = r[part] /\ part \in DOMAIN Payload(r)
BY DEF Payload

KeyParts(kind) ==
  IF kind = "ORDER" THEN {"system", "account", "source", "revision"} ELSE {"system", "account", "fill"}

(* Reports of one content share their source identity.                     *)
LEMMA ContentKey ==
  ASSUME NEW kind, NEW r, NEW s, KeyParts(kind) \subseteq DOMAIN r, KeyParts(kind) \subseteq DOMAIN s,
         Payload(r) = Payload(s)
  PROVE  DedupKey(kind, r) = DedupKey(kind, s)
<1>1. \A part \in KeyParts(kind) : r[part] = s[part]
  <2>1. KeyParts(kind) \cap {"report", "available"} = {}
    BY DEF KeyParts
  <2> QED
    BY <2>1, PayloadKeeps
<1>2. CASE kind = "ORDER"
  <2>1. r["system"] = s["system"] /\ r["account"] = s["account"] /\ r["source"] = s["source"]
          /\ r["revision"] = s["revision"]
    BY <1>1, <1>2 DEF KeyParts
  <2> QED
    BY <1>2, <2>1 DEF DedupKey, OrderKey
<1>3. CASE kind # "ORDER"
  <2>1. r["system"] = s["system"] /\ r["account"] = s["account"] /\ r["fill"] = s["fill"]
    BY <1>1, <1>3 DEF KeyParts
  <2> QED
    BY <1>3, <2>1 DEF DedupKey, FillKey
<1> QED
  BY <1>2, <1>3

(* Reports that agree have one content.                                    *)
LEMMA AgreeIs ==
  ASSUME NEW S, IsFiniteSet(S)
  PROVE  /\ Agree(S) => \A r, s \in S : Payload(r) = Payload(s)
         /\ \A r : S = {r} => Agree(S)
<1> DEFINE T == {Payload(r) : r \in S}
<1>1. ASSUME Agree(S), NEW r \in S, NEW s \in S PROVE Payload(r) = Payload(s)
  <2>1. Cardinality(T) = 1
    BY <1>1 DEF Agree
  <2>2. IsFiniteSet(T)
    <3> DEFINE g == [x \in S |-> Payload(x)]
    <3>1. T = {g[x] : x \in S}
      OBVIOUS
    <3> HIDE DEF g, T
    <3> QED
      BY <3>1, ImageFinite
  <2>3. Payload(r) \in T /\ Payload(s) \in T
    OBVIOUS
  <2> HIDE DEF T
  <2>4. PICK x : T = {x}
    BY <2>1, <2>2, FS_Singleton
  <2> QED
    BY <2>3, <2>4
<1>2. ASSUME NEW r, S = {r} PROVE Agree(S)
  <2>1. T = {Payload(r)}
    BY <1>2
  <2>2. Cardinality({Payload(r)}) = 1
    BY FS_Singleton
  <2> QED
    BY <2>1, <2>2 DEF Agree
<1> QED
  BY <1>1, <1>2

(* Without conflicting duplicates the reports that count are among those   *)
(* received, one of each content.                                          *)
LEMMA CanonicalStands ==
  ASSUME NEW kind, NEW B, IsFiniteSet(DOMAIN B),
         \A r \in DOMAIN B : B[r] \in Nat \ {0} /\ KeyParts(kind) \subseteq DOMAIN r,
         \A g \in DuplicateGroups(kind, B) : g.class = "IDENTICAL"
  PROVE  LET C == Canonical(kind, B) IN
         /\ C \subseteq DOMAIN B
         /\ \A r \in DOMAIN B : \E c \in C : Payload(c) = Payload(r)
         /\ \A c, d \in C : Payload(c) = Payload(d) => c = d
<1>1. Disputed(B) = {}
  <2> SUFFICES ASSUME NEW r \in Disputed(B) PROVE FALSE
    OBVIOUS
  <2>1. [kind |-> kind, by |-> "REPORT_ID", key |-> Envelope(r), class |-> "CONFLICTING"]
          \in DuplicateGroups(kind, B)
    BY DEF DuplicateGroups
  <2> QED
    BY <2>1
<1>2. Undisputed(B) = DOMAIN B
  BY <1>1 DEF Undisputed, BagToSet
<1>3. \A r \in DOMAIN B : /\ Alike(kind, B, r) \subseteq DOMAIN B /\ r \in Alike(kind, B, r)
                          /\ IsFiniteSet(Alike(kind, B, r))
  <2>1. \A r \in DOMAIN B : Alike(kind, B, r) \subseteq DOMAIN B /\ r \in Alike(kind, B, r)
    BY <1>2 DEF Alike
  <2> QED
    BY <2>1, FS_Subset
<1>4. ASSUME NEW r \in DOMAIN B PROVE Agree(Alike(kind, B, r))
  <2>1. PICK S : S = Alike(kind, B, r)
    OBVIOUS
  <2>2. r \in S /\ S \subseteq DOMAIN B /\ IsFiniteSet(S)
    BY <1>3, <2>1
  <2>3. CASE \E s \in S : s # r
    <3>1. PICK s \in S : s # r
      BY <2>3
    <3>2. SumOver(B, S) > 1
      <4>1. \A x \in S : B[x] \in Nat /\ B[x] \in Int
        BY <2>2
      <4>2. SumOver(B, {} \cup {r}) = SumOver(B, {}) + B[r]
        <5>1. {} \subseteq S /\ r \in S \ {}
          BY <2>2
        <5> QED
          BY <2>2, <4>1, <5>1, SumAdd
      <4>3. SumOver(B, {r} \cup {s}) = SumOver(B, {r}) + B[s]
        <5>1. {r} \subseteq S /\ s \in S \ {r}
          BY <2>2, <3>1
        <5> QED
          BY <2>2, <4>1, <5>1, SumAdd
      <4>4. {} \cup {r} = {r} /\ SumOver(B, {}) = 0
        BY SumEmpty
      <4>5. PICK T : T = {r} \cup {s}
        OBVIOUS
      <4>6. SumOver(B, T) = B[r] + B[s]
        <5>1. SumOver(B, {r}) = 0 + B[r]
          BY <4>2, <4>4
        <5>2. B[r] \in Int /\ B[s] \in Int
          BY <2>2, <3>1, <4>1
        <5>3. SumOver(B, T) = SumOver(B, {r}) + B[s]
          BY <4>3, <4>5
        <5> QED
          BY <5>1, <5>2, <5>3
      <4>7. SumOver(B, T) <= SumOver(B, S) /\ SumOver(B, S) \in Nat
        <5>1. T \subseteq S
          BY <2>2, <3>1, <4>5
        <5> QED
          BY <2>2, <4>1, <5>1, SumPart
      <4>8. B[r] >= 1 /\ B[s] >= 1 /\ B[r] \in Nat /\ B[s] \in Nat
        BY <2>2, <3>1
      <4> QED
        BY <4>6, <4>7, <4>8
    <3>3. MapThenSumSet(LAMBDA x : B[x], S) > 1
      BY <3>2 DEF SumOver
    <3>4. [kind |-> kind, by |-> "SOURCE_IDENTITY", key |-> DedupKey(kind, r),
           class |-> IF Agree(Alike(kind, B, r)) THEN "IDENTICAL" ELSE "CONFLICTING"]
            \in DuplicateGroups(kind, B)
      BY <1>2, <2>1, <3>3 DEF DuplicateGroups
    <3> QED
      BY <3>4
  <2>4. CASE \A s \in S : s = r
    <3>1. S = {r}
      BY <2>2, <2>4
    <3> QED
      BY <2>1, <2>2, <3>1, AgreeIs
  <2> QED
    BY <2>3, <2>4
<1> DEFINE Of(r) == CHOOSE s \in Alike(kind, B, r) : TRUE
<1>5. Canonical(kind, B) = {Of(r) : r \in DOMAIN B}
  <2>1. {r \in Undisputed(B) : Agree(Alike(kind, B, r))} = DOMAIN B
    BY <1>2, <1>4
  <2> QED
    BY <2>1 DEF Canonical
<1>6. ASSUME NEW r \in DOMAIN B
      PROVE  Of(r) \in Alike(kind, B, r) /\ Of(r) \in DOMAIN B /\ DedupKey(kind, Of(r)) = DedupKey(kind, r)
  <2>1. Of(r) \in Alike(kind, B, r)
    BY <1>3
  <2> HIDE DEF Of
  <2> QED
    BY <1>3, <2>1 DEF Alike
<1>7. ASSUME NEW r \in DOMAIN B PROVE Payload(Of(r)) = Payload(r)
  <2> HIDE DEF Of
  <2> QED
    BY <1>3, <1>4, <1>6, AgreeIs
<1>8. ASSUME NEW r \in DOMAIN B, NEW t \in DOMAIN B, Payload(Of(r)) = Payload(Of(t))
      PROVE  Of(r) = Of(t)
  <2>1. DedupKey(kind, Of(r)) = DedupKey(kind, Of(t))
    <3> HIDE DEF Of
    <3> QED
      BY <1>6, <1>8, ContentKey
  <2>2. DedupKey(kind, r) = DedupKey(kind, t)
    <3> HIDE DEF Of
    <3> QED
      BY <1>6, <2>1
  <2>3. Alike(kind, B, r) = Alike(kind, B, t)
    BY <2>2 DEF Alike
  <2> QED
    BY <2>3
<1> HIDE DEF Of
<1> QED
  BY <1>5, <1>6, <1>7, <1>8

-----------------------------------------------------------------------------
(* What fills are worth together.                                          *)

(* The totals of the engine as sums of values.                             *)
LEMMA CashOfIs ==
  ASSUME NEW X, IsFiniteSet(X)
  PROVE  CashOf(X) = SumOver([f \in X |-> Cash(f)], X)
<1> DEFINE v == [f \in X |-> Cash(f)]
           h == CHOOSE g : g = [s \in SUBSET X |-> IF s = {} THEN 0 ELSE Cash(Pick(s)) + g[s \ {Pick(s)}]]
<1>1. PICK g : Sums(v, X, g)
  BY IterExists
<1>2. \A s \in SUBSET X : s # {} => v[Pick(s)] = Cash(Pick(s))
  BY DEF Pick
<1> HIDE DEF v
<1>3. g = [s \in SUBSET X |-> IF s = {} THEN 0 ELSE Cash(Pick(s)) + g[s \ {Pick(s)}]]
  BY <1>1, <1>2 DEF Sums
<1>4. h = [s \in SUBSET X |-> IF s = {} THEN 0 ELSE Cash(Pick(s)) + h[s \ {Pick(s)}]]
  BY <1>3
<1>5. CashOf(X) = h[X]
  BY DEF CashOf, MapThenSumSet, MapThenFoldSet, Pick
<1> HIDE DEF h
<1>6. Sums(v, X, h)
  BY <1>4, <1>2 DEF Sums
<1> QED
  BY <1>5, <1>6, SumOverIs DEF v

(* The units of fills as a sum of values.                                  *)
LEMMA UnitsOfIs ==
  ASSUME NEW X, IsFiniteSet(X)
  PROVE  UnitsOf(X) = SumOver([f \in X |-> Units(f)], X)
<1> DEFINE v == [f \in X |-> Units(f)]
           h == CHOOSE g : g = [s \in SUBSET X |-> IF s = {} THEN 0 ELSE Units(Pick(s)) + g[s \ {Pick(s)}]]
<1>1. PICK g : Sums(v, X, g)
  BY IterExists
<1>2. \A s \in SUBSET X : s # {} => v[Pick(s)] = Units(Pick(s))
  BY DEF Pick
<1> HIDE DEF v
<1>3. g = [s \in SUBSET X |-> IF s = {} THEN 0 ELSE Units(Pick(s)) + g[s \ {Pick(s)}]]
  BY <1>1, <1>2 DEF Sums
<1>4. h = [s \in SUBSET X |-> IF s = {} THEN 0 ELSE Units(Pick(s)) + h[s \ {Pick(s)}]]
  BY <1>3
<1>5. UnitsOf(X) = h[X]
  BY DEF UnitsOf, MapThenSumSet, MapThenFoldSet, Pick
<1> HIDE DEF h
<1>6. Sums(v, X, h)
  BY <1>4, <1>2 DEF Sums
<1> QED
  BY <1>5, <1>6, SumOverIs DEF v

(* The quantity of fills as a sum of values.                               *)
LEMMA QuantityOfIs ==
  ASSUME NEW X, IsFiniteSet(X)
  PROVE  QuantityOf(X) = SumOver([f \in X |-> f.quantity], X)
<1> DEFINE v == [f \in X |-> f.quantity]
           h == CHOOSE g : g = [s \in SUBSET X |-> IF s = {} THEN 0 ELSE Pick(s).quantity + g[s \ {Pick(s)}]]
<1>1. PICK g : Sums(v, X, g)
  BY IterExists
<1>2. \A s \in SUBSET X : s # {} => v[Pick(s)] = Pick(s).quantity
  BY DEF Pick
<1> HIDE DEF v
<1>3. g = [s \in SUBSET X |-> IF s = {} THEN 0 ELSE Pick(s).quantity + g[s \ {Pick(s)}]]
  BY <1>1, <1>2 DEF Sums
<1>4. h = [s \in SUBSET X |-> IF s = {} THEN 0 ELSE Pick(s).quantity + h[s \ {Pick(s)}]]
  BY <1>3
<1>5. QuantityOf(X) = h[X]
  BY DEF QuantityOf, MapThenSumSet, MapThenFoldSet, Pick
<1> HIDE DEF h
<1>6. Sums(v, X, h)
  BY <1>4, <1>2 DEF Sums
<1> QED
  BY <1>5, <1>6, SumOverIs DEF v

(* The same for part of a set whose values one function gives.             *)
LEMMA TotalsOver ==
  ASSUME NEW S, IsFiniteSet(S), NEW T, T \subseteq S
  PROVE  /\ CashOf(T) = SumOver([f \in S |-> Cash(f)], T)
         /\ UnitsOf(T) = SumOver([f \in S |-> Units(f)], T)
         /\ QuantityOf(T) = SumOver([f \in S |-> f.quantity], T)
<1>1. IsFiniteSet(T)
  BY FS_Subset
<1>2. SumOver([f \in S |-> Cash(f)], T) = SumOver([f \in T |-> Cash(f)], T)
  <2> DEFINE v == [f \in S |-> Cash(f)]
             w == [f \in T |-> Cash(f)]
  <2>1. \A f \in T : v[f] = w[f]
    OBVIOUS
  <2> HIDE DEF v, w
  <2>2. SumOver(v, T) = SumOver(w, T)
    BY <1>1, <2>1, SumCongruence
  <2> QED
    BY <2>2 DEF v, w
<1>3. SumOver([f \in S |-> Units(f)], T) = SumOver([f \in T |-> Units(f)], T)
  <2> DEFINE v == [f \in S |-> Units(f)]
             w == [f \in T |-> Units(f)]
  <2>1. \A f \in T : v[f] = w[f]
    OBVIOUS
  <2> HIDE DEF v, w
  <2>2. SumOver(v, T) = SumOver(w, T)
    BY <1>1, <2>1, SumCongruence
  <2> QED
    BY <2>2 DEF v, w
<1>4. SumOver([f \in S |-> f.quantity], T) = SumOver([f \in T |-> f.quantity], T)
  <2> DEFINE v == [f \in S |-> f.quantity]
             w == [f \in T |-> f.quantity]
  <2>1. \A f \in T : v[f] = w[f]
    OBVIOUS
  <2> HIDE DEF v, w
  <2>2. SumOver(v, T) = SumOver(w, T)
    BY <1>1, <2>1, SumCongruence
  <2> QED
    BY <2>2 DEF v, w
<1> QED
  BY <1>1, <1>2, <1>3, <1>4, CashOfIs, UnitsOfIs, QuantityOfIs, Zenon

(* Amounts of a fill are integers.                                         *)
AmountsTyped(f) ==
  /\ f.quantity \in Nat /\ f.price \in Int
  /\ f.commission \in Int /\ f.stamp \in Int /\ f.transfer \in Int /\ f.other \in Int

(* What one fill is worth is an integer.                                   *)
LEMMA FillWorth ==
  ASSUME NEW f, AmountsTyped(f)
  PROVE  Cash(f) \in Int /\ Units(f) \in Int /\ f.quantity \in Nat
<1>1. f.quantity * f.price \in Int
  BY DEF AmountsTyped
<1>2. f.commission + f.stamp + f.transfer + f.other \in Int
  BY DEF AmountsTyped
<1>3. Gross(f) \in Int /\ Fee(f) \in Int
  BY <1>1, <1>2 DEF Gross, Fee
<1>4. Cash(f) \in Int
  BY <1>3 DEF Cash
<1> QED
  BY <1>4 DEF Units, AmountsTyped

(* What fills are worth together is an integer.                            *)
LEMMA TotalsTyped ==
  ASSUME NEW S, IsFiniteSet(S), \A f \in S : AmountsTyped(f)
  PROVE  CashOf(S) \in Int /\ UnitsOf(S) \in Int /\ QuantityOf(S) \in Nat
<1> DEFINE u == [f \in S |-> Cash(f)]
           v == [f \in S |-> Units(f)]
           w == [f \in S |-> f.quantity]
<1>1. \A f \in S : u[f] \in Int /\ v[f] \in Int /\ w[f] \in Nat
  BY FillWorth
<1>2. CashOf(S) = SumOver(u, S) /\ UnitsOf(S) = SumOver(v, S) /\ QuantityOf(S) = SumOver(w, S)
  BY CashOfIs, UnitsOfIs, QuantityOfIs
<1> HIDE DEF u, v, w
<1> QED
  BY <1>1, <1>2, SumType, SumNat

(* Fills on one side move as many units as they trade.                     *)
LEMMA OneSided ==
  ASSUME NEW S, IsFiniteSet(S), NEW side, \A f \in S : AmountsTyped(f) /\ f.side = side
  PROVE  UnitsOf(S) = IF side = "BUY" THEN QuantityOf(S) ELSE -QuantityOf(S)
<1> DEFINE v == [f \in S |-> Units(f)]
           w == [f \in S |-> f.quantity]
           c == IF side = "BUY" THEN 1 ELSE -1
<1>1. \A f \in S : w[f] \in Int /\ v[f] = c * w[f]
  BY DEF AmountsTyped, Units
<1>2. c \in Int /\ (side = "BUY" => c = 1) /\ (side # "BUY" => c = -1)
  OBVIOUS
<1>3. UnitsOf(S) = SumOver(v, S) /\ QuantityOf(S) = SumOver(w, S) /\ QuantityOf(S) \in Nat
  BY UnitsOfIs, QuantityOfIs, TotalsTyped
<1> HIDE DEF v, w, c
<1>4. SumOver(v, S) = c * SumOver(w, S)
  BY <1>1, <1>2, SumTimes
<1> QED
  BY <1>2, <1>3, <1>4

(* What a reported fill is made of.                                        *)
FillShape(r) ==
  /\ {"system", "account", "fill", "source", "client", "clientFill", "at", "instrument", "type",
      "side", "currency", "quantity", "price", "commission", "stamp", "transfer", "other"}
       \subseteq DOMAIN r
  /\ AmountsTyped(r)

(* A content is worth what its report is.                                  *)
LEMMA ContentWorth ==
  ASSUME NEW r, FillShape(r)
  PROVE  /\ AmountsTyped(Payload(r)) /\ Cash(Payload(r)) = Cash(r) /\ Units(Payload(r)) = Units(r)
         /\ Payload(r).quantity = r.quantity /\ Payload(r).client = r.client
         /\ Payload(r).instrument = r.instrument
<1> DEFINE p == Payload(r)
<1>1. \A part \in {"client", "instrument", "side", "quantity", "price", "commission", "stamp",
                   "transfer", "other"} : p[part] = r[part]
  <2>1. \A part \in {"client", "instrument", "side", "quantity", "price", "commission", "stamp",
                     "transfer", "other"} : part \in DOMAIN r /\ part \notin {"report", "available"}
    BY DEF FillShape
  <2> QED
    BY <2>1, PayloadKeeps
<1> HIDE DEF p
<1>2. /\ p["client"] = r["client"] /\ p["instrument"] = r["instrument"] /\ p["side"] = r["side"]
      /\ p["quantity"] = r["quantity"] /\ p["price"] = r["price"]
      /\ p["commission"] = r["commission"] /\ p["stamp"] = r["stamp"]
      /\ p["transfer"] = r["transfer"] /\ p["other"] = r["other"]
  BY <1>1
<1>3. AmountsTyped(p)
  BY <1>2 DEF FillShape, AmountsTyped
<1>4. Cash(p) = Cash(r)
  BY <1>2 DEF Cash, Gross, Fee
<1>5. Units(p) = Units(r)
  BY <1>2 DEF Units
<1> QED
  BY <1>2, <1>3, <1>4, <1>5 DEF p

(* The contents of reports.                                                *)
Contents(S) == {Payload(r) : r \in S}

(* Contents together are worth what their reports are, as long as          *)
(* different reports differ in content.                                    *)
LEMMA ContentsWorth ==
  ASSUME NEW S, IsFiniteSet(S), \A r \in S : FillShape(r),
         \A r, s \in S : Payload(r) = Payload(s) => r = s
  PROVE  /\ CashOf(Contents(S)) = CashOf(S) /\ UnitsOf(Contents(S)) = UnitsOf(S)
         /\ QuantityOf(Contents(S)) = QuantityOf(S)
<1> DEFINE P == Contents(S)
           g == [r \in S |-> Payload(r)]
<1>1. P = {g[r] : r \in S} /\ \A r \in S : g[r] = Payload(r)
  BY DEF Contents
<1> HIDE DEF P, g
<1>2. IsFiniteSet(P)
  BY <1>1, ImageFinite
<1>3. \A r \in S : g[r] \in P
  BY <1>1
<1>4. \A x, y \in S : g[x] = g[y] => x = y
  BY <1>1
<1>5. CashOf(P) = CashOf(S)
  <2> DEFINE v == [f \in P |-> Cash(f)]
             w == [f \in S |-> Cash(f)]
  <2>1. \A x \in S : v[g[x]] \in Int /\ w[x] = v[g[x]]
    BY <1>1, <1>3, ContentWorth, FillWorth DEF FillShape
  <2>2. CashOf(P) = SumOver(v, P) /\ CashOf(S) = SumOver(w, S)
    BY <1>2, CashOfIs
  <2> HIDE DEF v, w
  <2>3. SumOver(v, {g[x] : x \in S}) = SumOver(w, S)
    BY <1>4, <2>1, SumImage
  <2> QED
    BY <1>1, <2>2, <2>3
<1>6. UnitsOf(P) = UnitsOf(S)
  <2> DEFINE v == [f \in P |-> Units(f)]
             w == [f \in S |-> Units(f)]
  <2>1. \A x \in S : v[g[x]] \in Int /\ w[x] = v[g[x]]
    BY <1>1, <1>3, ContentWorth, FillWorth DEF FillShape
  <2>2. UnitsOf(P) = SumOver(v, P) /\ UnitsOf(S) = SumOver(w, S)
    BY <1>2, UnitsOfIs
  <2> HIDE DEF v, w
  <2>3. SumOver(v, {g[x] : x \in S}) = SumOver(w, S)
    BY <1>4, <2>1, SumImage
  <2> QED
    BY <1>1, <2>2, <2>3
<1>7. QuantityOf(P) = QuantityOf(S)
  <2> DEFINE v == [f \in P |-> f.quantity]
             w == [f \in S |-> f.quantity]
  <2>1. \A x \in S : v[g[x]] \in Int /\ w[x] = v[g[x]]
    BY <1>1, <1>3, ContentWorth, FillWorth DEF FillShape
  <2>2. QuantityOf(P) = SumOver(v, P) /\ QuantityOf(S) = SumOver(w, S)
    BY <1>2, QuantityOfIs
  <2> HIDE DEF v, w
  <2>3. SumOver(v, {g[x] : x \in S}) = SumOver(w, S)
    BY <1>4, <2>1, SumImage
  <2> QED
    BY <1>1, <2>2, <2>3
<1> QED
  BY <1>5, <1>6, <1>7 DEF P

(* What the fills of every order say together, where the orders' ids tell  *)
(* the orders apart and every fill is of one of them.                      *)
LEMMA CashByOrder ==
  ASSUME NEW O, IsFiniteSet(O), \A o, p \in O : o.id = p.id => o = p,
         NEW S, IsFiniteSet(S), NEW key, \A f \in S : AmountsTyped(f) /\ \E o \in O : key[f] = o.id,
         NEW w, \A o \in O : w[o] = CashOf(Class(S, key, o.id))
  PROVE  CashOf(S) = SumOver(w, O)
<1> DEFINE v == [f \in S |-> Cash(f)]
           of == [f \in S |-> CHOOSE o \in O : key[f] = o.id]
<1>1. \A f \in S : of[f] \in O /\ key[f] = of[f].id
  OBVIOUS
<1>2. \A f \in S : v[f] \in Int
  BY FillWorth
<1>3. CashOf(S) = SumOver(v, S)
  BY CashOfIs
<1>4. ASSUME NEW o \in O PROVE w[o] = SumOver(v, Class(S, of, o))
  <2>1. Class(S, of, o) = Class(S, key, o.id)
    <3> HIDE DEF of
    <3> QED
      BY <1>1 DEF Class
  <2>2. Class(S, key, o.id) \subseteq S
    BY DEF Class
  <2>3. CashOf(Class(S, key, o.id)) = SumOver(v, Class(S, key, o.id))
    BY <2>2, TotalsOver
  <2> QED
    BY <2>1, <2>3
<1> HIDE DEF v, of
<1>5. SumOver(v, S) = SumOver(w, O)
  BY <1>1, <1>2, <1>4, SumGrouped
<1> QED
  BY <1>3, <1>5

(* The same for their units.                                               *)
LEMMA UnitsByOrder ==
  ASSUME NEW O, IsFiniteSet(O), \A o, p \in O : o.id = p.id => o = p,
         NEW S, IsFiniteSet(S), NEW key, \A f \in S : AmountsTyped(f) /\ \E o \in O : key[f] = o.id,
         NEW w, \A o \in O : w[o] = UnitsOf(Class(S, key, o.id))
  PROVE  UnitsOf(S) = SumOver(w, O)
<1> DEFINE v == [f \in S |-> Units(f)]
           of == [f \in S |-> CHOOSE o \in O : key[f] = o.id]
<1>1. \A f \in S : of[f] \in O /\ key[f] = of[f].id
  OBVIOUS
<1>2. \A f \in S : v[f] \in Int
  BY FillWorth
<1>3. UnitsOf(S) = SumOver(v, S)
  BY UnitsOfIs
<1>4. ASSUME NEW o \in O PROVE w[o] = SumOver(v, Class(S, of, o))
  <2>1. Class(S, of, o) = Class(S, key, o.id)
    <3> HIDE DEF of
    <3> QED
      BY <1>1 DEF Class
  <2>2. Class(S, key, o.id) \subseteq S
    BY DEF Class
  <2>3. UnitsOf(Class(S, key, o.id)) = SumOver(v, Class(S, key, o.id))
    BY <2>2, TotalsOver
  <2> QED
    BY <2>1, <2>3
<1> HIDE DEF v, of
<1>5. SumOver(v, S) = SumOver(w, O)
  BY <1>1, <1>2, <1>4, SumGrouped
<1> QED
  BY <1>3, <1>5

(* Fills of one order, reported and on the receipt: on the order's side of *)
(* its instrument, as many units, and as much cash up to the tolerance.    *)
Corresponds(o, C, X, t) ==
  LET seen == {r \in C : r.client = o.id}
      due == {f \in X : f.order = o.id} IN
  /\ \A r \in seen : r.instrument = o.instrument /\ r.side = o.side
  /\ \A f \in due : f.instrument = o.instrument /\ f.side = o.side
  /\ QuantityOf(seen) = QuantityOf(due)
  /\ CashOf(seen) - CashOf(due) <= t /\ CashOf(due) - CashOf(seen) <= t

Correspond(O, C, X, t) ==
  /\ IsFiniteSet(O) /\ \A o, p \in O : o.id = p.id => o = p
  /\ IsFiniteSet(C) /\ \A r \in C : AmountsTyped(r) /\ \E o \in O : r.client = o.id
  /\ IsFiniteSet(X) /\ \A f \in X : AmountsTyped(f) /\ \E o \in O : f.order = o.id
  /\ \A o \in O : Corresponds(o, C, X, t)

(* Where the fills of every order correspond, the cash of all of them      *)
(* agrees up to a tolerance for every order, and their units exactly.      *)
LEMMA CashCorresponds ==
  ASSUME NEW O, NEW C, NEW X, NEW t \in Int, Correspond(O, C, X, t)
  PROVE  /\ CashOf(C) - CashOf(X) <= t * Cardinality(O)
         /\ CashOf(X) - CashOf(C) <= t * Cardinality(O)
<1>a. /\ IsFiniteSet(O) /\ \A o, p \in O : o.id = p.id => o = p
      /\ IsFiniteSet(C) /\ \A r \in C : AmountsTyped(r) /\ \E o \in O : r.client = o.id
      /\ IsFiniteSet(X) /\ \A f \in X : AmountsTyped(f) /\ \E o \in O : f.order = o.id
      /\ \A o \in O : Corresponds(o, C, X, t)
  BY DEF Correspond
<1> USE <1>a
<1> DEFINE seen(o) == {r \in C : r.client = o.id}
           due(o) == {f \in X : f.order = o.id}
           kC == [r \in C |-> r.client]
           kX == [f \in X |-> f.order]
           v == [o \in O |-> CashOf(seen(o))]
           w == [o \in O |-> CashOf(due(o))]
<1>1. CashOf(C) = SumOver(v, O)
  <2>1. \A o \in O : v[o] = CashOf(Class(C, kC, o.id))
    <3>1. \A o \in O : Class(C, kC, o.id) = seen(o)
      BY DEF Class
    <3> QED
      BY <3>1
  <2>2. \A r \in C : AmountsTyped(r) /\ \E o \in O : kC[r] = o.id
    OBVIOUS
  <2>3. /\ IsFiniteSet(O) /\ \A o, p \in O : o.id = p.id => o = p
        /\ IsFiniteSet(C)
    OBVIOUS
  <2> HIDE DEF v, kC
  <2> QED
    BY ONLY <2>1, <2>2, <2>3, CashByOrder
<1>2. CashOf(X) = SumOver(w, O)
  <2>1. \A o \in O : w[o] = CashOf(Class(X, kX, o.id))
    <3>1. \A o \in O : Class(X, kX, o.id) = due(o)
      BY DEF Class
    <3> QED
      BY <3>1
  <2>2. \A f \in X : AmountsTyped(f) /\ \E o \in O : kX[f] = o.id
    OBVIOUS
  <2>3. /\ IsFiniteSet(O) /\ \A o, p \in O : o.id = p.id => o = p
        /\ IsFiniteSet(X)
    OBVIOUS
  <2> HIDE DEF w, kX
  <2> QED
    BY ONLY <2>1, <2>2, <2>3, CashByOrder
<1>3. ASSUME NEW o \in O
      PROVE  v[o] \in Int /\ w[o] \in Int /\ v[o] - w[o] <= t /\ w[o] - v[o] <= t
  <2>1. IsFiniteSet(seen(o)) /\ IsFiniteSet(due(o))
    BY FS_Subset
  <2>2. CashOf(seen(o)) \in Int /\ CashOf(due(o)) \in Int
    <3>1. (\A r \in seen(o) : AmountsTyped(r)) /\ (\A f \in due(o) : AmountsTyped(f))
      OBVIOUS
    <3> HIDE DEF seen, due
    <3> QED
      BY <2>1, <3>1, TotalsTyped
  <2>3. CashOf(seen(o)) - CashOf(due(o)) <= t /\ CashOf(due(o)) - CashOf(seen(o)) <= t
    BY DEF Corresponds
  <2> HIDE DEF seen, due
  <2> QED
    BY <2>2, <2>3
<1> HIDE DEF v, w
<1>4. /\ SumOver(v, O) - SumOver(w, O) <= t * Cardinality(O)
      /\ SumOver(w, O) - SumOver(v, O) <= t * Cardinality(O)
  BY <1>3, SumNear
<1> QED
  BY <1>1, <1>2, <1>4

(* The fills of one instrument.                                            *)
Traded(S, i) == {f \in S : f.instrument = i}

(* The same for the units of one instrument, without a tolerance.          *)
LEMMA UnitsCorrespond ==
  ASSUME NEW O, NEW C, NEW X, NEW t, Correspond(O, C, X, t), NEW i
  PROVE  UnitsOf(Traded(C, i)) = UnitsOf(Traded(X, i))
<1>a. /\ IsFiniteSet(O) /\ \A o, p \in O : o.id = p.id => o = p
      /\ IsFiniteSet(C) /\ \A r \in C : AmountsTyped(r) /\ \E o \in O : r.client = o.id
      /\ IsFiniteSet(X) /\ \A f \in X : AmountsTyped(f) /\ \E o \in O : f.order = o.id
      /\ \A o \in O : Corresponds(o, C, X, t)
  BY DEF Correspond
<1> USE <1>a
<1> DEFINE Ci == {r \in C : r.instrument = i}
           Xi == {f \in X : f.instrument = i}
           kC == [r \in Ci |-> r.client]
           kX == [f \in Xi |-> f.order]
           v == [o \in O |-> UnitsOf(Class(Ci, kC, o.id))]
           w == [o \in O |-> UnitsOf(Class(Xi, kX, o.id))]
<1>0. IsFiniteSet(Ci) /\ IsFiniteSet(Xi)
  BY FS_Subset
<1>1. UnitsOf(Ci) = SumOver(v, O)
  <2>1. \A o \in O : v[o] = UnitsOf(Class(Ci, kC, o.id))
    OBVIOUS
  <2>2. \A r \in Ci : AmountsTyped(r) /\ \E o \in O : kC[r] = o.id
    OBVIOUS
  <2>3. /\ IsFiniteSet(O) /\ \A o, p \in O : o.id = p.id => o = p
        /\ IsFiniteSet(Ci)
    BY <1>0
  <2> HIDE DEF v, kC, Ci
  <2> QED
    BY ONLY <2>1, <2>2, <2>3, UnitsByOrder
<1>2. UnitsOf(Xi) = SumOver(w, O)
  <2>1. \A o \in O : w[o] = UnitsOf(Class(Xi, kX, o.id))
    OBVIOUS
  <2>2. \A f \in Xi : AmountsTyped(f) /\ \E o \in O : kX[f] = o.id
    OBVIOUS
  <2>3. /\ IsFiniteSet(O) /\ \A o, p \in O : o.id = p.id => o = p
        /\ IsFiniteSet(Xi)
    BY <1>0
  <2> HIDE DEF w, kX, Xi
  <2> QED
    BY ONLY <2>1, <2>2, <2>3, UnitsByOrder
<1>3. ASSUME NEW o \in O PROVE v[o] = w[o]
  <2> DEFINE seen == {r \in C : r.client = o.id}
             due == {f \in X : f.order = o.id}
             A == Class(Ci, kC, o.id)
             B == Class(Xi, kX, o.id)
  <2>1. /\ \A r \in seen : r.instrument = o.instrument /\ r.side = o.side
        /\ \A f \in due : f.instrument = o.instrument /\ f.side = o.side
        /\ QuantityOf(seen) = QuantityOf(due)
    BY DEF Corresponds
  <2>2. CASE o.instrument = i
    <3>1. A = seen /\ B = due
      BY <2>1, <2>2 DEF Class
    <3>2. IsFiniteSet(seen) /\ IsFiniteSet(due)
      BY FS_Subset
    <3>3. (\A r \in seen : AmountsTyped(r)) /\ (\A f \in due : AmountsTyped(f))
      OBVIOUS
    <3> HIDE DEF seen, due
    <3>4. UnitsOf(seen) = IF o.side = "BUY" THEN QuantityOf(seen) ELSE -QuantityOf(seen)
      BY <2>1, <3>2, <3>3, OneSided
    <3>5. UnitsOf(due) = IF o.side = "BUY" THEN QuantityOf(due) ELSE -QuantityOf(due)
      BY <2>1, <3>2, <3>3, OneSided
    <3>6. v[o] = UnitsOf(A) /\ w[o] = UnitsOf(B)
      OBVIOUS
    <3> HIDE DEF A, B, v, w
    <3> QED
      BY <2>1, <3>1, <3>4, <3>5, <3>6
  <2>3. CASE o.instrument # i
    <3>1. A = {} /\ B = {}
      BY <2>1, <2>3 DEF Class
    <3>2. v[o] = UnitsOf(A) /\ w[o] = UnitsOf(B)
      OBVIOUS
    <3> HIDE DEF A, B, v, w
    <3> QED
      BY <3>1, <3>2
  <2> QED
    BY <2>2, <2>3
<1> HIDE DEF v, w, Ci, Xi
<1>4. SumOver(v, O) = SumOver(w, O)
  BY <1>3, SumCongruence
<1> QED
  BY <1>1, <1>2, <1>4 DEF Ci, Xi, Traded

(* Among reports some are of the latest revision, and of the latest moment *)
(* among these.                                                            *)
LEMMA LateExists ==
  ASSUME NEW R, IsFiniteSet(R), R # {}, \A r \in R : r.revision \in Nat /\ r.at \in Nat
  PROVE  \E r \in R : \A s \in R : s.revision < r.revision \/ (s.revision = r.revision /\ s.at <= r.at)
<1> DEFINE v == [r \in R |-> r.revision]
           w == [r \in R |-> r.at]
<1>1. PICK top \in R : \A s \in R : s.revision <= top.revision
  <2>1. \A r \in R : v[r] \in Nat /\ v[r] = r.revision
    OBVIOUS
  <2> HIDE DEF v
  <2>2. \E x \in R : \A y \in R : v[y] <= v[x]
    BY <2>1, GreatestOf
  <2> QED
    BY <2>1, <2>2
<1> DEFINE T == {r \in R : r.revision = top.revision}
<1>2. PICK r \in T : \A s \in T : s.at <= r.at
  <2>1. \A x \in T : w[x] \in Nat /\ w[x] = x.at
    OBVIOUS
  <2>2. IsFiniteSet(T) /\ T # {}
    BY FS_Subset
  <2> HIDE DEF w, T
  <2>3. \E x \in T : \A y \in T : w[y] <= w[x]
    BY <2>1, <2>2, GreatestOf
  <2> QED
    BY <2>1, <2>3
<1>3. ASSUME NEW s \in R PROVE s.revision < r.revision \/ (s.revision = r.revision /\ s.at <= r.at)
  <2>1. r.revision = top.revision /\ s.revision <= top.revision
    BY <1>1
  <2>2. CASE s.revision = top.revision
    BY <1>2, <2>1, <2>2
  <2>3. CASE s.revision # top.revision
    BY <2>1, <2>3
  <2> QED
    BY <2>2, <2>3
<1> QED
  BY <1>3

(* The newest of some reports is one of them.                              *)
LEMMA NewestIs ==
  ASSUME NEW R, IsFiniteSet(R), R # {}, \A r \in R : r.revision \in Nat /\ r.at \in Nat
  PROVE  Newest(R) \in R
<1> DEFINE L == {r \in R : \A s \in R : s.revision < r.revision \/ (s.revision = r.revision /\ s.at <= r.at)}
<1>1. L # {}
  BY LateExists
<1>2. (CHOOSE c \in {Payload(r) : r \in L} : TRUE) \in {Payload(r) : r \in L}
  BY <1>1
<1>3. Newest(R) \in L
  BY <1>2 DEF Newest
<1> QED
  BY <1>3

-----------------------------------------------------------------------------
(* The evidence is always well formed.                                     *)

OrderShape(r) ==
  /\ {"system", "account", "source", "client", "revision", "at", "instrument", "type", "side",
      "status", "requested", "filled", "remaining", "outcome"} \subseteq DOMAIN r
  /\ r.revision \in Nat /\ r.at \in Nat

BagShape(B) == IsFiniteSet(DOMAIN B) /\ \A r \in DOMAIN B : B[r] \in Nat \ {0}

EvidenceShape(e) ==
  /\ DOMAIN e = {"system", "account", "at", "available", "snapshot", "orders", "fills"}
  /\ BagShape(e.orders) /\ \A r \in DOMAIN e.orders : OrderShape(r)
  /\ BagShape(e.fills) /\ \A r \in DOMAIN e.fills : FillShape(r)
  /\ ShowsCash(e.snapshot)

ObservedInv ==
  /\ execution \in Executions /\ policy \in Policies
  /\ EvidenceShape(evidence)

(* What the receipt promises of its fills.                                 *)
LEMMA ReceiptFills ==
  ASSUME NEW receipt, ReceiptHolds(receipt)
  PROVE  \A f \in receipt.fills :
           /\ AmountsTyped(f)
           /\ \E o \in receipt.orders : f.order = o.id
           /\ \A o \in receipt.orders : f.order = o.id => f.instrument = o.instrument /\ f.side = o.side
<1> SUFFICES ASSUME NEW f \in receipt.fills
             PROVE  /\ AmountsTyped(f)
                    /\ \E o \in receipt.orders : f.order = o.id
                    /\ \A o \in receipt.orders :
                         f.order = o.id => f.instrument = o.instrument /\ f.side = o.side
  OBVIOUS
<1>1. /\ f.quantity \in Nat \ {0} /\ f.price \in Nat \ {0}
      /\ \A fee \in {f.commission, f.stamp, f.transfer, f.other} : fee \in Nat
      /\ \E o \in receipt.orders :
           f.order = o.id /\ <<f.instrument, f.type, f.side>> = <<o.instrument, o.type, o.side>>
  BY DEF ReceiptHolds
<1>2. AmountsTyped(f)
  BY <1>1 DEF AmountsTyped
<1>3. PICK o \in receipt.orders :
        f.order = o.id /\ <<f.instrument, f.type, f.side>> = <<o.instrument, o.type, o.side>>
  BY <1>1
<1>4. \A p \in receipt.orders : p.id = o.id => p = o
  BY DEF ReceiptHolds
<1>5. f.instrument = o.instrument /\ f.side = o.side
  BY <1>3
<1> QED
  BY <1>2, <1>3, <1>4, <1>5

(* The contents received are those of the reports that count.              *)
LEMMA ContentsReceived ==
  ASSUME NEW B, NEW C, C \subseteq DOMAIN B, \A r \in DOMAIN B : \E c \in C : Payload(c) = Payload(r)
  PROVE  {Payload(r) : r \in BagToSet(B)} = Contents(C)
BY DEF Contents, BagToSet

(* Of an execution that nothing stops, the fills that count correspond to  *)
(* the receipt's.                                                          *)
LEMMA UnstoppedFills ==
  ASSUME ObservedInv, ~Result(Request).stop.required,
         NEW C, C = Canonical("FILL", evidence.fills)
  PROVE  /\ IsFiniteSet(C) /\ \A r \in C : FillShape(r)
         /\ \A r, s \in C : Payload(r) = Payload(s) => r = s
         /\ Received("fills") = Contents(C)
         /\ \A r \in C : \E o \in execution.receipt.orders : r.client = o.id
         /\ \A o \in execution.receipt.orders :
              Corresponds(o, C, execution.receipt.fills, policy.cash)
<1> DEFINE q == Request
           receipt == execution.receipt
           X == receipt.fills
           O == receipt.orders
           orders == Canonical("ORDER", q.observed.orders)
<1>1. q.receipt = receipt /\ q.policy = policy /\ q.observed = evidence
  BY DEF Request
<1>2. ReceiptHolds(receipt) /\ ValidPolicy(policy) /\ EvidenceShape(evidence)
  BY ObservedExecutionAssumption DEF ObservedInv
<1>3. policy.stopOn \in {"WARNING", "ERROR", "CRITICAL"} /\ policy.cash \in Nat
  BY <1>2 DEF ValidPolicy
<1>4. /\ Mild(InputsOf(q)) /\ \A c \in ChecksOf(q) : Mild(c.findings)
      /\ \A g \in GroupsOf(q) : g.class = "IDENTICAL"
  <2>1. q.policy.stopOn \in {"WARNING", "ERROR", "CRITICAL"}
    BY <1>1, <1>3
  <2>2. C = Canonical("FILL", q.observed.fills)
    BY <1>1
  <2> HIDE DEF q
  <2> QED
    BY <2>1, <2>2, UnstoppedIsMild DEF q
<1> HIDE DEF q
<1>5. /\ C \subseteq DOMAIN evidence.fills
      /\ \A r \in DOMAIN evidence.fills : \E c \in C : Payload(c) = Payload(r)
      /\ \A r, s \in C : Payload(r) = Payload(s) => r = s
  <2>1. \A g \in DuplicateGroups("FILL", evidence.fills) : g.class = "IDENTICAL"
    BY <1>1, <1>4 DEF GroupsOf
  <2>2. IsFiniteSet(DOMAIN evidence.fills)
    BY <1>2 DEF EvidenceShape, BagShape
  <2>3. \A r \in DOMAIN evidence.fills :
          evidence.fills[r] \in Nat \ {0} /\ KeyParts("FILL") \subseteq DOMAIN r
    BY <1>2 DEF EvidenceShape, BagShape, FillShape, KeyParts
  <2> QED
    BY <2>1, <2>2, <2>3, CanonicalStands
<1>6. IsFiniteSet(C) /\ \A r \in C : FillShape(r)
  BY <1>2, <1>5, FS_Subset DEF EvidenceShape, BagShape
<1>7. Received("fills") = Contents(C)
  BY <1>5, ContentsReceived DEF Received
<1>8. \A c \in FillChecks(q, orders, C) : Mild(c.findings)
  BY <1>1, <1>4 DEF ChecksOf
<1>9. /\ ClientsOf(C) \subseteq {o.id : o \in O}
      /\ \A o \in O : Mild(FillFindings(q, o, LatestReport(orders, o.id),
                                        {f \in X : f.order = o.id}, Claiming(C, o.id)))
  <2> HIDE DEF receipt, orders
  <2> QED
    BY <1>1, <1>4, <1>8, FillChecksGraded
<1>10. ASSUME NEW r \in C PROVE \E o \in O : r.client = o.id
  <2>1. Mild(LinkFindings(orders, C))
    BY <1>1, <1>4 DEF InputsOf, Mild
  <2>2. r.client # Absent
    BY <2>1, LinkGraded
  <2>3. r.client \in ClientsOf(C)
    BY <2>2 DEF ClientsOf
  <2> QED
    BY <1>9, <2>3
<1>11. ASSUME NEW o \in O PROVE Corresponds(o, C, X, policy.cash)
  <2> DEFINE seen == {r \in C : r.client = o.id}
             due == {f \in X : f.order = o.id}
  <2>1. Claiming(C, o.id) = seen
    BY DEF Claiming
  <2>2. Mild(FillFindings(q, o, LatestReport(orders, o.id), due, seen))
    BY <1>9, <2>1
  <2>3. IsFiniteSet(seen) /\ IsFiniteSet(due)
    BY <1>2, <1>6, FS_Subset DEF ReceiptHolds
  <2>4. (\A r \in seen : AmountsTyped(r)) /\ (\A f \in due : AmountsTyped(f))
    BY <1>2, <1>6, ReceiptFills DEF FillShape
  <2>5. \A f \in due : f.instrument = o.instrument /\ f.side = o.side
    BY <1>2, ReceiptFills
  <2> HIDE DEF seen, due
  <2>6. /\ CashOf(seen) \in Int /\ CashOf(due) \in Int
        /\ QuantityOf(seen) \in Nat /\ QuantityOf(due) \in Nat
    BY <2>3, <2>4, TotalsTyped
  <2>7. /\ \A r \in seen : r.instrument = o.instrument /\ r.side = o.side
        /\ QuantityOf(seen) = QuantityOf(due)
        /\ CashOf(seen) - CashOf(due) = 0 \/ Within(CashOf(seen) - CashOf(due), q.policy.cash)
    BY <2>2, <2>6, FillGraded
  <2>8. CashOf(seen) - CashOf(due) <= policy.cash /\ CashOf(due) - CashOf(seen) <= policy.cash
    BY <1>1, <1>3, <2>6, <2>7 DEF Within
  <2> QED
    BY <2>5, <2>7, <2>8 DEF Corresponds, seen, due
<1> QED
  BY <1>5, <1>6, <1>7, <1>10, <1>11

(* Of an execution that nothing stops, every order has a report that says  *)
(* where it is.                                                            *)
LEMMA UnstoppedOrders ==
  ASSUME ObservedInv, ~Result(Request).stop.required,
         NEW o \in execution.receipt.orders
  PROVE  \E r \in Received("orders") : r.client = o.id /\ r.status = o.status /\ r.filled = o.filled
<1> DEFINE q == Request
           C == Canonical("ORDER", evidence.orders)
           claimed == Claiming(C, o.id)
<1>1. q.receipt = execution.receipt /\ q.policy = policy /\ q.observed = evidence
  BY DEF Request
<1>2. ValidPolicy(policy) /\ EvidenceShape(evidence)
  BY ObservedExecutionAssumption DEF ObservedInv
<1>3. (\A c \in ChecksOf(q) : Mild(c.findings)) /\ \A g \in GroupsOf(q) : g.class = "IDENTICAL"
  <2>1. q.policy.stopOn \in {"WARNING", "ERROR", "CRITICAL"}
    BY <1>1, <1>2 DEF ValidPolicy
  <2> HIDE DEF q
  <2> QED
    BY <2>1, UnstoppedIsMild DEF q
<1> HIDE DEF q
<1>4. C \subseteq DOMAIN evidence.orders
  <2>1. \A g \in DuplicateGroups("ORDER", evidence.orders) : g.class = "IDENTICAL"
    BY <1>1, <1>3 DEF GroupsOf
  <2>2. IsFiniteSet(DOMAIN evidence.orders)
    BY <1>2 DEF EvidenceShape, BagShape
  <2>3. \A r \in DOMAIN evidence.orders :
          evidence.orders[r] \in Nat \ {0} /\ KeyParts("ORDER") \subseteq DOMAIN r
    BY <1>2 DEF EvidenceShape, BagShape, OrderShape, KeyParts
  <2> QED
    BY <2>1, <2>2, <2>3, CanonicalStands
<1>5. \A c \in OrderChecks(q, C) : Mild(c.findings)
  BY <1>1, <1>3 DEF ChecksOf
<1>6. /\ LatestReport(C, o.id) # {}
      /\ \A r \in LatestReport(C, o.id) : r.status = o.status /\ r.filled = o.filled
  <2> HIDE DEF C
  <2> QED
    BY <1>1, <1>5, OrderChecksGraded
<1>7. claimed # {} /\ LatestReport(C, o.id) = {Newest(claimed)}
  BY <1>6 DEF LatestReport
<1>8. claimed \subseteq DOMAIN evidence.orders /\ \A r \in claimed : r.client = o.id
  BY <1>4 DEF Claiming
<1> HIDE DEF claimed
<1>9. PICK r : r = Newest(claimed)
  OBVIOUS
<1>10. r \in claimed
  <2>1. IsFiniteSet(claimed)
    BY <1>2, <1>8, FS_Subset DEF EvidenceShape, BagShape
  <2>2. \A s \in claimed : s.revision \in Nat /\ s.at \in Nat
    BY <1>2, <1>8 DEF EvidenceShape, OrderShape
  <2> QED
    BY <1>7, <1>9, <2>1, <2>2, NewestIs
<1>11. r.client = o.id /\ r.status = o.status /\ r.filled = o.filled
  BY <1>6, <1>7, <1>8, <1>9, <1>10
<1>12. r \in DOMAIN evidence.orders /\ OrderShape(r)
  BY <1>2, <1>8, <1>10 DEF EvidenceShape
<1>13. \A part \in {"client", "status", "filled"} : Payload(r)[part] = r[part]
  <2>1. \A part \in {"client", "status", "filled"} : part \in DOMAIN r /\ part \notin {"report", "available"}
    BY <1>12 DEF OrderShape
  <2> QED
    BY <2>1, PayloadKeeps
<1>14. Payload(r) \in Received("orders")
  BY <1>12 DEF Received, BagToSet
<1>15. PICK p : p = Payload(r)
  OBVIOUS
<1>16. p["client"] = r["client"] /\ p["status"] = r["status"] /\ p["filled"] = r["filled"]
  BY <1>13, <1>15
<1> QED
  BY <1>11, <1>14, <1>15, <1>16

(* An execution that nothing stops adds up.                                *)
LEMMA UnstoppedAddsUp ==
  ASSUME ObservedInv, ~Result(Request).stop.required
  PROVE  AddsUp
<1> DEFINE q == Request
           receipt == execution.receipt
           X == receipt.fills
           O == receipt.orders
           C == Canonical("FILL", evidence.fills)
           F == Received("fills")
<1>1. q.receipt = receipt /\ q.policy = policy /\ q.observed = evidence
  BY DEF Request
<1>2. /\ ReceiptHolds(receipt) /\ ValidPolicy(policy) /\ EvidenceShape(evidence)
      /\ policy.cash \in Nat
  BY ObservedExecutionAssumption DEF ObservedInv, ValidPolicy
<1>3. /\ IsFiniteSet(C) /\ \A r \in C : FillShape(r)
      /\ \A r, s \in C : Payload(r) = Payload(s) => r = s
      /\ F = Contents(C)
      /\ \A r \in C : \E o \in O : r.client = o.id
      /\ \A o \in O : Corresponds(o, C, X, policy.cash)
  BY UnstoppedFills
<1>4. \A o \in O : \E r \in Received("orders") :
        r.client = o.id /\ r.status = o.status /\ r.filled = o.filled
  BY UnstoppedOrders
<1>5. \A c \in ChecksOf(q) : Mild(c.findings)
  <2>1. q.policy.stopOn \in {"WARNING", "ERROR", "CRITICAL"}
    BY <1>1, <1>2 DEF ValidPolicy
  <2> HIDE DEF q
  <2> QED
    BY <2>1, UnstoppedIsMild DEF q
<1> HIDE DEF q, C, F
<1>6. Correspond(O, C, X, policy.cash)
  <2>1. IsFiniteSet(O) /\ IsFiniteSet(X) /\ \A o, p \in O : o.id = p.id => o = p
    BY <1>2 DEF ReceiptHolds
  <2>2. \A r \in C : AmountsTyped(r)
    BY <1>3 DEF FillShape
  <2>3. \A f \in X : AmountsTyped(f) /\ \E o \in O : f.order = o.id
    BY <1>2, ReceiptFills
  <2> QED
    BY <1>3, <2>1, <2>2, <2>3 DEF Correspond
<1>7. /\ CashOf(F) = CashOf(C) /\ CashOf(C) \in Int /\ CashOf(X) \in Int
  BY <1>3, <1>6, ContentsWorth, TotalsTyped DEF Correspond
<1>8. /\ CashOf(C) - CashOf(X) <= policy.cash * Cardinality(O)
      /\ CashOf(X) - CashOf(C) <= policy.cash * Cardinality(O)
  <2> HIDE DEF receipt, O, X
  <2> QED
    BY <1>2, <1>6, CashCorresponds
<1>9. Cardinality(O) \in Nat
  BY <1>6, FS_CardinalityType DEF Correspond
<1>10. LET drift == evidence.snapshot.cash.total - receipt.before.cash - CashOf(F)
           slack == policy.cash * (1 + Cardinality(O))
       IN  drift <= slack /\ -drift <= slack
  <2>1. Mild(CashFindings(q))
    <3>1. CashCheck(q) \in ChecksOf(q)
      BY DEF ChecksOf
    <3>2. CashCheck(q).findings = CashFindings(q)
      BY DEF CashCheck, Check
    <3> QED
      BY <1>5, <3>1, <3>2
  <2> DEFINE shown == evidence.snapshot.cash.total
             after == receipt.after.cash.total
  <2>2. shown - after = 0 \/ Within(shown - after, policy.cash)
    BY <1>1, <2>1, CashGraded
  <2>3. shown \in Int
    BY <1>2 DEF EvidenceShape, ShowsCash
  <2>4. receipt.before.cash \in Int /\ after = receipt.before.cash + CashOf(X)
    BY <1>2 DEF ReceiptHolds
  <2> HIDE DEF shown, after
  <2>5. shown - after <= policy.cash /\ after - shown <= policy.cash
    <3>1. after \in Int
      BY <1>7, <2>4
    <3> QED
      BY <1>2, <2>2, <2>3, <3>1 DEF Within
  <2>6. policy.cash * (1 + Cardinality(O)) = policy.cash + policy.cash * Cardinality(O)
    BY <1>2, <1>9
  <2>7. policy.cash * Cardinality(O) \in Int
    BY <1>2, <1>9
  <2>8. PICK m \in Int, n \in Int, c \in Int, x \in Int, d \in Int, t \in Int :
          /\ m = policy.cash * Cardinality(O) /\ n = CashOf(C) /\ x = CashOf(X)
          /\ c = policy.cash /\ d = shown /\ t = receipt.before.cash
    BY <1>2, <1>7, <2>3, <2>4, <2>7
  <2>9. n - x <= m /\ x - n <= m
    BY <1>8, <2>8
  <2>10. d - (t + x) <= c /\ (t + x) - d <= c
    BY <2>4, <2>5, <2>8
  <2>11. d - t - n <= c + m /\ -(d - t - n) <= c + m
    BY <2>9, <2>10
  <2> QED
    BY <1>7, <2>6, <2>8, <2>11 DEF shown
<1>11. ASSUME NEW i \in DOMAIN receipt.before.units
       PROVE  (IF i \in DOMAIN evidence.snapshot.positions
                 THEN evidence.snapshot.positions[i].total ELSE 0)
                = receipt.before.units[i] + UnitsOf({f \in F : f.instrument = i})
  <2> DEFINE held == receipt.after.positions
             shown == evidence.snapshot.positions
             Ci == {r \in C : r.instrument = i}
  <2>1. (IF i \in DOMAIN shown THEN shown[i].total ELSE 0) = (IF i \in DOMAIN held THEN held[i].total ELSE 0)
    <3>1. CASE i \in DOMAIN shown \cup DOMAIN held
      <4>1. PositionCheck(q, i) \in PositionChecks(q)
        BY <1>1, <3>1 DEF PositionChecks
      <4>2. Mild(PositionCheck(q, i).findings)
        BY <1>5, <4>1 DEF ChecksOf
      <4> QED
        BY <1>1, <4>2, PositionCheckIs
    <3>2. CASE i \notin DOMAIN shown \cup DOMAIN held
      BY <3>2
    <3> QED
      BY <3>1, <3>2
  <2>2. (IF i \in DOMAIN held THEN held[i].total ELSE 0)
          = receipt.before.units[i] + UnitsOf({f \in X : f.instrument = i})
    BY <1>2 DEF ReceiptHolds
  <2>3. UnitsOf(Ci) = UnitsOf({f \in X : f.instrument = i})
    <3>1. UnitsOf(Traded(C, i)) = UnitsOf(Traded(X, i))
      BY <1>6, UnitsCorrespond
    <3> QED
      BY <3>1 DEF Traded
  <2>4. {f \in F : f.instrument = i} = Contents(Ci)
    BY <1>3, ContentWorth DEF Contents
  <2>5. UnitsOf(Contents(Ci)) = UnitsOf(Ci)
    <3>1. IsFiniteSet(Ci) /\ (\A r \in Ci : FillShape(r))
          /\ \A r, s \in Ci : Payload(r) = Payload(s) => r = s
      BY <1>3, FS_Subset
    <3> HIDE DEF Ci
    <3> QED
      BY <3>1, ContentsWorth
  <2> QED
    BY <2>1, <2>2, <2>3, <2>4, <2>5
<1>12. ASSUME NEW o \in O
       PROVE  o.filled = QuantityOf({f \in F : f.client = o.id})
  <2> DEFINE seen == {r \in C : r.client = o.id}
  <2>1. o.filled = QuantityOf({f \in X : f.order = o.id})
    BY <1>2 DEF ReceiptHolds
  <2>2. QuantityOf(seen) = QuantityOf({f \in X : f.order = o.id})
    BY <1>3 DEF Corresponds
  <2>3. {f \in F : f.client = o.id} = Contents(seen)
    BY <1>3, ContentWorth DEF Contents
  <2>4. QuantityOf(Contents(seen)) = QuantityOf(seen)
    <3>1. IsFiniteSet(seen) /\ (\A r \in seen : FillShape(r))
          /\ \A r, s \in seen : Payload(r) = Payload(s) => r = s
      BY <1>3, FS_Subset
    <3> HIDE DEF seen
    <3> QED
      BY <3>1, ContentsWorth
  <2> QED
    BY <2>1, <2>2, <2>3, <2>4
<1> QED
  BY <1>4, <1>10, <1>11, <1>12 DEF AddsUp, F

(* Bags of reports stay bags.                                              *)
LEMMA SetBag ==
  ASSUME NEW S, IsFiniteSet(S)
  PROVE  BagShape(SetToBag(S)) /\ DOMAIN SetToBag(S) = S
BY DEF BagShape, SetToBag

(* Two bags together.                                                      *)
LEMMA SumBag ==
  ASSUME NEW A, NEW B, BagShape(A), BagShape(B)
  PROVE  BagShape(A (+) B) /\ DOMAIN (A (+) B) = DOMAIN A \cup DOMAIN B
<1>1. DOMAIN (A (+) B) = DOMAIN A \cup DOMAIN B
  BY DEF (+)
<1>2. IsFiniteSet(DOMAIN A \cup DOMAIN B)
  BY FS_Union DEF BagShape
<1>3. ASSUME NEW r \in DOMAIN A \cup DOMAIN B PROVE (A (+) B)[r] \in Nat \ {0}
  <2>1. (A (+) B)[r] = (IF r \in DOMAIN A THEN A[r] ELSE 0) + (IF r \in DOMAIN B THEN B[r] ELSE 0)
    BY DEF (+)
  <2>2. /\ r \in DOMAIN A => A[r] \in Nat \ {0}
        /\ r \in DOMAIN B => B[r] \in Nat \ {0}
    BY DEF BagShape
  <2> QED
    BY <2>1, <2>2
<1> QED
  BY <1>1, <1>2, <1>3 DEF BagShape

(* A bag less another.                                                     *)
LEMMA LessBag ==
  ASSUME NEW A, NEW B, BagShape(A), BagShape(B)
  PROVE  BagShape(A (-) B) /\ DOMAIN (A (-) B) \subseteq DOMAIN A
<1> DEFINE left == [r \in DOMAIN A |-> IF r \in DOMAIN B THEN A[r] - B[r] ELSE A[r]]
           D == {r \in DOMAIN left : left[r] > 0}
<1>1. A (-) B = [r \in D |-> left[r]]
  BY DEF (-)
<1>2. \A r \in DOMAIN A : left[r] \in Int
  BY DEF BagShape
<1>3. D \subseteq DOMAIN A /\ \A r \in D : left[r] \in Nat \ {0}
  BY <1>2
<1>4. IsFiniteSet(D)
  BY <1>3, FS_Subset DEF BagShape
<1> HIDE DEF D, left
<1> QED
  BY <1>1, <1>3, <1>4 DEF BagShape

(* What a report of each kind is made of, and that a report altered on its *)
(* way still is.                                                           *)
ReportShape(kind, r) == IF kind = "orders" THEN OrderShape(r) ELSE FillShape(r)

(* Under another id a report is still one.                                 *)
LEMMA RenamedShape ==
  ASSUME NEW kind \in Kinds, NEW r, ReportShape(kind, r), NEW id
  PROVE  ReportShape(kind, [r EXCEPT !.report = id])
BY DEF ReportShape, OrderShape, FillShape, AmountsTyped, Kinds

(* Altered on its way a report is still one.                               *)
LEMMA AlteredShape ==
  ASSUME NEW kind \in Kinds, NEW r, ReportShape(kind, r), NEW wrong \in Altered(kind, r)
  PROVE  ReportShape(kind, wrong)
<1>1. CASE wrong \in {[r EXCEPT !.client = Absent], [r EXCEPT !.client = Stranger],
                      [r EXCEPT !.system = Stranger], [r EXCEPT !.account = Stranger],
                      [r EXCEPT !.available = @ + 1], [r EXCEPT !.source = Stranger]}
  BY <1>1 DEF ReportShape, OrderShape, FillShape, AmountsTyped, Kinds
<1>2. CASE kind = "fills" /\
           wrong \in {[r EXCEPT !.quantity = @ + 1], [r EXCEPT !.price = @ + 1],
                      [r EXCEPT !.commission = @ + 1], [r EXCEPT !.clientFill = Absent],
                      [r EXCEPT !.commission = r.stamp, !.stamp = r.commission],
                      [r EXCEPT !.fill = Stranger, !.clientFill = Absent]}
  <2>a. FillShape(r) /\ (ReportShape(kind, wrong) <=> FillShape(wrong))
    BY <1>2 DEF ReportShape
  <2>1. CASE wrong = [r EXCEPT !.quantity = @ + 1]
    BY <2>1, <2>a DEF FillShape, AmountsTyped
  <2>2. CASE wrong = [r EXCEPT !.price = @ + 1]
    BY <2>2, <2>a DEF FillShape, AmountsTyped
  <2>3. CASE wrong = [r EXCEPT !.commission = @ + 1]
    BY <2>3, <2>a DEF FillShape, AmountsTyped
  <2>4. CASE wrong = [r EXCEPT !.clientFill = Absent]
    BY <2>4, <2>a DEF FillShape, AmountsTyped
  <2>5. CASE wrong = [r EXCEPT !.commission = r.stamp, !.stamp = r.commission]
    BY <2>5, <2>a DEF FillShape, AmountsTyped
  <2>6. CASE wrong = [r EXCEPT !.fill = Stranger, !.clientFill = Absent]
    BY <2>6, <2>a DEF FillShape, AmountsTyped
  <2> QED
    BY <1>2, <2>a, <2>1, <2>2, <2>3, <2>4, <2>5, <2>6
<1>3. CASE kind = "orders" /\
           wrong \in {[r EXCEPT !.revision = @ + 1],
                      [r EXCEPT !.revision = @ + 1, !.status = "CANCELED", !.filled = 0,
                                !.remaining = r.requested],
                      [r EXCEPT !.status = "FILLED", !.filled = r.requested, !.remaining = 0,
                                !.outcome = Absent]}
  <2>a. OrderShape(r) /\ (ReportShape(kind, wrong) <=> OrderShape(wrong))
    BY <1>3 DEF ReportShape
  <2>1. CASE wrong = [r EXCEPT !.revision = @ + 1]
    BY <2>1, <2>a DEF OrderShape
  <2>2. CASE wrong = [r EXCEPT !.revision = @ + 1, !.status = "CANCELED", !.filled = 0,
                               !.remaining = r.requested]
    BY <2>2, <2>a DEF OrderShape
  <2>3. CASE wrong = [r EXCEPT !.status = "FILLED", !.filled = r.requested, !.remaining = 0,
                               !.outcome = Absent]
    BY <2>3, <2>a DEF OrderShape
  <2> QED
    BY <1>3, <2>a, <2>1, <2>2, <2>3
<1> QED
  BY <1>1, <1>2, <1>3 DEF Altered, Kinds

(* So are the parts a fill is reported in.                                 *)
LEMMA PartsShape ==
  ASSUME NEW r, FillShape(r), r.quantity > 1,
         NEW part \in
           {[r EXCEPT !.report = Append(@, 1), !.fill = Append(@, 1), !.clientFill = Absent, !.quantity = 1],
            [r EXCEPT !.report = Append(@, 2), !.fill = Append(@, 2), !.clientFill = Absent,
                      !.quantity = @ - 1, !.commission = 0, !.stamp = 0, !.transfer = 0, !.other = 0]}
  PROVE  FillShape(part)
<1>1. CASE part = [r EXCEPT !.report = Append(@, 1), !.fill = Append(@, 1), !.clientFill = Absent,
                            !.quantity = 1]
  BY <1>1 DEF FillShape, AmountsTyped
<1>2. CASE part = [r EXCEPT !.report = Append(@, 2), !.fill = Append(@, 2), !.clientFill = Absent,
                            !.quantity = @ - 1, !.commission = 0, !.stamp = 0, !.transfer = 0, !.other = 0]
  BY <1>2 DEF FillShape, AmountsTyped
<1> QED
  BY <1>1, <1>2

(* A snapshot that drifts still shows its cash.                            *)
LEMMA DriftedShape ==
  ASSUME NEW s, ShowsCash(s), NEW wrong \in Drifted(s)
  PROVE  ShowsCash(wrong)
<1>1. CASE wrong \in {[s EXCEPT !.account = Stranger], [s EXCEPT !.previous = Stranger],
                      [s EXCEPT !.log = Stranger]}
  BY <1>1 DEF ShowsCash
<1>2. CASE wrong \in {[s EXCEPT !.cash.total = @ + 1, !.cash.available = @ + 1],
                      [s EXCEPT !.cash.total = @ + 2, !.cash.available = @ + 2],
                      [s EXCEPT !.cash.available = @ - 1, !.cash.frozen = @ + 1]}
  <2>a. /\ {"account", "previous", "log", "cash", "positions"} \subseteq DOMAIN s
        /\ DOMAIN s.cash = {"total", "available", "frozen"}
        /\ s.cash.total \in Int /\ s.cash.available \in Int /\ s.cash.frozen \in Int
    BY DEF ShowsCash
  <2>1. CASE wrong = [s EXCEPT !.cash.total = @ + 1, !.cash.available = @ + 1]
    <3>1. DOMAIN wrong = DOMAIN s /\ DOMAIN wrong.cash = DOMAIN s.cash
      BY <2>1, <2>a
    <3>a. wrong.cash = [s.cash EXCEPT !.total = s.cash.total + 1, !.available = s.cash.available + 1]
      BY <2>1, <2>a
    <3>2. wrong.cash.total \in Int /\ wrong.cash.available \in Int /\ wrong.cash.frozen \in Int
      BY <2>a, <3>a
    <3> QED
      BY <2>a, <3>1, <3>2 DEF ShowsCash
  <2>2. CASE wrong = [s EXCEPT !.cash.total = @ + 2, !.cash.available = @ + 2]
    <3>1. DOMAIN wrong = DOMAIN s /\ DOMAIN wrong.cash = DOMAIN s.cash
      BY <2>2, <2>a
    <3>a. wrong.cash = [s.cash EXCEPT !.total = s.cash.total + 2, !.available = s.cash.available + 2]
      BY <2>2, <2>a
    <3>2. wrong.cash.total \in Int /\ wrong.cash.available \in Int /\ wrong.cash.frozen \in Int
      BY <2>a, <3>a
    <3> QED
      BY <2>a, <3>1, <3>2 DEF ShowsCash
  <2>3. CASE wrong = [s EXCEPT !.cash.available = @ - 1, !.cash.frozen = @ + 1]
    <3>1. DOMAIN wrong = DOMAIN s /\ DOMAIN wrong.cash = DOMAIN s.cash
      BY <2>3, <2>a
    <3>a. wrong.cash = [s.cash EXCEPT !.available = s.cash.available - 1, !.frozen = s.cash.frozen + 1]
      BY <2>3, <2>a
    <3>2. wrong.cash.total \in Int /\ wrong.cash.available \in Int /\ wrong.cash.frozen \in Int
      BY <2>a, <3>a
    <3> QED
      BY <2>a, <3>1, <3>2 DEF ShowsCash
  <2> QED
    BY <1>2, <2>1, <2>2, <2>3
<1>3. CASE \E i \in DOMAIN s.positions :
             wrong \in {[s EXCEPT !.positions[i].total = @ + 1, !.positions[i].available = @ + 1],
                        [s EXCEPT !.positions[i].available = @ - 1, !.positions[i].unsettled = @ + 1],
                        [s EXCEPT !.positions[i].basis = @ + 1],
                        [s EXCEPT !.positions = [j \in DOMAIN @ \ {i} |-> @[j]]]}
  BY <1>3 DEF ShowsCash
<1> QED
  BY <1>1, <1>2, <1>3 DEF Drifted

(* One report is a bag of one.                                             *)
LEMMA OneBag == ASSUME NEW r PROVE BagShape(One(r)) /\ DOMAIN One(r) = {r}
<1>1. IsFiniteSet({r})
  BY FS_Singleton
<1>2. PICK S : S = {r}
  OBVIOUS
<1>3. BagShape(SetToBag(S)) /\ DOMAIN SetToBag(S) = S
  BY <1>1, <1>2, SetBag
<1> QED
  BY <1>2, <1>3 DEF One

(* Evidence whose reports of one kind are others of their shape.           *)
LEMMA OtherReports ==
  ASSUME NEW e, EvidenceShape(e), NEW kind \in Kinds, NEW B, BagShape(B),
         \A r \in DOMAIN B : ReportShape(kind, r)
  PROVE  EvidenceShape([e EXCEPT ![kind] = B])
<1> DEFINE after == [e EXCEPT ![kind] = B]
<1>1. DOMAIN e = {"system", "account", "at", "available", "snapshot", "orders", "fills"}
  BY DEF EvidenceShape
<1>2. /\ DOMAIN after = DOMAIN e
      /\ after.snapshot = e.snapshot
      /\ after.orders = IF kind = "orders" THEN B ELSE e.orders
      /\ after.fills = IF kind = "fills" THEN B ELSE e.fills
  BY <1>1 DEF Kinds
<1> HIDE DEF after
<1>3. BagShape(after.orders) /\ \A r \in DOMAIN after.orders : OrderShape(r)
  <2>1. CASE kind = "orders"
    BY <1>2, <2>1 DEF ReportShape
  <2>2. CASE kind # "orders"
    BY <1>2, <2>2 DEF EvidenceShape
  <2> QED
    BY <2>1, <2>2
<1>4. BagShape(after.fills) /\ \A r \in DOMAIN after.fills : FillShape(r)
  <2>1. CASE kind = "fills"
    BY <1>2, <2>1 DEF ReportShape
  <2>2. CASE kind # "fills"
    BY <1>2, <2>2 DEF EvidenceShape
  <2> QED
    BY <2>1, <2>2
<1>5. ShowsCash(after.snapshot)
  BY <1>2 DEF EvidenceShape
<1> QED
  BY <1>1, <1>2, <1>3, <1>4, <1>5 DEF EvidenceShape, after

(* The reports of each kind have their shape.                              *)
LEMMA KindShape ==
  ASSUME NEW e, EvidenceShape(e), NEW kind \in Kinds
  PROVE  BagShape(e[kind]) /\ \A r \in DOMAIN e[kind] : ReportShape(kind, r)
<1>1. CASE kind = "orders"
  BY <1>1 DEF EvidenceShape, ReportShape
<1>2. CASE kind = "fills"
  BY <1>2 DEF EvidenceShape, ReportShape
<1> QED
  BY <1>1, <1>2 DEF Kinds

(* One more report, one fewer, and others in place of one.                 *)
LEMMA ChangedReports ==
  ASSUME EvidenceShape(evidence), NEW kind \in Kinds, NEW r
  PROVE  /\ ReportShape(kind, r) => EvidenceShape(Add(kind, r))
         /\ EvidenceShape(Drop(kind, r))
         /\ \A S : IsFiniteSet(S) /\ (\A s \in S : ReportShape(kind, s)) => EvidenceShape(Replace(kind, r, S))
<1> DEFINE B == evidence[kind]
<1>1. BagShape(B) /\ \A s \in DOMAIN B : ReportShape(kind, s)
  BY KindShape
<1>2. BagShape(One(r)) /\ DOMAIN One(r) = {r}
  BY OneBag
<1> HIDE DEF B
<1>3. BagShape(B (+) One(r)) /\ DOMAIN (B (+) One(r)) = DOMAIN B \cup {r}
  BY <1>1, <1>2, SumBag
<1>4. BagShape(B (-) One(r)) /\ DOMAIN (B (-) One(r)) \subseteq DOMAIN B
  BY <1>1, <1>2, LessBag
<1>5. ASSUME ReportShape(kind, r) PROVE EvidenceShape(Add(kind, r))
  <2>1. PICK A : A = B (+) One(r)
    OBVIOUS
  <2>2. \A s \in DOMAIN A : ReportShape(kind, s)
    BY <1>1, <1>3, <1>5, <2>1
  <2>3. Add(kind, r) = [evidence EXCEPT ![kind] = A]
    BY <2>1 DEF Add, B
  <2> QED
    <3>1. BagShape(A)
      BY <1>3, <2>1
    <3>2. EvidenceShape([evidence EXCEPT ![kind] = A])
      BY <2>2, <3>1, OtherReports
    <3> QED
      BY <2>3, <3>2, Zenon
<1>6. EvidenceShape(Drop(kind, r))
  <2>1. PICK A : A = B (-) One(r)
    OBVIOUS
  <2>2. \A s \in DOMAIN A : ReportShape(kind, s)
    BY <1>1, <1>4, <2>1
  <2>3. Drop(kind, r) = [evidence EXCEPT ![kind] = A]
    BY <2>1 DEF Drop, B
  <2> QED
    <3>1. BagShape(A)
      BY <1>4, <2>1
    <3>2. EvidenceShape([evidence EXCEPT ![kind] = A])
      BY <2>2, <3>1, OtherReports
    <3> QED
      BY <2>3, <3>2, Zenon
<1>7. ASSUME NEW S, IsFiniteSet(S), \A s \in S : ReportShape(kind, s)
      PROVE  EvidenceShape(Replace(kind, r, S))
  <2>1. PICK D : D = B (-) One(r)
    OBVIOUS
  <2>2. PICK T : T = SetToBag(S)
    OBVIOUS
  <2>3. BagShape(T) /\ DOMAIN T = S
    BY <1>7, <2>2, SetBag
  <2>4. PICK A : A = D (+) T
    OBVIOUS
  <2>5. BagShape(A) /\ DOMAIN A = DOMAIN D \cup DOMAIN T
    BY <1>4, <2>1, <2>3, <2>4, SumBag
  <2>6. \A s \in DOMAIN A : ReportShape(kind, s)
    BY <1>1, <1>4, <1>7, <2>1, <2>3, <2>5
  <2>7. Replace(kind, r, S) = [evidence EXCEPT ![kind] = A]
    BY <2>1, <2>2, <2>4 DEF Replace, B
  <2> QED
    <3>1. EvidenceShape([evidence EXCEPT ![kind] = A])
      BY <2>5, <2>6, OtherReports
    <3> QED
      BY <2>7, <3>1, Zenon
<1> QED
  BY <1>5, <1>6, <1>7

(* Evidence as the paper adapters make it of a receipt.                    *)
LEMMA PaperShape ==
  ASSUME NEW receipt, ReceiptHolds(receipt), NEW snapshot, ShowsCash(snapshot),
         NEW system, NEW available
  PROVE  EvidenceShape(PaperEvidence(receipt, snapshot, system, available))
<1> DEFINE after == receipt.after
           attempt == [o \in receipt.orders |-> CHOOSE a \in receipt.attempts : a.order = o.id]
           g == [o \in receipt.orders |->
                   PaperOrderReport(o, attempt[o], after.account, system, available)]
           h == [f \in receipt.fills |->
                   PaperFillReport(f, after.account, after.currency, system, available)]
           G == {g[o] : o \in receipt.orders}
           H == {h[f] : f \in receipt.fills}
           e == PaperEvidence(receipt, snapshot, system, available)
<1>1. /\ DOMAIN e = {"system", "account", "at", "available", "snapshot", "orders", "fills"}
      /\ e.snapshot = snapshot
      /\ e.orders = SetToBag({PaperOrderReport(o, CHOOSE a \in receipt.attempts : a.order = o.id,
                                               after.account, system, available)
                              : o \in receipt.orders})
      /\ e.fills = SetToBag({PaperFillReport(f, after.account, after.currency, system, available)
                             : f \in receipt.fills})
  BY DEF PaperEvidence
<1>2. e.orders = SetToBag(G) /\ e.fills = SetToBag(H)
  <2>1. G = {PaperOrderReport(o, CHOOSE a \in receipt.attempts : a.order = o.id,
                              after.account, system, available) : o \in receipt.orders}
    OBVIOUS
  <2>2. H = {PaperFillReport(f, after.account, after.currency, system, available)
             : f \in receipt.fills}
    OBVIOUS
  <2> HIDE DEF e, G, H
  <2> QED
    BY <1>1, <2>1, <2>2
<1>3. \A s \in G : OrderShape(s)
  <2> SUFFICES ASSUME NEW o \in receipt.orders PROVE OrderShape(g[o])
    OBVIOUS
  <2>1. attempt[o].at \in Nat
    <3>1. attempt[o] \in receipt.attempts
      BY DEF ReceiptHolds
    <3> HIDE DEF attempt
    <3> QED
      BY <3>1 DEF ReceiptHolds
  <2> HIDE DEF attempt
  <2> QED
    BY <2>1 DEF OrderShape, PaperOrderReport
<1>4. \A s \in H : FillShape(s)
  <2> SUFFICES ASSUME NEW f \in receipt.fills PROVE FillShape(h[f])
    OBVIOUS
  <2>1. AmountsTyped(f)
    BY ReceiptFills
  <2> QED
    BY <2>1 DEF FillShape, AmountsTyped, PaperFillReport
<1> HIDE DEF g, h, e
<1>5. IsFiniteSet(G) /\ IsFiniteSet(H)
  BY ImageFinite DEF ReceiptHolds
<1> HIDE DEF G, H
<1>6. /\ BagShape(e.orders) /\ DOMAIN e.orders = G
      /\ BagShape(e.fills) /\ DOMAIN e.fills = H
  BY <1>2, <1>5, SetBag
<1> QED
  BY <1>1, <1>3, <1>4, <1>6 DEF EvidenceShape, e

(* The evidence starts out well formed.                                    *)
LEMMA ObservedInitInv == ObservedInit => ObservedInv
<1> SUFFICES ASSUME ObservedInit PROVE ObservedInv
  OBVIOUS
<1>1. execution \in Executions /\ policy \in Policies
  BY DEF ObservedInit
<1>2. ReceiptHolds(execution.receipt) /\ ShowsCash(execution.snapshot)
  BY <1>1, ObservedExecutionAssumption
<1>3. evidence = PaperEvidence(execution.receipt, execution.snapshot, Venue, execution.receipt.at)
  BY DEF ObservedInit
<1>4. EvidenceShape(evidence)
  <2>1. PICK x : x = execution.receipt.at
    OBVIOUS
  <2>2. EvidenceShape(PaperEvidence(execution.receipt, execution.snapshot, Venue, x))
    BY <1>2, PaperShape
  <2> QED
    BY <1>3, <2>1, <2>2, Zenon
<1> QED
  BY <1>1, <1>4 DEF ObservedInv

(* What happens to the reports of one kind leaves them reports.            *)
LEMMA HappensInv ==
  ASSUME ObservedInv, NEW fault, NEW after, Happens(fault, after), EvidenceShape(after)
  PROVE  ObservedInv'
<1>1. evidence' = after /\ execution' = execution /\ policy' = policy
  BY DEF Happens
<1>2. EvidenceShape(evidence)'
  BY <1>1
<1> QED
  BY <1>1, <1>2 DEF ObservedInv

(* Whatever happens to one report leaves the evidence well formed.         *)
LEMMA ReportsInv ==
  ASSUME ObservedInv, NEW kind \in Kinds, NEW r \in BagToSet(evidence[kind]),
         \/ Repeat(kind, r) \/ Resend(kind, r) \/ Lose(kind, r)
         \/ Misreport(kind, r) \/ Contradict(kind, r)
  PROVE  ObservedInv'
<1>1. EvidenceShape(evidence)
  BY DEF ObservedInv
<1>2. ReportShape(kind, r)
  BY <1>1, KindShape DEF BagToSet
<1>3. CASE Repeat(kind, r)
  <2>1. EvidenceShape(Add(kind, r))
    BY <1>1, <1>2, ChangedReports
  <2> QED
    BY <1>3, <2>1, HappensInv DEF Repeat
<1>4. CASE Resend(kind, r)
  <2>1. PICK s : s = [r EXCEPT !.report = Append(@, 3)]
    OBVIOUS
  <2>2. ReportShape(kind, s)
    BY <1>2, <2>1, RenamedShape
  <2>3. EvidenceShape(Add(kind, s))
    BY <1>1, <2>2, ChangedReports
  <2>4. Happens({}, Add(kind, s))
    BY <1>4, <2>1, Zenon DEF Resend
  <2> QED
    BY <2>3, <2>4, HappensInv
<1>5. CASE Lose(kind, r)
  <2>1. EvidenceShape(Drop(kind, r))
    BY <1>1, ChangedReports
  <2> QED
    BY <1>5, <2>1, HappensInv DEF Lose
<1>6. CASE Misreport(kind, r)
  <2>1. PICK wrong \in Altered(kind, r) : Happens({"misreported"}, Replace(kind, r, {wrong}))
    BY <1>6 DEF Misreport
  <2>2. PICK S : S = {wrong}
    OBVIOUS
  <2>3. IsFiniteSet(S) /\ \A s \in S : ReportShape(kind, s)
    BY <1>2, <2>2, AlteredShape, FS_Singleton
  <2>4. EvidenceShape(Replace(kind, r, S))
    BY <1>1, <2>3, ChangedReports
  <2>5. Happens({"misreported"}, Replace(kind, r, S))
    BY <2>1, <2>2, Zenon
  <2> QED
    BY <2>4, <2>5, HappensInv
<1>7. CASE Contradict(kind, r)
  <2>1. PICK wrong \in Altered(kind, r), id \in {r.report, Append(r.report, 3)} :
          Happens({"contradicted"}, Add(kind, [wrong EXCEPT !.report = id]))
    BY <1>7 DEF Contradict
  <2>2. PICK s : s = [wrong EXCEPT !.report = id]
    OBVIOUS
  <2>3. ReportShape(kind, s)
    BY <1>2, <2>2, AlteredShape, RenamedShape
  <2>4. EvidenceShape(Add(kind, s))
    BY <1>1, <2>3, ChangedReports
  <2>5. Happens({"contradicted"}, Add(kind, s))
    BY <2>1, <2>2, Zenon
  <2> QED
    BY <2>4, <2>5, HappensInv
<1> QED
  BY <1>3, <1>4, <1>5, <1>6, <1>7

(* So does a fill reported in two parts.                                   *)
LEMMA SplitInv ==
  ASSUME ObservedInv, NEW r \in BagToSet(evidence.fills), Split(r)
  PROVE  ObservedInv'
<1> DEFINE one == [r EXCEPT !.report = Append(@, 1), !.fill = Append(@, 1), !.clientFill = Absent,
                            !.quantity = 1]
           rest == [r EXCEPT !.report = Append(@, 2), !.fill = Append(@, 2), !.clientFill = Absent,
                             !.quantity = @ - 1, !.commission = 0, !.stamp = 0, !.transfer = 0,
                             !.other = 0]
<1>1. EvidenceShape(evidence)
  BY DEF ObservedInv
<1>2. FillShape(r) /\ r.quantity > 1
  BY <1>1 DEF EvidenceShape, BagToSet, Split
<1>3. FillShape(one) /\ FillShape(rest)
  BY <1>2, PartsShape
<1>4. Happens({}, Replace("fills", r, {one, rest}))
  BY DEF Split
<1>5. PICK S : S = {one, rest}
  OBVIOUS
<1> HIDE DEF one, rest
<1>6. IsFiniteSet(S)
  <2>1. IsFiniteSet({one}) /\ IsFiniteSet({rest})
    BY FS_Singleton
  <2>2. S = {one} \cup {rest}
    BY <1>5
  <2> QED
    BY <2>1, <2>2, FS_Union
<1>7. \A s \in S : ReportShape("fills", s)
  BY <1>3, <1>5 DEF ReportShape
<1>8. EvidenceShape(Replace("fills", r, S))
  BY <1>1, <1>6, <1>7, ChangedReports DEF Kinds
<1>9. Happens({}, Replace("fills", r, S))
  BY <1>4, <1>5, Zenon
<1> QED
  BY <1>8, <1>9, HappensInv

(* So does a snapshot that drifts.                                         *)
LEMMA DriftInv ==
  ASSUME ObservedInv, Drift
  PROVE  ObservedInv'
<1>1. EvidenceShape(evidence)
  BY DEF ObservedInv
<1>2. PICK wrong \in Drifted(evidence.snapshot) :
        Happens({"drifted"}, [evidence EXCEPT !.snapshot = wrong])
  BY DEF Drift
<1>3. ShowsCash(wrong)
  BY <1>1, <1>2, DriftedShape DEF EvidenceShape
<1>4. PICK after : after = [evidence EXCEPT !.snapshot = wrong]
  OBVIOUS
<1>5. EvidenceShape(after)
  BY <1>1, <1>3, <1>4 DEF EvidenceShape
<1>6. Happens({"drifted"}, after)
  BY <1>2, <1>4, Zenon
<1> QED
  BY <1>5, <1>6, HappensInv

(* So does every step.                                                     *)
LEMMA ObservedNextInv == ObservedInv /\ [ObservedNext]_observedVars => ObservedInv'
<1> SUFFICES ASSUME ObservedInv, [ObservedNext]_observedVars PROVE ObservedInv'
  OBVIOUS
<1>1. ASSUME NEW kind \in Kinds, NEW r \in BagToSet(evidence[kind]),
             \/ Repeat(kind, r) \/ Resend(kind, r) \/ Lose(kind, r)
             \/ Misreport(kind, r) \/ Contradict(kind, r)
      PROVE  ObservedInv'
  BY <1>1, ReportsInv
<1>2. ASSUME NEW r \in BagToSet(evidence.fills), Split(r) PROVE ObservedInv'
  BY <1>2, SplitInv
<1>3. CASE Drift
  BY <1>3, DriftInv
<1>4. CASE Wait \/ Reconcile \/ Activate \/ UNCHANGED observedVars
  <2>1. execution' = execution /\ policy' = policy /\ evidence' = evidence
    BY <1>4 DEF Wait, Reconcile, Activate, observedVars, reports
  <2> QED
    BY <2>1 DEF ObservedInv
<1> QED
  BY <1>1, <1>2, <1>3, <1>4 DEF ObservedNext

(* The evidence is always well formed: bags of finitely many reports, each *)
(* with the fields, revisions and amounts of its kind, and a snapshot that *)
(* shows its cash.                                                         *)
THEOREM EvidenceStaysShaped == ObservedSpec => []ObservedInv
BY ObservedInitInv, ObservedNextInv, PTL DEF ObservedSpec

(* Only the engine answers, and of what it was asked.                      *)
LEMMA AnsweredByTheEngine ==
  ASSUME [ObservedNext]_observedVars, Answers
  PROVE  result' = Result(Request)
<1>1. result = Absent /\ result' # Absent
  BY DEF Answers
<1>2. CASE Reconcile
  BY <1>1, <1>2 DEF Reconcile
<1>3. ASSUME NEW fault, NEW after PROVE ~Happens(fault, after)
  BY <1>1 DEF Happens
<1>4. ASSUME NEW kind, NEW r,
             \/ Repeat(kind, r) \/ Resend(kind, r) \/ Lose(kind, r)
             \/ Misreport(kind, r) \/ Contradict(kind, r)
      PROVE  FALSE
  BY <1>3, <1>4 DEF Repeat, Resend, Lose, Misreport, Contradict
<1>5. ASSUME NEW r PROVE ~Split(r)
  BY <1>3 DEF Split
<1>6. ~Drift
  BY <1>3 DEF Drift
<1>7. ~Wait /\ ~Activate /\ ~UNCHANGED observedVars
  BY <1>1 DEF Wait, Activate, observedVars
<1> QED
  BY <1>2, <1>4, <1>5, <1>6, <1>7 DEF ObservedNext

(* A reconciliation that lets new orders go on means that the evidence     *)
(* adds up, for every execution whose receipt holds, every policy, and any *)
(* number of copies, losses, alterations, contradictions and drifts        *)
(* (engine.py: duplicates, links and tolerances together).                 *)
THEOREM UnstoppedAlwaysAddsUp == ObservedSpec => UnstoppedEvidenceAddsUp
<1>1. ObservedInv /\ [ObservedNext]_observedVars => [Answers /\ ~result'.stop.required => AddsUp]_observedVars
  <2> SUFFICES ASSUME ObservedInv, [ObservedNext]_observedVars, Answers, ~result'.stop.required
               PROVE  AddsUp
    OBVIOUS
  <2>1. result' = Result(Request)
    BY AnsweredByTheEngine
  <2> QED
    BY <2>1, UnstoppedAddsUp
<1> QED
  BY <1>1, EvidenceStaysShaped, PTL DEF ObservedSpec, UnstoppedEvidenceAddsUp

-----------------------------------------------------------------------------
(* What the engine checks depends on the contents of the reports only: it  *)
(* checks the contents themselves as it checks the reports.                *)

(* The content of a content is itself.                                     *)
LEMMA PayloadTwice == ASSUME NEW r PROVE Payload(Payload(r)) = Payload(r)
BY DEF Payload

(* A content says what its report says.                                    *)
LEMMA OrderContent ==
  ASSUME NEW r, OrderShape(r), NEW p, p = Payload(r)
  PROVE  /\ OrderShape(p) /\ Payload(p) = p
         /\ p.source = r.source /\ p.client = r.client /\ p.revision = r.revision /\ p.at = r.at
         /\ p.instrument = r.instrument /\ p.type = r.type /\ p.side = r.side
         /\ p.status = r.status /\ p.requested = r.requested /\ p.filled = r.filled
         /\ p.remaining = r.remaining /\ p.outcome = r.outcome
<1> DEFINE Parts == {"system", "account", "source", "client", "revision", "at", "instrument", "type",
                     "side", "status", "requested", "filled", "remaining", "outcome"}
<1>1. \A part \in Parts : p[part] = r[part] /\ part \in DOMAIN p
  <2>1. \A part \in Parts : part \in DOMAIN r /\ part \notin {"report", "available"}
    BY DEF OrderShape
  <2> QED
    BY <2>1, PayloadKeeps
<1>2. /\ p["source"] = r["source"] /\ p["client"] = r["client"] /\ p["revision"] = r["revision"]
      /\ p["at"] = r["at"] /\ p["instrument"] = r["instrument"] /\ p["type"] = r["type"]
      /\ p["side"] = r["side"] /\ p["status"] = r["status"] /\ p["requested"] = r["requested"]
      /\ p["filled"] = r["filled"] /\ p["remaining"] = r["remaining"] /\ p["outcome"] = r["outcome"]
  BY <1>1
<1>3. OrderShape(p)
  BY <1>1, <1>2 DEF OrderShape
<1> QED
  BY <1>2, <1>3, PayloadTwice

(* So does the content of a fill.                                          *)
LEMMA FillContent ==
  ASSUME NEW r, FillShape(r), NEW p, p = Payload(r)
  PROVE  /\ FillShape(p) /\ Payload(p) = p
         /\ p.source = r.source /\ p.client = r.client /\ p.clientFill = r.clientFill
         /\ p.fill = r.fill /\ p.at = r.at
         /\ p.instrument = r.instrument /\ p.type = r.type /\ p.side = r.side
         /\ p.currency = r.currency /\ p.quantity = r.quantity /\ p.price = r.price
         /\ p.commission = r.commission /\ p.stamp = r.stamp /\ p.transfer = r.transfer
         /\ p.other = r.other
<1> DEFINE Parts == {"system", "account", "fill", "source", "client", "clientFill", "at", "instrument",
                     "type", "side", "currency", "quantity", "price", "commission", "stamp",
                     "transfer", "other"}
<1>1. \A part \in Parts : p[part] = r[part] /\ part \in DOMAIN p
  <2>1. \A part \in Parts : part \in DOMAIN r /\ part \notin {"report", "available"}
    BY DEF FillShape
  <2> QED
    BY <2>1, PayloadKeeps
<1>2. /\ p["source"] = r["source"] /\ p["client"] = r["client"] /\ p["clientFill"] = r["clientFill"]
      /\ p["fill"] = r["fill"] /\ p["at"] = r["at"] /\ p["instrument"] = r["instrument"]
      /\ p["type"] = r["type"] /\ p["side"] = r["side"] /\ p["currency"] = r["currency"]
      /\ p["quantity"] = r["quantity"] /\ p["price"] = r["price"]
      /\ p["commission"] = r["commission"] /\ p["stamp"] = r["stamp"]
      /\ p["transfer"] = r["transfer"] /\ p["other"] = r["other"]
  BY <1>1
<1>3. FillShape(p)
  BY <1>1, <1>2 DEF FillShape, AmountsTyped
<1> QED
  BY <1>2, <1>3, PayloadTwice

(* Which orders the reports claim.                                         *)
LEMMA ClaimedContents ==
  ASSUME NEW S, \A r \in S : Payload(r).client = r.client, NEW id
  PROVE  /\ Claiming(Contents(S), id) = Contents(Claiming(S, id))
         /\ ClientsOf(Contents(S)) = ClientsOf(S)
BY DEF Claiming, ClientsOf, Contents

(* A choice among contents.                                                *)
ChosenContent(K) == CHOOSE content \in K : TRUE

(* The newest content is the content of the newest report.                 *)
LEMMA NewestContents ==
  ASSUME NEW R, IsFiniteSet(R), R # {}, \A r \in R : OrderShape(r)
  PROVE  Newest(Contents(R)) = Payload(Newest(R))
<1> DEFINE Late(S) == {r \in S : \A s \in S : s.revision < r.revision
                                                \/ (s.revision = r.revision /\ s.at <= r.at)}
           k == ChosenContent(Contents(Late(R)))
           P == Contents(R)
<1>1. \A S : Newest(S) = CHOOSE r \in Late(S) : Payload(r) = ChosenContent(Contents(Late(S)))
  BY DEF Newest, ChosenContent, Contents
<1>2. \A r \in R : /\ Payload(r).revision = r.revision /\ Payload(r).at = r.at
                   /\ Payload(Payload(r)) = Payload(r)
  BY OrderContent
<1>3. Late(P) = Contents(Late(R))
  BY <1>2 DEF Contents
<1>4. Contents(Late(P)) = Contents(Late(R))
  <2>1. PICK T : T = Late(R)
    OBVIOUS
  <2>2. T \subseteq R
    BY <2>1
  <2>3. Contents(Contents(T)) = Contents(T)
    BY <1>2, <2>2 DEF Contents
  <2> QED
    BY <1>3, <2>1, <2>3
<1>5. Late(R) # {}
  <2>1. \A r \in R : r.revision \in Nat /\ r.at \in Nat
    BY DEF OrderShape
  <2> QED
    BY <2>1, LateExists
<1> HIDE DEF Late
<1>6. k \in Contents(Late(R))
  BY <1>5 DEF ChosenContent, Contents
<1>7. Newest(R) \in Late(R) /\ Payload(Newest(R)) = k
  BY <1>1, <1>6 DEF Contents
<1>8. Newest(P) \in Late(P) /\ Payload(Newest(P)) = k
  BY <1>1, <1>3, <1>4, <1>6 DEF Contents
<1>9. Payload(Newest(P)) = Newest(P)
  BY <1>2, <1>3, <1>8 DEF Contents, Late
<1> QED
  BY <1>7, <1>8, <1>9

(* Two requests about one execution under one policy.                      *)
AlikeAsked(q, p) == p.draft = q.draft /\ p.receipt = q.receipt /\ p.policy = q.policy

(* The newest report of an order by contents.                              *)
LEMMA LatestContents ==
  ASSUME NEW C, IsFiniteSet(C), \A r \in C : OrderShape(r), NEW id
  PROVE  LatestReport(Contents(C), id) = Contents(LatestReport(C, id))
<1> DEFINE R == Claiming(C, id)
<1>1. Claiming(Contents(C), id) = Contents(R)
  <2>1. \A r \in C : Payload(r).client = r.client
    BY OrderContent
  <2> QED
    BY <2>1, ClaimedContents
<1>2. R \subseteq C /\ IsFiniteSet(R)
  <2>1. R \subseteq C
    BY DEF Claiming
  <2> QED
    BY <2>1, FS_Subset
<1> HIDE DEF R
<1>3. CASE R = {}
  <2>1. LatestReport(C, id) = {} /\ LatestReport(Contents(C), id) = {}
    BY <1>1, <1>3 DEF LatestReport, R, Contents
  <2> QED
    BY <2>1 DEF Contents
<1>4. CASE R # {}
  <2>1. LatestReport(C, id) = {Newest(R)}
    BY <1>4 DEF LatestReport, R
  <2>2. LatestReport(Contents(C), id) = {Newest(Contents(R))}
    <3>1. PICK T : T = Contents(R)
      OBVIOUS
    <3>2. T # {}
      BY <1>4, <3>1 DEF Contents
    <3> QED
      BY <1>1, <3>1, <3>2 DEF LatestReport
  <2>3. Newest(Contents(R)) = Payload(Newest(R))
    BY <1>2, <1>4, NewestContents
  <2> QED
    BY <2>1, <2>2, <2>3 DEF Contents
<1> QED
  BY <1>3, <1>4

(* The newest report of an order is one of those claimed.                  *)
LEMMA LatestShape ==
  ASSUME NEW C, IsFiniteSet(C), \A r \in C : OrderShape(r), NEW id
  PROVE  \A r \in LatestReport(C, id) : OrderShape(r)
<1> SUFFICES ASSUME NEW r \in LatestReport(C, id) PROVE OrderShape(r)
  OBVIOUS
<1>1. r = Newest(Claiming(C, id)) /\ Claiming(C, id) # {}
  BY DEF LatestReport
<1>2. Claiming(C, id) \subseteq C
  BY DEF Claiming
<1>3. PICK R : R = Claiming(C, id)
  OBVIOUS
<1>4. R # {} /\ R \subseteq C /\ IsFiniteSet(R)
  BY <1>1, <1>2, <1>3, FS_Subset
<1>5. \A s \in R : s.revision \in Nat /\ s.at \in Nat
  BY <1>4 DEF OrderShape
<1>6. Newest(R) \in R
  BY <1>4, <1>5, NewestIs
<1> QED
  BY <1>1, <1>3, <1>4, <1>6

(* What the receipt alone says of an order.                                *)
OutcomeIn(attempts, id) == (CHOOSE a \in attempts : a.order = id).reason

(* What is expected of an order is the same in both requests.              *)
LEMMA ExpectationsAlike ==
  ASSUME NEW q, NEW p, AlikeAsked(q, p), NEW o
  PROVE  /\ ExpectedIdentity(p, o) = ExpectedIdentity(q, o)
         /\ ExpectedOutcome(p, o) = ExpectedOutcome(q, o)
<1>1. p.draft = q.draft /\ p.receipt = q.receipt
  BY DEF AlikeAsked
<1>2. ExpectedOutcome(p, o) = ExpectedOutcome(q, o)
  <2>1. /\ ExpectedOutcome(p, o) = OutcomeIn(p.receipt.attempts, o.id)
        /\ ExpectedOutcome(q, o) = OutcomeIn(q.receipt.attempts, o.id)
    BY DEF ExpectedOutcome, OutcomeIn
  <2> QED
    BY <1>1, <2>1
<1>3. ExpectedIdentity(p, o) = ExpectedIdentity(q, o)
  <2> DEFINE lines == {l \in q.draft.lines : l.id = o.line}
             wrong(d, rc) ==
               \/ {l \in d.lines : l.id = o.line} = {}
               \/ \E l \in {l \in d.lines : l.id = o.line} :
                    <<l.instrument, l.type, l.side, l.quantity, l.full, l.rules, d.expires>>
                      # <<o.instrument, o.type, o.side, o.quantity, o.full, o.rules, o.expires>>
               \/ o.batch # d.batch \/ o.decision # d.decision
               \/ Cardinality({x \in rc.orders : x.line = o.line}) # 1
             f == Critical("ORDER", "ORDER_IDENTITY_MISMATCH", "CONFLICT", <<"expected", o.id>>)
  <2>1. /\ ExpectedIdentity(p, o) = When(wrong(p.draft, p.receipt), f)
        /\ ExpectedIdentity(q, o) = When(wrong(q.draft, q.receipt), f)
    BY DEF ExpectedIdentity
  <2> HIDE DEF wrong, f
  <2> QED
    BY <1>1, <2>1
<1> QED
  BY <1>2, <1>3

(* A content compares as its report does.                                  *)
LEMMA ComparisonsAlike ==
  ASSUME NEW q, NEW p, AlikeAsked(q, p), NEW o, NEW r, OrderShape(r)
  PROVE  Comparisons(p, o, Payload(r)) = Comparisons(q, o, r)
<1>1. PICK c : c = Payload(r)
  OBVIOUS
<1>2. /\ c.instrument = r.instrument /\ c.type = r.type /\ c.side = r.side
      /\ c.requested = r.requested /\ c.filled = r.filled /\ c.remaining = r.remaining
      /\ c.status = r.status /\ c.outcome = r.outcome
  BY <1>1, OrderContent
<1>3. ExpectedOutcome(p, o) = ExpectedOutcome(q, o)
  BY ExpectationsAlike
<1>4. Comparisons(p, o, c) = Comparisons(q, o, r)
  BY <1>2, <1>3 DEF Comparisons
<1> QED
  BY <1>1, <1>4

(* The findings about an order are the same of reports and of their        *)
(* contents.                                                               *)
LEMMA OrderFindingsAlike ==
  ASSUME NEW q, NEW p, AlikeAsked(q, p), NEW o, NEW L, \A r \in L : OrderShape(r)
  PROVE  OrderFindings(p, o, Contents(L)) = OrderFindings(q, o, L)
<1>1. ExpectedIdentity(p, o) = ExpectedIdentity(q, o)
  BY ExpectationsAlike
<1>2. PICK M : M = Contents(L)
  OBVIOUS
<1>3. M = {} <=> L = {}
  BY <1>2 DEF Contents
<1>4. UNION {Comparisons(p, o, r) : r \in M} = UNION {Comparisons(q, o, r) : r \in L}
  <2>1. \A r \in L : Comparisons(p, o, Payload(r)) = Comparisons(q, o, r)
    BY ComparisonsAlike
  <2> QED
    BY <1>2, <2>1 DEF Contents
<1>5. OrderFindings(p, o, M) = OrderFindings(q, o, L)
  BY <1>1, <1>3, <1>4 DEF OrderFindings
<1> QED
  BY <1>2, <1>5

(* So are the order checks.                                                *)
LEMMA OrderChecksAlike ==
  ASSUME NEW q, NEW p, AlikeAsked(q, p), NEW C, IsFiniteSet(C), \A r \in C : OrderShape(r)
  PROVE  OrderChecks(p, Contents(C)) = OrderChecks(q, C)
<1>1. p.draft = q.draft /\ p.receipt = q.receipt
  BY DEF AlikeAsked
<1>2. PICK K : K = Contents(C)
  OBVIOUS
<1>3. ASSUME NEW o
      PROVE  OrderFindings(p, o, LatestReport(K, o.id)) = OrderFindings(q, o, LatestReport(C, o.id))
  <2>1. LatestReport(K, o.id) = Contents(LatestReport(C, o.id))
    BY <1>2, LatestContents
  <2>2. \A r \in LatestReport(C, o.id) : OrderShape(r)
    BY LatestShape
  <2>3. PICK L : L = LatestReport(C, o.id)
    OBVIOUS
  <2>4. OrderFindings(p, o, Contents(L)) = OrderFindings(q, o, L)
    BY <2>2, <2>3, OrderFindingsAlike
  <2> QED
    BY <2>1, <2>3, <2>4
<1>4. ClientsOf(K) = ClientsOf(C)
  <2>1. \A r \in C : Payload(r).client = r.client
    BY OrderContent
  <2> QED
    BY <1>2, <2>1, ClaimedContents
<1>5. OrderChecks(p, K) = OrderChecks(q, C)
  <2> DEFINE A(x, X) == {Check(<<"order", o.id>>, OrderFindings(x, o, LatestReport(X, o.id)))
                           : o \in x.receipt.orders}
             B(d, rc) == {Check(<<"draft-line", l.id>>,
                                {Critical("ORDER", "ORDER_MISSING", "MISSING", <<"line", l.id>>)})
                            : l \in {l \in d.lines : \A o \in rc.orders : o.line # l.id}}
             D(rc, S) == {Check(<<"unexpected-order", c>>,
                                {Critical("ORDER", "ORDER_UNEXPECTED", "UNEXPECTED", c)})
                            : c \in S \ {o.id : o \in rc.orders}}
  <2>1. /\ OrderChecks(p, K) = A(p, K) \cup B(p.draft, p.receipt) \cup D(p.receipt, ClientsOf(K))
        /\ OrderChecks(q, C) = A(q, C) \cup B(q.draft, q.receipt) \cup D(q.receipt, ClientsOf(C))
    BY DEF OrderChecks
  <2>2. A(p, K) = A(q, C)
    BY <1>1, <1>3
  <2>3. B(p.draft, p.receipt) = B(q.draft, q.receipt) /\ D(p.receipt, ClientsOf(K)) = D(q.receipt, ClientsOf(C))
    <3> HIDE DEF B, D
    <3> QED
      BY <1>1, <1>4
  <2> HIDE DEF A, B, D
  <2> QED
    BY <2>1, <2>2, <2>3
<1> QED
  BY <1>2, <1>5

(* The other amounts of fills together, as sums of values.                 *)
GrossOf(S) == MapThenSumSet(Gross, S)
FeeOf(S) == MapThenSumSet(Fee, S)
CommissionOf(S) == MapThenSumSet(LAMBDA f : f.commission, S)
StampOf(S) == MapThenSumSet(LAMBDA f : f.stamp, S)
TransferOf(S) == MapThenSumSet(LAMBDA f : f.transfer, S)
OtherOf(S) == MapThenSumSet(LAMBDA f : f.other, S)

(* The gross value of fills as a sum of values.                            *)
LEMMA GrossOfIs ==
  ASSUME NEW X, IsFiniteSet(X)
  PROVE  GrossOf(X) = SumOver([f \in X |-> Gross(f)], X)
<1> DEFINE v == [f \in X |-> Gross(f)]
           h == CHOOSE g : g = [s \in SUBSET X |-> IF s = {} THEN 0 ELSE Gross(Pick(s)) + g[s \ {Pick(s)}]]
<1>1. PICK g : Sums(v, X, g)
  BY IterExists
<1>2. \A s \in SUBSET X : s # {} => v[Pick(s)] = Gross(Pick(s))
  BY DEF Pick
<1> HIDE DEF v
<1>3. g = [s \in SUBSET X |-> IF s = {} THEN 0 ELSE Gross(Pick(s)) + g[s \ {Pick(s)}]]
  BY <1>1, <1>2 DEF Sums
<1>4. h = [s \in SUBSET X |-> IF s = {} THEN 0 ELSE Gross(Pick(s)) + h[s \ {Pick(s)}]]
  BY <1>3
<1>5. GrossOf(X) = h[X]
  BY DEF GrossOf, MapThenSumSet, MapThenFoldSet, Pick
<1> HIDE DEF h
<1>6. Sums(v, X, h)
  BY <1>4, <1>2 DEF Sums
<1> QED
  BY <1>5, <1>6, SumOverIs DEF v

(* The fees of fills as a sum of values.                                   *)
LEMMA FeeOfIs ==
  ASSUME NEW X, IsFiniteSet(X)
  PROVE  FeeOf(X) = SumOver([f \in X |-> Fee(f)], X)
<1> DEFINE v == [f \in X |-> Fee(f)]
           h == CHOOSE g : g = [s \in SUBSET X |-> IF s = {} THEN 0 ELSE Fee(Pick(s)) + g[s \ {Pick(s)}]]
<1>1. PICK g : Sums(v, X, g)
  BY IterExists
<1>2. \A s \in SUBSET X : s # {} => v[Pick(s)] = Fee(Pick(s))
  BY DEF Pick
<1> HIDE DEF v
<1>3. g = [s \in SUBSET X |-> IF s = {} THEN 0 ELSE Fee(Pick(s)) + g[s \ {Pick(s)}]]
  BY <1>1, <1>2 DEF Sums
<1>4. h = [s \in SUBSET X |-> IF s = {} THEN 0 ELSE Fee(Pick(s)) + h[s \ {Pick(s)}]]
  BY <1>3
<1>5. FeeOf(X) = h[X]
  BY DEF FeeOf, MapThenSumSet, MapThenFoldSet, Pick
<1> HIDE DEF h
<1>6. Sums(v, X, h)
  BY <1>4, <1>2 DEF Sums
<1> QED
  BY <1>5, <1>6, SumOverIs DEF v

(* The commission of fills as a sum of values.                             *)
LEMMA CommissionOfIs ==
  ASSUME NEW X, IsFiniteSet(X)
  PROVE  CommissionOf(X) = SumOver([f \in X |-> f.commission], X)
<1> DEFINE v == [f \in X |-> f.commission]
           h == CHOOSE g : g = [s \in SUBSET X |-> IF s = {} THEN 0 ELSE Pick(s).commission + g[s \ {Pick(s)}]]
<1>1. PICK g : Sums(v, X, g)
  BY IterExists
<1>2. \A s \in SUBSET X : s # {} => v[Pick(s)] = Pick(s).commission
  BY DEF Pick
<1> HIDE DEF v
<1>3. g = [s \in SUBSET X |-> IF s = {} THEN 0 ELSE Pick(s).commission + g[s \ {Pick(s)}]]
  BY <1>1, <1>2 DEF Sums
<1>4. h = [s \in SUBSET X |-> IF s = {} THEN 0 ELSE Pick(s).commission + h[s \ {Pick(s)}]]
  BY <1>3
<1>5. CommissionOf(X) = h[X]
  BY DEF CommissionOf, MapThenSumSet, MapThenFoldSet, Pick
<1> HIDE DEF h
<1>6. Sums(v, X, h)
  BY <1>4, <1>2 DEF Sums
<1> QED
  BY <1>5, <1>6, SumOverIs DEF v

(* The stamp duty of fills as a sum of values.                             *)
LEMMA StampOfIs ==
  ASSUME NEW X, IsFiniteSet(X)
  PROVE  StampOf(X) = SumOver([f \in X |-> f.stamp], X)
<1> DEFINE v == [f \in X |-> f.stamp]
           h == CHOOSE g : g = [s \in SUBSET X |-> IF s = {} THEN 0 ELSE Pick(s).stamp + g[s \ {Pick(s)}]]
<1>1. PICK g : Sums(v, X, g)
  BY IterExists
<1>2. \A s \in SUBSET X : s # {} => v[Pick(s)] = Pick(s).stamp
  BY DEF Pick
<1> HIDE DEF v
<1>3. g = [s \in SUBSET X |-> IF s = {} THEN 0 ELSE Pick(s).stamp + g[s \ {Pick(s)}]]
  BY <1>1, <1>2 DEF Sums
<1>4. h = [s \in SUBSET X |-> IF s = {} THEN 0 ELSE Pick(s).stamp + h[s \ {Pick(s)}]]
  BY <1>3
<1>5. StampOf(X) = h[X]
  BY DEF StampOf, MapThenSumSet, MapThenFoldSet, Pick
<1> HIDE DEF h
<1>6. Sums(v, X, h)
  BY <1>4, <1>2 DEF Sums
<1> QED
  BY <1>5, <1>6, SumOverIs DEF v

(* The transfer fees of fills as a sum of values.                          *)
LEMMA TransferOfIs ==
  ASSUME NEW X, IsFiniteSet(X)
  PROVE  TransferOf(X) = SumOver([f \in X |-> f.transfer], X)
<1> DEFINE v == [f \in X |-> f.transfer]
           h == CHOOSE g : g = [s \in SUBSET X |-> IF s = {} THEN 0 ELSE Pick(s).transfer + g[s \ {Pick(s)}]]
<1>1. PICK g : Sums(v, X, g)
  BY IterExists
<1>2. \A s \in SUBSET X : s # {} => v[Pick(s)] = Pick(s).transfer
  BY DEF Pick
<1> HIDE DEF v
<1>3. g = [s \in SUBSET X |-> IF s = {} THEN 0 ELSE Pick(s).transfer + g[s \ {Pick(s)}]]
  BY <1>1, <1>2 DEF Sums
<1>4. h = [s \in SUBSET X |-> IF s = {} THEN 0 ELSE Pick(s).transfer + h[s \ {Pick(s)}]]
  BY <1>3
<1>5. TransferOf(X) = h[X]
  BY DEF TransferOf, MapThenSumSet, MapThenFoldSet, Pick
<1> HIDE DEF h
<1>6. Sums(v, X, h)
  BY <1>4, <1>2 DEF Sums
<1> QED
  BY <1>5, <1>6, SumOverIs DEF v

(* The other fees of fills as a sum of values.                             *)
LEMMA OtherOfIs ==
  ASSUME NEW X, IsFiniteSet(X)
  PROVE  OtherOf(X) = SumOver([f \in X |-> f.other], X)
<1> DEFINE v == [f \in X |-> f.other]
           h == CHOOSE g : g = [s \in SUBSET X |-> IF s = {} THEN 0 ELSE Pick(s).other + g[s \ {Pick(s)}]]
<1>1. PICK g : Sums(v, X, g)
  BY IterExists
<1>2. \A s \in SUBSET X : s # {} => v[Pick(s)] = Pick(s).other
  BY DEF Pick
<1> HIDE DEF v
<1>3. g = [s \in SUBSET X |-> IF s = {} THEN 0 ELSE Pick(s).other + g[s \ {Pick(s)}]]
  BY <1>1, <1>2 DEF Sums
<1>4. h = [s \in SUBSET X |-> IF s = {} THEN 0 ELSE Pick(s).other + h[s \ {Pick(s)}]]
  BY <1>3
<1>5. OtherOf(X) = h[X]
  BY DEF OtherOf, MapThenSumSet, MapThenFoldSet, Pick
<1> HIDE DEF h
<1>6. Sums(v, X, h)
  BY <1>4, <1>2 DEF Sums
<1> QED
  BY <1>5, <1>6, SumOverIs DEF v

(* Finitely many reports have finitely many contents.                      *)
LEMMA ContentsFinite == ASSUME NEW S, IsFiniteSet(S) PROVE IsFiniteSet(Contents(S))
<1> DEFINE g == [r \in S |-> Payload(r)]
<1>1. Contents(S) = {g[r] : r \in S}
  BY DEF Contents
<1> HIDE DEF g
<1> QED
  BY <1>1, ImageFinite

(* What is summed over contents.                                           *)
LEMMA SumContents ==
  ASSUME NEW S, IsFiniteSet(S), \A r, s \in S : Payload(r) = Payload(s) => r = s,
         NEW v, NEW w, \A r \in S : v[Payload(r)] \in Int /\ w[r] = v[Payload(r)]
  PROVE  SumOver(v, Contents(S)) = SumOver(w, S)
<1> DEFINE g == [r \in S |-> Payload(r)]
<1>1. Contents(S) = {g[r] : r \in S} /\ \A r \in S : g[r] = Payload(r)
  BY DEF Contents
<1> HIDE DEF g
<1>2. \A x, y \in S : g[x] = g[y] => x = y
  BY <1>1
<1>3. \A x \in S : v[g[x]] \in Int /\ w[x] = v[g[x]]
  BY <1>1
<1>4. SumOver(v, {g[x] : x \in S}) = SumOver(w, S)
  BY <1>2, <1>3, SumImage
<1> QED
  BY <1>1, <1>4

(* A content has the amounts of its report.                                *)
LEMMA FillAmounts ==
  ASSUME NEW r, FillShape(r)
  PROVE  /\ Gross(Payload(r)) = Gross(r) /\ Fee(Payload(r)) = Fee(r)
         /\ Gross(r) \in Int /\ Fee(r) \in Int
         /\ r.commission \in Int /\ r.stamp \in Int /\ r.transfer \in Int /\ r.other \in Int
<1>1. PICK p : p = Payload(r)
  OBVIOUS
<1>2. /\ p.quantity = r.quantity /\ p.price = r.price /\ p.commission = r.commission
      /\ p.stamp = r.stamp /\ p.transfer = r.transfer /\ p.other = r.other
  BY <1>1, FillContent
<1>3. Gross(r) \in Int /\ Fee(r) \in Int
  BY DEF FillShape, AmountsTyped, Gross, Fee
<1>4. Gross(p) = Gross(r) /\ Fee(p) = Fee(r)
  BY <1>2 DEF Gross, Fee
<1> QED
  BY <1>1, <1>3, <1>4 DEF FillShape, AmountsTyped

(* Different contents together have the amounts of their reports.          *)
LEMMA AmountsContents ==
  ASSUME NEW S, IsFiniteSet(S), \A r \in S : FillShape(r),
         \A r, s \in S : Payload(r) = Payload(s) => r = s
  PROVE  Amounts(Contents(S)) = Amounts(S)
<1>0. CashOf(Contents(S)) = CashOf(S)
  BY ContentsWorth
<1>a. IsFiniteSet(Contents(S))
  BY ContentsFinite
<1>b. \A r \in S : /\ Payload(r) \in Contents(S)
                  /\ Payload(r).commission = r.commission /\ Payload(r).stamp = r.stamp
                  /\ Payload(r).transfer = r.transfer /\ Payload(r).other = r.other
  BY FillContent DEF Contents
<1>1. GrossOf(Contents(S)) = GrossOf(S)
  <2> DEFINE v == [f \in Contents(S) |-> Gross(f)]
             w == [f \in S |-> Gross(f)]
  <2>1. GrossOf(Contents(S)) = SumOver(v, Contents(S)) /\ GrossOf(S) = SumOver(w, S)
    BY <1>a, GrossOfIs
  <2>2. \A r \in S : v[Payload(r)] \in Int /\ w[r] = v[Payload(r)]
    BY <1>b, FillAmounts
  <2> HIDE DEF v, w
  <2> QED
    BY <2>1, <2>2, SumContents
<1>2. FeeOf(Contents(S)) = FeeOf(S)
  <2> DEFINE v == [f \in Contents(S) |-> Fee(f)]
             w == [f \in S |-> Fee(f)]
  <2>1. FeeOf(Contents(S)) = SumOver(v, Contents(S)) /\ FeeOf(S) = SumOver(w, S)
    BY <1>a, FeeOfIs
  <2>2. \A r \in S : v[Payload(r)] \in Int /\ w[r] = v[Payload(r)]
    BY <1>b, FillAmounts
  <2> HIDE DEF v, w
  <2> QED
    BY <2>1, <2>2, SumContents
<1>3. CommissionOf(Contents(S)) = CommissionOf(S)
  <2> DEFINE v == [f \in Contents(S) |-> f.commission]
             w == [f \in S |-> f.commission]
  <2>1. CommissionOf(Contents(S)) = SumOver(v, Contents(S)) /\ CommissionOf(S) = SumOver(w, S)
    BY <1>a, CommissionOfIs
  <2>2. \A r \in S : v[Payload(r)] \in Int /\ w[r] = v[Payload(r)]
    BY <1>b, FillAmounts
  <2> HIDE DEF v, w
  <2> QED
    BY <2>1, <2>2, SumContents
<1>4. StampOf(Contents(S)) = StampOf(S)
  <2> DEFINE v == [f \in Contents(S) |-> f.stamp]
             w == [f \in S |-> f.stamp]
  <2>1. StampOf(Contents(S)) = SumOver(v, Contents(S)) /\ StampOf(S) = SumOver(w, S)
    BY <1>a, StampOfIs
  <2>2. \A r \in S : v[Payload(r)] \in Int /\ w[r] = v[Payload(r)]
    BY <1>b, FillAmounts
  <2> HIDE DEF v, w
  <2> QED
    BY <2>1, <2>2, SumContents
<1>5. TransferOf(Contents(S)) = TransferOf(S)
  <2> DEFINE v == [f \in Contents(S) |-> f.transfer]
             w == [f \in S |-> f.transfer]
  <2>1. TransferOf(Contents(S)) = SumOver(v, Contents(S)) /\ TransferOf(S) = SumOver(w, S)
    BY <1>a, TransferOfIs
  <2>2. \A r \in S : v[Payload(r)] \in Int /\ w[r] = v[Payload(r)]
    BY <1>b, FillAmounts
  <2> HIDE DEF v, w
  <2> QED
    BY <2>1, <2>2, SumContents
<1>6. OtherOf(Contents(S)) = OtherOf(S)
  <2> DEFINE v == [f \in Contents(S) |-> f.other]
             w == [f \in S |-> f.other]
  <2>1. OtherOf(Contents(S)) = SumOver(v, Contents(S)) /\ OtherOf(S) = SumOver(w, S)
    BY <1>a, OtherOfIs
  <2>2. \A r \in S : v[Payload(r)] \in Int /\ w[r] = v[Payload(r)]
    BY <1>b, FillAmounts
  <2> HIDE DEF v, w
  <2> QED
    BY <2>1, <2>2, SumContents
<1> QED
  <2>1. \A X : Amounts(X) = [gross |-> GrossOf(X), cash |-> CashOf(X), fee |-> FeeOf(X),
                             commission |-> CommissionOf(X), stamp |-> StampOf(X),
                             transfer |-> TransferOf(X), other |-> OtherOf(X)]
    BY DEF Amounts, GrossOf, FeeOf, CommissionOf, StampOf, TransferOf, OtherOf
  <2> QED
    BY <1>0, <1>1, <1>2, <1>3, <1>4, <1>5, <1>6, <2>1

(* Fills that differ in content.                                           *)
Distinct(S) == \A r, s \in S : Payload(r) = Payload(s) => r = s
FillsApart(S) == IsFiniteSet(S) /\ (\A r \in S : FillShape(r)) /\ Distinct(S)

(* The identity of fills is judged by their contents.                      *)
LEMMA FillIdentityAlike ==
  ASSUME NEW q, NEW p, AlikeAsked(q, p), NEW o, NEW L, \A r \in L : OrderShape(r),
         NEW S, \A r \in S : FillShape(r)
  PROVE  FillIdentity(p, o, Contents(L), Contents(S)) = FillIdentity(q, o, L, S)
<1> DEFINE other(rc, M, r) ==
             \/ <<r.instrument, r.type, r.side>> # <<o.instrument, o.type, o.side>>
             \/ r.currency # rc.after.currency
             \/ ~ \E newest \in M : r.source = newest.source
           wrong(rc, M, T) == \E r \in T : other(rc, M, r)
           f == Critical("FILL", "FILL_IDENTITY_MISMATCH", "MISMATCH", <<"identity", o.id>>)
<1>1. \A x, M, T : FillIdentity(x, o, M, T) = When(wrong(x.receipt, M, T), f)
  BY DEF FillIdentity
<1>2. wrong(p.receipt, Contents(L), Contents(S)) <=> wrong(q.receipt, L, S)
  <2>1. \A r \in S : /\ Payload(r).instrument = r.instrument /\ Payload(r).type = r.type
                     /\ Payload(r).side = r.side /\ Payload(r).currency = r.currency
                     /\ Payload(r).source = r.source
    BY FillContent
  <2>2. \A r \in L : Payload(r).source = r.source
    BY OrderContent
  <2>3. p.receipt = q.receipt
    BY DEF AlikeAsked
  <2>4. \A x : (\E newest \in Contents(L) : x = newest.source) <=> \E newest \in L : x = newest.source
    BY <2>2 DEF Contents
  <2>5. \A r \in S : other(p.receipt, Contents(L), Payload(r)) <=> other(q.receipt, L, r)
    <3> SUFFICES ASSUME NEW r \in S
                 PROVE  other(p.receipt, Contents(L), Payload(r)) <=> other(q.receipt, L, r)
      OBVIOUS
    <3>1. PICK c : c = Payload(r)
      OBVIOUS
    <3>2. PICK M : M = Contents(L)
      OBVIOUS
    <3>3. other(p.receipt, M, c) <=> other(q.receipt, L, r)
      BY <2>1, <2>3, <2>4, <3>1, <3>2
    <3> QED
      BY <3>1, <3>2, <3>3
  <2> HIDE DEF other
  <2> QED
    BY <2>5 DEF Contents
<1> HIDE DEF wrong, other, f
<1>3. FillIdentity(p, o, Contents(L), Contents(S)) = When(wrong(p.receipt, Contents(L), Contents(S)), f)
  BY <1>1
<1>4. FillIdentity(q, o, L, S) = When(wrong(q.receipt, L, S), f)
  BY <1>1
<1> QED
  BY <1>2, <1>3, <1>4 DEF When

(* As many contents as reports.                                            *)
LEMMA ContentsCount ==
  ASSUME NEW S, IsFiniteSet(S), Distinct(S)
  PROVE  Cardinality(Contents(S)) = Cardinality(S)
<1> DEFINE g == [r \in S |-> Payload(r)]
<1>1. g \in [S -> Contents(S)]
  BY DEF Contents
<1>2. \A x, y \in S : g[x] = g[y] => x = y
  BY DEF Distinct
<1>3. \A c \in Contents(S) : \E r \in S : g[r] = c
  BY DEF Contents
<1> HIDE DEF g
<1>4. g \in Bijection(S, Contents(S))
  BY <1>1, <1>2, <1>3 DEF Bijection, Injection, Surjection, IsInjective
<1> QED
  BY <1>4, FS_Bijection DEF ExistsBijection

(* Contents name fills one to one where the reports do.                    *)
LEMMA OneToOneAlike ==
  ASSUME NEW S, FillsApart(S), NEW E
  PROVE  /\ Identified(Contents(S)) = {} <=> Identified(S) = {}
         /\ OneToOne(E, Contents(S)) <=> OneToOne(E, S)
<1>1. \A r \in S : Payload(r).clientFill = r.clientFill
  BY FillContent DEF FillsApart
<1>2. Identified(Contents(S)) = {} <=> Identified(S) = {}
  BY <1>1 DEF Identified, Contents
<1>3. Identified(Contents(S)) = Contents(S) <=> Identified(S) = S
  BY <1>1 DEF Identified, Contents
<1>4. {r.clientFill : r \in Contents(S)} = {r.clientFill : r \in S}
  BY <1>1 DEF Contents
<1>5. Cardinality(Contents(S)) = Cardinality(S)
  BY ContentsCount DEF FillsApart
<1>6. PICK K : K = Contents(S)
  OBVIOUS
<1>7. OneToOne(E, K) <=> OneToOne(E, S)
  BY <1>3, <1>4, <1>5, <1>6 DEF OneToOne
<1> QED
  BY <1>2, <1>6, <1>7

(* A fill's own report, where every report names another fill.             *)
ReportOf(id, S) == CHOOSE r \in S : r.clientFill = id

(* That report is unique, and its content is the one the contents have.    *)
LEMMA ReportOfAlike ==
  ASSUME NEW S, FillsApart(S), NEW E, OneToOne(E, S), NEW e \in E
  PROVE  /\ ReportOf(e.id, S) \in S
         /\ ReportOf(e.id, Contents(S)) = Payload(ReportOf(e.id, S))
<1> DEFINE ids == {r.clientFill : r \in S}
           g == [r \in S |-> r.clientFill]
<1>1. IsFiniteSet(S)
  BY DEF FillsApart
<1>2. g \in Surjection(S, ids)
  BY DEF Surjection
<1>3. Cardinality(S) = Cardinality(ids)
  BY DEF OneToOne
<1>4. g \in Injection(S, ids)
  <2> HIDE DEF g, ids
  <2> QED
    BY <1>1, <1>2, <1>3, FS_SurjSameCardinalityImpliesInj
<1>5. \A r, s \in S : r.clientFill = s.clientFill => r = s
  BY <1>4 DEF Injection, IsInjective
<1>6. PICK r \in S : r.clientFill = e.id
  BY DEF OneToOne
<1>7. ReportOf(e.id, S) = r
  BY <1>5, <1>6 DEF ReportOf
<1>8. \A s \in S : Payload(s).clientFill = s.clientFill
  BY FillContent DEF FillsApart
<1>9. ReportOf(e.id, Contents(S)) = Payload(r)
  <2>1. \A c \in Contents(S) : c.clientFill = e.id => c = Payload(r)
    BY <1>5, <1>6, <1>8 DEF Contents
  <2>2. Payload(r) \in Contents(S) /\ Payload(r).clientFill = e.id
    BY <1>6, <1>8 DEF Contents
  <2> QED
    BY <2>1, <2>2 DEF ReportOf
<1> QED
  BY <1>6, <1>7, <1>9

(* The comparison of amounts depends on the policy alone.                  *)
LEMMA DifferencesAlike ==
  ASSUME NEW q, NEW p, AlikeAsked(q, p), NEW entity, NEW a, NEW b
  PROVE  EconomicDifferences(p, entity, a, b) = EconomicDifferences(q, entity, a, b)
<1>1. p.policy = q.policy
  BY DEF AlikeAsked
<1> DEFINE D(rules) == UNION {Difference("FILL", CodeOf(part), <<entity, part>>, b[part] - a[part],
                                          ToleranceOf(rules, part)) : part \in DOMAIN a}
<1>2. EconomicDifferences(p, entity, a, b) = D(p.policy) /\ EconomicDifferences(q, entity, a, b) = D(q.policy)
  BY DEF EconomicDifferences
<1> HIDE DEF D
<1> QED
  BY <1>1, <1>2

(* Fill by fill, contents compare as their reports do.                     *)
LEMMA FillByFillAlike ==
  ASSUME NEW q, NEW p, AlikeAsked(q, p), NEW S, FillsApart(S), NEW E, OneToOne(E, S), NEW e \in E
  PROVE  FillByFill(p, e, Contents(S)) = FillByFill(q, e, S)
<1>1. PICK r : r = ReportOf(e.id, S)
  OBVIOUS
<1>2. PICK c : c = Payload(r)
  OBVIOUS
<1>3. r \in S /\ c = ReportOf(e.id, Contents(S)) /\ FillShape(r)
  BY <1>1, <1>2, ReportOfAlike DEF FillsApart
<1>4. c.at = r.at /\ c.quantity = r.quantity /\ c.price = r.price
  BY <1>2, <1>3, FillContent
<1>5. Amounts({c}) = Amounts({r})
  <2>1. {c} = Contents({r})
    BY <1>2 DEF Contents
  <2>2. IsFiniteSet({r})
    BY FS_Singleton
  <2>3. \A s \in {r} : FillShape(s)
    BY <1>3
  <2>4. Amounts(Contents({r})) = Amounts({r})
    BY <2>2, <2>3, AmountsContents
  <2> QED
    BY <2>1, <2>4
<1>6. p.policy = q.policy
  BY DEF AlikeAsked
<1>7. \A a, b : EconomicDifferences(p, <<"fill", e.id>>, a, b) = EconomicDifferences(q, <<"fill", e.id>>, a, b)
  BY DifferencesAlike
<1> DEFINE F(x, s) == UNION {
    When(s.at # e.at,
         Critical("FILL", "FILL_IDENTITY_MISMATCH", "MISMATCH", <<"filled-at", e.id>>)),
    When(s.quantity # e.quantity,
         Critical("FILL", "FILL_QUANTITY_MISMATCH", "MISMATCH", <<"fill", e.id>>)),
    Difference("FILL", "FILL_PRICE_MISMATCH", <<"fill", e.id>>, s.price - e.price,
               x.policy.price),
    EconomicDifferences(x, <<"fill", e.id>>, Amounts({e}), Amounts({s}))}
<1>8. /\ FillByFill(p, e, Contents(S)) = F(p, ReportOf(e.id, Contents(S)))
      /\ FillByFill(q, e, S) = F(q, ReportOf(e.id, S))
  BY DEF FillByFill, ReportOf
<1>9. F(p, c) = F(q, r)
  BY <1>4, <1>5, <1>6, <1>7
<1> HIDE DEF F
<1> QED
  BY <1>1, <1>3, <1>8, <1>9

(* The findings about the fills of an order are the same of reports and of *)
(* their contents.                                                         *)
LEMMA FillFindingsAlike ==
  ASSUME NEW q, NEW p, AlikeAsked(q, p), NEW o, NEW L, \A r \in L : OrderShape(r),
         NEW E, NEW S, FillsApart(S)
  PROVE  FillFindings(p, o, Contents(L), E, Contents(S)) = FillFindings(q, o, L, E, S)
<1>1. PICK M : M = Contents(L)
  OBVIOUS
<1>2. PICK K : K = Contents(S)
  OBVIOUS
<1>3. FillIdentity(p, o, M, K) = FillIdentity(q, o, L, S)
  BY <1>1, <1>2, FillIdentityAlike DEF FillsApart
<1>4. /\ Identified(K) = {} <=> Identified(S) = {}
      /\ OneToOne(E, K) <=> OneToOne(E, S)
  BY <1>2, OneToOneAlike
<1>5. ASSUME OneToOne(E, S)
      PROVE  UNION {FillByFill(p, f, K) : f \in E} = UNION {FillByFill(q, f, S) : f \in E}
  <2>1. \A f \in E : FillByFill(p, f, Contents(S)) = FillByFill(q, f, S)
    BY <1>5, FillByFillAlike
  <2> QED
    BY <1>2, <2>1
<1>6. QuantityOf(K) = QuantityOf(S) /\ Amounts(K) = Amounts(S)
  BY <1>2, ContentsWorth, AmountsContents DEF FillsApart, Distinct
<1>7. FillQuantities(o, E, K) = FillQuantities(o, E, S)
  BY <1>6 DEF FillQuantities
<1>8. EconomicDifferences(p, o.id, Amounts(E), Amounts(K)) = EconomicDifferences(q, o.id, Amounts(E), Amounts(S))
  BY <1>6, DifferencesAlike
<1>9. AveragePrice(p, o, E, K) = AveragePrice(q, o, E, S)
  <2>1. p.policy = q.policy
    BY DEF AlikeAsked
  <2> QED
    BY <1>6, <2>1 DEF AveragePrice
<1>10. FillFindings(p, o, M, E, K) = FillFindings(q, o, L, E, S)
  BY <1>3, <1>4, <1>5, <1>7, <1>8, <1>9 DEF FillFindings
<1> QED
  BY <1>1, <1>2, <1>10

(* So the fill checks are the same.                                        *)
LEMMA FillChecksAlike ==
  ASSUME NEW q, NEW p, AlikeAsked(q, p), NEW C, IsFiniteSet(C), \A r \in C : OrderShape(r),
         NEW F, FillsApart(F)
  PROVE  FillChecks(p, Contents(C), Contents(F)) = FillChecks(q, C, F)
<1>1. p.receipt = q.receipt
  BY DEF AlikeAsked
<1>2. PICK K : K = Contents(C)
  OBVIOUS
<1>3. PICK G : G = Contents(F)
  OBVIOUS
<1>5. \A r \in F : Payload(r).client = r.client
  BY FillContent DEF FillsApart
<1>6. ClientsOf(G) = ClientsOf(F)
  BY <1>3, <1>5, ClaimedContents
<1> DEFINE E(o) == {f \in q.receipt.fills : f.order = o.id}
<1>7. ASSUME NEW o
      PROVE  FillFindings(p, o, LatestReport(K, o.id), E(o), Claiming(G, o.id))
               = FillFindings(q, o, LatestReport(C, o.id), E(o), Claiming(F, o.id))
  <2>1. PICK L : L = LatestReport(C, o.id)
    OBVIOUS
  <2>2. LatestReport(K, o.id) = Contents(L) /\ \A r \in L : OrderShape(r)
    BY <1>2, <2>1, LatestContents, LatestShape
  <2>3. PICK S : S = Claiming(F, o.id)
    OBVIOUS
  <2>4. Claiming(G, o.id) = Contents(S)
    BY <1>3, <1>5, <2>3, ClaimedContents
  <2>5. FillsApart(S)
    <3>1. S \subseteq F
      BY <2>3 DEF Claiming
    <3> QED
      BY <3>1, FS_Subset DEF FillsApart, Distinct
  <2>6. PICK e : e = E(o)
    OBVIOUS
  <2>7. FillFindings(p, o, Contents(L), e, Contents(S)) = FillFindings(q, o, L, e, S)
    BY <2>2, <2>5, FillFindingsAlike
  <2> QED
    BY <2>1, <2>2, <2>3, <2>4, <2>6, <2>7
<1> DEFINE A(x, X, Y) == {Check(<<"fill", o.id>>,
                                FillFindings(x, o, LatestReport(X, o.id), {f \in x.receipt.fills : f.order = o.id},
                                             Claiming(Y, o.id)))
                            : o \in x.receipt.orders}
           B(rc, S) == {Check(<<"fill", c>>, {Critical("FILL", "FILL_UNEXPECTED", "UNEXPECTED", c)})
                          : c \in S \ {o.id : o \in rc.orders}}
<1>8. \A x, X, Y : FillChecks(x, X, Y) = A(x, X, Y) \cup B(x.receipt, ClientsOf(Y))
  BY DEF FillChecks
<1>9. A(p, K, G) = A(q, C, F)
  <2>1. \A o : {f \in p.receipt.fills : f.order = o.id} = E(o)
    BY <1>1
  <2>2. \A o : FillFindings(p, o, LatestReport(K, o.id), {f \in p.receipt.fills : f.order = o.id}, Claiming(G, o.id))
                 = FillFindings(q, o, LatestReport(C, o.id), {f \in q.receipt.fills : f.order = o.id}, Claiming(F, o.id))
    <3> SUFFICES ASSUME NEW o
                 PROVE  FillFindings(p, o, LatestReport(K, o.id), {f \in p.receipt.fills : f.order = o.id}, Claiming(G, o.id))
                          = FillFindings(q, o, LatestReport(C, o.id), {f \in q.receipt.fills : f.order = o.id}, Claiming(F, o.id))
      OBVIOUS
    <3>1. PICK e : e = {f \in p.receipt.fills : f.order = o.id}
      OBVIOUS
    <3>2. PICK d : d = {f \in q.receipt.fills : f.order = o.id}
      OBVIOUS
    <3>3. e = d /\ d = E(o)
      BY <1>1, <3>1, <3>2
    <3> HIDE DEF E
    <3> QED
      BY <1>7, <3>1, <3>2, <3>3
  <2> QED
    BY <1>1, <2>2
<1>10. B(p.receipt, ClientsOf(G)) = B(q.receipt, ClientsOf(F))
  <2> HIDE DEF B
  <2> QED
    BY <1>1, <1>6
<1> HIDE DEF A, B
<1>11. FillChecks(p, K, G) = FillChecks(q, C, F)
  BY <1>8, <1>9, <1>10
<1> QED
  BY <1>2, <1>3, <1>11

(* Contents that no other contradicts: these are the contents that count,  *)
(* when no report id is disputed.                                          *)
Settled(kind, P) == {c \in P : \A d \in P : DedupKey(kind, d) = DedupKey(kind, c) => d = c}

KeyedBag(kind, B) == BagShape(B) /\ \A r \in DOMAIN B : KeyParts(kind) \subseteq DOMAIN r

(* The reports that count are those received whose content settles its     *)
(* source identity, one of each.                                           *)
LEMMA CanonicalContents ==
  ASSUME NEW kind, NEW B, KeyedBag(kind, B), Disputed(B) = {}
  PROVE  /\ Canonical(kind, B) \subseteq DOMAIN B
         /\ Distinct(Canonical(kind, B))
         /\ Contents(Canonical(kind, B)) = Settled(kind, Contents(DOMAIN B))
<1> DEFINE D == DOMAIN B
           Of(r) == CHOOSE s \in Alike(kind, B, r) : TRUE
           Agreed == {r \in D : Agree(Alike(kind, B, r))}
<1>1. IsFiniteSet(D) /\ \A r \in D : KeyParts(kind) \subseteq DOMAIN r
  BY DEF KeyedBag, BagShape
<1>2. Undisputed(B) = D
  BY DEF Undisputed, BagToSet
<1>3. \A r \in D : Alike(kind, B, r) = {s \in D : DedupKey(kind, s) = DedupKey(kind, r)}
  BY <1>2 DEF Alike
<1>4. Canonical(kind, B) = {Of(r) : r \in Agreed}
  BY <1>2 DEF Canonical
<1>5. \A r \in D : Of(r) \in D /\ DedupKey(kind, Of(r)) = DedupKey(kind, r)
  <2> SUFFICES ASSUME NEW r \in D PROVE Of(r) \in D /\ DedupKey(kind, Of(r)) = DedupKey(kind, r)
    OBVIOUS
  <2>1. r \in Alike(kind, B, r)
    BY <1>3
  <2>2. Of(r) \in Alike(kind, B, r)
    BY <2>1
  <2> HIDE DEF Of
  <2> QED
    BY <1>3, <2>2
<1>6. \A r, s \in D : Payload(r) = Payload(s) => DedupKey(kind, r) = DedupKey(kind, s)
  BY <1>1, ContentKey
<1>7. \A r \in D : DedupKey(kind, Payload(r)) = DedupKey(kind, r)
  <2> SUFFICES ASSUME NEW r \in D PROVE DedupKey(kind, Payload(r)) = DedupKey(kind, r)
    OBVIOUS
  <2>1. PICK c : c = Payload(r)
    OBVIOUS
  <2>2. Payload(c) = Payload(r)
    BY <2>1, PayloadTwice
  <2>3. KeyParts(kind) \subseteq DOMAIN c
    BY <1>1, <2>1 DEF Payload
  <2>4. DedupKey(kind, c) = DedupKey(kind, r)
    BY <1>1, <2>2, <2>3, ContentKey
  <2> QED
    BY <2>1, <2>4
<1>8. \A r \in D : r \in Agreed
        <=> \A s \in D : DedupKey(kind, s) = DedupKey(kind, r) => Payload(s) = Payload(r)
  <2> SUFFICES ASSUME NEW r \in D
               PROVE  Agree(Alike(kind, B, r))
                        <=> \A s \in D : DedupKey(kind, s) = DedupKey(kind, r) => Payload(s) = Payload(r)
    OBVIOUS
  <2>1. PICK S : S = Alike(kind, B, r)
    OBVIOUS
  <2>2. S = {s \in D : DedupKey(kind, s) = DedupKey(kind, r)}
    BY <1>3, <2>1
  <2>3. IsFiniteSet(S) /\ r \in S
    <3>1. S \subseteq D
      BY <2>2
    <3> QED
      BY <1>1, <2>2, <3>1, FS_Subset
  <2>4. Agree(S) <=> \A s \in S : Payload(s) = Payload(r)
    <3>1. Agree(S) => \A s \in S : Payload(s) = Payload(r)
      BY <2>3, AgreeIs
    <3>2. ASSUME \A s \in S : Payload(s) = Payload(r) PROVE Agree(S)
      <4>1. {Payload(s) : s \in S} = {Payload(r)}
        BY <2>3, <3>2
      <4>2. Cardinality({Payload(r)}) = 1
        BY FS_Singleton
      <4> QED
        BY <4>1, <4>2 DEF Agree
    <3> QED
      BY <3>1, <3>2
  <2> QED
    BY <2>1, <2>2, <2>4
<1>9. \A r \in Agreed : r \in D /\ Payload(Of(r)) = Payload(r)
  <2> HIDE DEF Of
  <2> QED
    BY <1>5, <1>8
<1>10. \A r, t \in Agreed : Payload(Of(r)) = Payload(Of(t)) => Of(r) = Of(t)
  <2> SUFFICES ASSUME NEW r \in Agreed, NEW t \in Agreed, Payload(Of(r)) = Payload(Of(t))
               PROVE  Of(r) = Of(t)
    OBVIOUS
  <2>1. DedupKey(kind, r) = DedupKey(kind, t)
    <3> HIDE DEF Of
    <3> QED
      BY <1>6, <1>9
  <2>2. Alike(kind, B, r) = Alike(kind, B, t)
    BY <1>3, <2>1
  <2> QED
    BY <2>2
<1> HIDE DEF Of, Agreed
<1>11. Contents(Canonical(kind, B)) = {Payload(r) : r \in Agreed}
  BY <1>4, <1>9 DEF Contents
<1>12. \A r \in D : r \in Agreed <=> Payload(r) \in Settled(kind, Contents(D))
  <2> SUFFICES ASSUME NEW r \in D
               PROVE  r \in Agreed <=> Payload(r) \in Settled(kind, Contents(D))
    OBVIOUS
  <2>1. Payload(r) \in Settled(kind, Contents(D))
          <=> \A s \in D : DedupKey(kind, Payload(s)) = DedupKey(kind, Payload(r)) => Payload(s) = Payload(r)
    BY DEF Settled, Contents
  <2> QED
    BY <1>7, <1>8, <2>1
<1>13. Settled(kind, Contents(D)) = {Payload(r) : r \in Agreed}
  <2>1. Settled(kind, Contents(D)) \subseteq Contents(D)
    BY DEF Settled
  <2> QED
    BY <1>9, <1>12, <2>1 DEF Contents
<1> QED
  BY <1>4, <1>5, <1>9, <1>10, <1>11, <1>13 DEF Distinct

(* One report of each content: fewer reports, the same contents.           *)
LEMMA OnceContents ==
  ASSUME NEW kind, NEW B, KeyedBag(kind, B), Disputed(B) = {}
  PROVE  /\ KeyedBag(kind, Once(B)) /\ Disputed(Once(B)) = {}
         /\ DOMAIN Once(B) \subseteq DOMAIN B /\ Contents(DOMAIN Once(B)) = Contents(DOMAIN B)
<1> DEFINE D == DOMAIN B
           One1(c) == CHOOSE r \in D : Payload(r) = c
           S == {One1(c) : c \in Contents(D)}
<1>1. Once(B) = SetToBag(S)
  BY DEF Once, BagToSet, Contents
<1>2. \A c \in Contents(D) : One1(c) \in D /\ Payload(One1(c)) = c
  BY DEF Contents
<1> HIDE DEF One1
<1>3. S \subseteq D
  BY <1>2
<1>4. IsFiniteSet(S)
  BY <1>3, FS_Subset DEF KeyedBag, BagShape
<1>5. Contents(S) = Contents(D)
  <2>1. \A r \in S : Payload(r) \in Contents(D)
    BY <1>3 DEF Contents
  <2>2. \A c \in Contents(D) : One1(c) \in S /\ Payload(One1(c)) = c
    BY <1>2
  <2> QED
    BY <2>1, <2>2 DEF Contents
<1> HIDE DEF S
<1>6. BagShape(Once(B)) /\ DOMAIN Once(B) = S
  BY <1>1, <1>4, SetBag
<1>7. Disputed(Once(B)) = {}
  BY <1>3, <1>6 DEF Disputed, BagToSet
<1> QED
  BY <1>3, <1>5, <1>6, <1>7 DEF KeyedBag

(* Two requests that differ only in how often they deliver what.           *)
SameAsked(q, p) == AlikeAsked(q, p) /\ p.observed.snapshot = q.observed.snapshot

(* The checks that no report takes part in.                                *)
LEMMA AccountChecksAlike ==
  ASSUME NEW q, NEW p, SameAsked(q, p)
  PROVE  /\ CashCheck(p) = CashCheck(q)
         /\ PositionChecks(p) = PositionChecks(q)
         /\ RequiredChecks(p) = RequiredChecks(q)
<1>1. /\ p.draft = q.draft /\ p.receipt = q.receipt /\ p.policy = q.policy
      /\ p.observed.snapshot = q.observed.snapshot
  BY DEF SameAsked, AlikeAsked
<1>2. CashCheck(p) = CashCheck(q)
  <2> DEFINE F(rc, s, rules) ==
        LET expected == rc.after.cash  observed == s.cash
            CodeFor == [total |-> "CASH_TOTAL_MISMATCH", available |-> "CASH_AVAILABLE_MISMATCH",
                        frozen |-> "CASH_FROZEN_MISMATCH"] IN
        UNION {Difference("CASH", CodeFor[bucket], <<bucket>>, observed[bucket] - expected[bucket],
                          rules.cash) : bucket \in DOMAIN CodeFor}
  <2>1. \A x : CashFindings(x) = F(x.receipt, x.observed.snapshot, x.policy)
    BY DEF CashFindings
  <2> HIDE DEF F
  <2>2. CashFindings(p) = F(p.receipt, p.observed.snapshot, p.policy)
    BY <2>1
  <2>3. CashFindings(q) = F(q.receipt, q.observed.snapshot, q.policy)
    BY <2>1
  <2>4. CashFindings(p) = CashFindings(q)
    BY <1>1, <2>2, <2>3
  <2> QED
    BY <1>1, <2>4 DEF CashCheck
<1>3. \A i, a, b : PositionFindings(p, i, a, b) = PositionFindings(q, i, a, b)
  BY <1>1 DEF PositionFindings
<1>4. \A i : PositionCheck(p, i) = PositionCheck(q, i)
  BY <1>1, <1>3 DEF PositionCheck
<1>5. PositionChecks(p) = PositionChecks(q)
  BY <1>1, <1>4 DEF PositionChecks
<1>6. RequiredChecks(p) = RequiredChecks(q)
  <2> DEFINE R(d, rc, s) ==
        {<<"order", o.id>> : o \in rc.orders}
          \cup {<<"draft-line", l>> : l \in {l.id : l \in d.lines} \ {o.line : o \in rc.orders}}
          \cup {<<"fill", o.id>> : o \in rc.orders}
          \cup {<<"cash", rc.after.account>>}
          \cup {<<"position", i>> : i \in DOMAIN rc.after.positions \cup DOMAIN s.positions}
  <2>1. \A x : RequiredChecks(x) = R(x.draft, x.receipt, x.observed.snapshot)
    BY DEF RequiredChecks
  <2> HIDE DEF R
  <2>2. RequiredChecks(p) = R(p.draft, p.receipt, p.observed.snapshot)
    BY <2>1
  <2>3. RequiredChecks(q) = R(q.draft, q.receipt, q.observed.snapshot)
    BY <2>1
  <2> QED
    BY <1>1, <2>2, <2>3
<1> QED
  BY <1>2, <1>5, <1>6

(* What the checks of a result are.                                        *)
ChecksMade(q, C, F) == OrderChecks(q, C) \cup FillChecks(q, C, F) \cup {CashCheck(q)} \cup PositionChecks(q)

(* The checks of a result are all that were made.                          *)
LEMMA ResultChecks ==
  ASSUME NEW q, NEW C, C = Canonical("ORDER", q.observed.orders),
         NEW F, F = Canonical("FILL", q.observed.fills), NEW K, K = ChecksMade(q, C, F)
  PROVE  Result(q).checks = K
<1> DEFINE inputs == InputFindings(q) \cup LinkFindings(C, F)
           groups == DuplicateGroups("ORDER", q.observed.orders) \cup DuplicateGroups("FILL", q.observed.fills)
<1>1. Result(q) = Assembled(q, inputs, groups, ChecksMade(q, C, F))
  BY DEF Result, ChecksMade
<1> HIDE DEF inputs, groups
<1>2. RequiredChecks(q) \subseteq {c.id : c \in K}
        => Assembled(q, inputs, groups, K).checks = K
  BY DEF Assembled
<1>3. ChecksOf(q) = K
  BY DEF ChecksOf, ChecksMade
<1> QED
  BY <1>1, <1>2, <1>3, RequiredAreChecked

(* All checks of reports are those of their contents.                      *)
LEMMA ChecksAlike ==
  ASSUME NEW q, NEW p, SameAsked(q, p), NEW C, IsFiniteSet(C), \A r \in C : OrderShape(r),
         NEW F, FillsApart(F)
  PROVE  ChecksMade(p, Contents(C), Contents(F)) = ChecksMade(q, C, F)
<1>1. AlikeAsked(q, p)
  BY DEF SameAsked
<1>2. OrderChecks(p, Contents(C)) = OrderChecks(q, C)
  BY <1>1, OrderChecksAlike
<1>3. FillChecks(p, Contents(C), Contents(F)) = FillChecks(q, C, F)
  BY <1>1, FillChecksAlike
<1>4. CashCheck(p) = CashCheck(q) /\ PositionChecks(p) = PositionChecks(q)
  BY AccountChecksAlike
<1> QED
  BY <1>2, <1>3, <1>4 DEF ChecksMade

(* The evidence of the simulation has the parts its keys are made of.      *)
LEMMA KeyedEvidence ==
  ASSUME NEW e, EvidenceShape(e)
  PROVE  KeyedBag("ORDER", e.orders) /\ KeyedBag("FILL", e.fills)
<1>1. \A r \in DOMAIN e.orders : KeyParts("ORDER") \subseteq DOMAIN r
  BY DEF EvidenceShape, OrderShape, KeyParts
<1>2. \A r \in DOMAIN e.fills : KeyParts("FILL") \subseteq DOMAIN r
  BY DEF EvidenceShape, FillShape, KeyParts
<1> QED
  BY <1>1, <1>2 DEF KeyedBag, EvidenceShape

(* What counts of a bag of reports has their shape.                        *)
LEMMA CountingReports ==
  ASSUME NEW e, EvidenceShape(e), Disputed(e.orders) = {}, Disputed(e.fills) = {}
  PROVE  LET C == Canonical("ORDER", e.orders)
             F == Canonical("FILL", e.fills) IN
         /\ IsFiniteSet(C) /\ \A r \in C : OrderShape(r)
         /\ FillsApart(F)
<1>1. KeyedBag("ORDER", e.orders) /\ KeyedBag("FILL", e.fills)
  BY KeyedEvidence
<1>2. PICK C : C = Canonical("ORDER", e.orders)
  OBVIOUS
<1>3. PICK F : F = Canonical("FILL", e.fills)
  OBVIOUS
<1>4. C \subseteq DOMAIN e.orders
  BY <1>1, <1>2, CanonicalContents
<1>5. F \subseteq DOMAIN e.fills /\ Distinct(F)
  BY <1>1, <1>3, CanonicalContents
<1>6. IsFiniteSet(C) /\ \A r \in C : OrderShape(r)
  BY <1>4, FS_Subset DEF EvidenceShape, BagShape
<1>7. FillsApart(F)
  BY <1>5, FS_Subset DEF EvidenceShape, BagShape, FillsApart
<1> QED
  BY <1>2, <1>3, <1>6, <1>7

(* The evidence delivered once is well formed.                             *)
LEMMA OnceShape ==
  ASSUME NEW e, EvidenceShape(e), Disputed(e.orders) = {}, Disputed(e.fills) = {},
         NEW d, d = [e EXCEPT !.orders = Once(@), !.fills = Once(@)]
  PROVE  /\ EvidenceShape(d) /\ d.snapshot = e.snapshot
         /\ d.orders = Once(e.orders) /\ d.fills = Once(e.fills)
<1>1. KeyedBag("ORDER", e.orders) /\ KeyedBag("FILL", e.fills)
  BY KeyedEvidence
<1>2. /\ KeyedBag("ORDER", Once(e.orders)) /\ DOMAIN Once(e.orders) \subseteq DOMAIN e.orders
      /\ KeyedBag("FILL", Once(e.fills)) /\ DOMAIN Once(e.fills) \subseteq DOMAIN e.fills
  BY <1>1, OnceContents
<1>3. BagShape(Once(e.orders)) /\ BagShape(Once(e.fills))
  BY <1>2 DEF KeyedBag
<1>4. /\ DOMAIN d = DOMAIN e /\ d.snapshot = e.snapshot
      /\ d.orders = Once(e.orders) /\ d.fills = Once(e.fills)
  BY DEF EvidenceShape
<1> QED
  BY <1>2, <1>3, <1>4 DEF EvidenceShape

(* Delivered once or again and again, the evidence is checked alike.       *)
LEMMA OnceChecks ==
  ASSUME NEW q, EvidenceShape(q.observed), NEW p, EvidenceShape(p.observed), SameAsked(q, p),
         Disputed(q.observed.orders) = {}, Disputed(q.observed.fills) = {},
         p.observed.orders = Once(q.observed.orders), p.observed.fills = Once(q.observed.fills)
  PROVE  Result(p).checks = Result(q).checks
<1> DEFINE C(x) == Canonical("ORDER", x.observed.orders)
           F(x) == Canonical("FILL", x.observed.fills)
<1>1. KeyedBag("ORDER", q.observed.orders) /\ KeyedBag("FILL", q.observed.fills)
  BY KeyedEvidence
<1>2. Disputed(p.observed.orders) = {} /\ Disputed(p.observed.fills) = {}
  BY <1>1, OnceContents
<1>3. Contents(C(p)) = Contents(C(q)) /\ Contents(F(p)) = Contents(F(q))
  <2>1. KeyedBag("ORDER", p.observed.orders) /\ KeyedBag("FILL", p.observed.fills)
    BY KeyedEvidence
  <2>2. /\ Contents(C(p)) = Settled("ORDER", Contents(DOMAIN p.observed.orders))
        /\ Contents(F(p)) = Settled("FILL", Contents(DOMAIN p.observed.fills))
    BY <1>2, <2>1, CanonicalContents
  <2>3. /\ Contents(C(q)) = Settled("ORDER", Contents(DOMAIN q.observed.orders))
        /\ Contents(F(q)) = Settled("FILL", Contents(DOMAIN q.observed.fills))
    BY <1>1, CanonicalContents
  <2>4. /\ Contents(DOMAIN p.observed.orders) = Contents(DOMAIN q.observed.orders)
        /\ Contents(DOMAIN p.observed.fills) = Contents(DOMAIN q.observed.fills)
    BY <1>1, OnceContents
  <2> HIDE DEF C, F
  <2> QED
    BY <2>2, <2>3, <2>4
<1>4. IsFiniteSet(C(q)) /\ (\A r \in C(q) : OrderShape(r)) /\ FillsApart(F(q))
  BY CountingReports
<1>5. IsFiniteSet(C(p)) /\ (\A r \in C(p) : OrderShape(r)) /\ FillsApart(F(p))
  BY <1>2, CountingReports
<1>6. SameAsked(q, q) /\ SameAsked(p, q) /\ AlikeAsked(q, q) /\ AlikeAsked(p, q)
  BY DEF SameAsked, AlikeAsked
<1>7. PICK c, d, f, g : c = C(q) /\ d = C(p) /\ f = F(q) /\ g = F(p)
  OBVIOUS
<1>8. /\ c = Canonical("ORDER", q.observed.orders) /\ f = Canonical("FILL", q.observed.fills)
      /\ d = Canonical("ORDER", p.observed.orders) /\ g = Canonical("FILL", p.observed.fills)
  BY <1>7
<1> HIDE DEF C, F
<1>9. Contents(d) = Contents(c) /\ Contents(g) = Contents(f)
  BY <1>3, <1>7
<1>10. PICK K : K = ChecksMade(q, c, f)
  OBVIOUS
<1>11. K = ChecksMade(p, d, g)
  <2>1. ChecksMade(q, Contents(c), Contents(f)) = ChecksMade(q, c, f)
    BY <1>4, <1>6, <1>7, ChecksAlike
  <2>2. ChecksMade(q, Contents(d), Contents(g)) = ChecksMade(p, d, g)
    BY <1>5, <1>6, <1>7, ChecksAlike
  <2> QED
    BY <1>9, <1>10, <2>1, <2>2
<1>12. Result(q).checks = K
  BY <1>8, <1>10, ResultChecks
<1>13. Result(p).checks = K
  BY <1>8, <1>11, ResultChecks
<1> QED
  BY <1>12, <1>13

(* Delivering again adds nothing: the checks of any evidence without a     *)
(* disputed report id are those of the same contents delivered once each,  *)
(* for every execution whose receipt holds and every policy (engine.py:    *)
(* duplicates, latest reports and comparisons look at contents only).      *)
THEOREM RepeatsNeverChangeChecks == ObservedSpec => RepeatsChangeNoCheck
<1>1. ObservedInv /\ [ObservedNext]_observedVars
        => [Answers /\ RequestOnce # Request /\ (\A kind \in Kinds : Disputed(evidence[kind]) = {}) =>
              result'.checks = Result(RequestOnce).checks]_observedVars
  <2> SUFFICES ASSUME ObservedInv, [ObservedNext]_observedVars, Answers,
                      \A kind \in Kinds : Disputed(evidence[kind]) = {}
               PROVE  result'.checks = Result(RequestOnce).checks
    OBVIOUS
  <2>1. result' = Result(Request)
    BY AnsweredByTheEngine
  <2>2. EvidenceShape(evidence) /\ Disputed(evidence.orders) = {} /\ Disputed(evidence.fills) = {}
    BY DEF ObservedInv, Kinds
  <2>3. PICK d : d = [evidence EXCEPT !.orders = Once(@), !.fills = Once(@)]
    OBVIOUS
  <2>4. /\ EvidenceShape(d) /\ d.snapshot = evidence.snapshot
        /\ d.orders = Once(evidence.orders) /\ d.fills = Once(evidence.fills)
    BY <2>2, <2>3, OnceShape
  <2>5. /\ RequestOnce.draft = Request.draft /\ RequestOnce.receipt = Request.receipt
        /\ RequestOnce.policy = Request.policy /\ RequestOnce.observed = d
        /\ Request.observed = evidence
    BY <2>3 DEF RequestOnce, Request
  <2>6. SameAsked(Request, RequestOnce)
    BY <2>4, <2>5 DEF SameAsked, AlikeAsked
  <2>7. Result(RequestOnce).checks = Result(Request).checks
    BY <2>2, <2>4, <2>5, <2>6, OnceChecks
  <2> QED
    BY <2>1, <2>7
<1> QED
  BY <1>1, EvidenceStaysShaped, PTL DEF ObservedSpec, RepeatsChangeNoCheck
=============================================================================
