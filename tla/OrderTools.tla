------------------------------- MODULE OrderTools -------------------------------
(***************************************************************************)
(* The agent's create_order_draft and submit_paper_orders tools, for one   *)
(* account.  Both are retried and delivered twice, at other times and by   *)
(* several threads at once, and each promises one result per delivery key: *)
(* the draft tool by a store whose first write wins, the submission tool   *)
(* by looking for a receipt before it asks the paper service and once more *)
(* when the service reports a conflict.                                    *)
(*                                                                         *)
(* A draft is named by its content: the decision it carries out and the    *)
(* time it was made for.  The call into the paper service is one step, as  *)
(* OrderAdmission shows it to behave (GuardedOrders); its gate is left     *)
(* out: whatever it refuses, and whichever keys it binds, the call fails.  *)
(***************************************************************************)
EXTENDS Integers, FiniteSets

CONSTANTS
  Threads,
  Keys,          \* idempotency keys, chosen by the agent for either tool
  Decisions,     \* decision ids
  LastTime,      \* bound of the clock
  LastVersion,   \* bound of the number of states of the account
  MaxDrafts,     \* bound of the number of keys drafts are made under
  NoSnapshot     \* a decision that is not stored

ASSUME OrderToolsAssumption ==
  /\ LastTime \in Nat /\ LastVersion \in Nat /\ MaxDrafts \in Nat
  /\ NoSnapshot \notin Nat

VARIABLES
  now,       \* requested_at of a call that arrives
  account,   \* the paper account: its version and the snapshot it descends from
  decidedOn, \* decision -> the account snapshot it was taken on, or NoSnapshot
  drafts,    \* the artifacts stored, as [decision, key, draft]
  receipts,  \* the receipts committed, as the requests they answer
  calls,     \* what each thread is doing
  told       \* what callers have been answered

toolVars == <<now, account, decidedOn, drafts, receipts, calls, told>>

Draft == [decision : Decisions, at : 0..LastTime]

ToolsInit ==
  /\ now = 0
  /\ account = [version |-> 0, snapshot |-> 0]
  /\ decidedOn = [d \in Decisions |-> NoSnapshot]
  /\ drafts = {}
  /\ receipts = {}
  /\ calls = [t \in Threads |-> [pc |-> "idle"]]
  /\ told = {}

At(t, pc) == calls[t].pc = pc
Goto(t, pc) == calls' = [calls EXCEPT ![t].pc = pc]
ToolsIdle == UNCHANGED <<now, account, decidedOn, drafts, receipts, told>>

Answer(t, result) ==
  /\ calls' = [calls EXCEPT ![t] = [pc |-> "idle"]]
  /\ told' = told \cup {[tool |-> calls[t].tool, decision |-> calls[t].decision,
                         key |-> calls[t].key, result |-> result]}
  /\ UNCHANGED <<now, account, decidedOn, drafts, receipts>>

(* The call is kept until it is acknowledged, so that its end can be seen. *)
Fail(t) == Goto(t, "failed") /\ ToolsIdle

-----------------------------------------------------------------------------
(* Decision snapshots: the first one stored under an id stays, another one *)
(* is refused, and a tool call of a decision that is not stored fails.     *)

Accepts(decision, snapshot) == decidedOn[decision] \in {NoSnapshot, snapshot}

Decide(decision, snapshot) ==
  /\ Accepts(decision, snapshot)
  /\ decidedOn' = [decidedOn EXCEPT ![decision] = snapshot]
  /\ UNCHANGED <<now, account, drafts, receipts, calls, told>>

Decided(decision) == decidedOn[decision] # NoSnapshot

-----------------------------------------------------------------------------
(* create_order_draft                                                      *)
Create(t, decision, key) ==
  /\ At(t, "idle")
  /\ Decided(decision)
  /\ \/ Cardinality(drafts) < MaxDrafts
     \/ \E a \in drafts : a.decision = decision /\ a.key = key
  /\ calls' = [calls EXCEPT ![t] = [pc |-> "find", tool |-> "create", decision |-> decision,
                                    key |-> key, at |-> now]]
  /\ ToolsIdle

Stored(t) == {a \in drafts : a.decision = calls[t].decision /\ a.key = calls[t].key}

FindDraft(t) ==
  /\ At(t, "find")
  /\ IF Stored(t) = {} THEN Goto(t, "put") /\ ToolsIdle
     ELSE \E a \in Stored(t) : Answer(t, a.draft)

(* Everything the draft is derived from is frozen with the decision but    *)
(* the time of the delivery, so another delivery makes another draft.      *)
Derived(t) == [decision |-> calls[t].decision, at |-> calls[t].at]

(* Risk rejected the target, or an input is missing or does not fit.       *)
DraftRefused(t) == At(t, "put") /\ Fail(t)

(* put keeps the first artifact of a key, and refuses another draft.       *)
PutDraft(t) ==
  /\ At(t, "put")
  /\ Stored(t) = {}
  /\ drafts' = drafts \cup {[decision |-> calls[t].decision, key |-> calls[t].key,
                             draft |-> Derived(t)]}
  /\ Goto(t, "stored")
  /\ UNCHANGED <<now, account, decidedOn, receipts, told>>

PutReplays(t) ==
  /\ At(t, "put")
  /\ \E a \in Stored(t) : a.draft = Derived(t)
  /\ Goto(t, "stored") /\ ToolsIdle

PutConflicts(t) ==
  /\ At(t, "put")
  /\ \E a \in Stored(t) : a.draft # Derived(t)
  /\ Goto(t, "raced") /\ ToolsIdle

AnswerStored(t) == At(t, "stored") /\ Answer(t, Derived(t))

(* Mutant: a delivery that lost the race answers the draft it derived.     *)
AnswerRacedMutant(t) == At(t, "raced") /\ Answer(t, Derived(t))

(* The first write defines the key's result: it is looked up again.        *)
AnswerRaced(t) ==
  /\ At(t, "raced")
  /\ \E a \in Stored(t) : Answer(t, a.draft)

-----------------------------------------------------------------------------
(* submit_paper_orders                                                     *)
ReceiptsOf(key, draft) == {r \in receipts : r.key = key /\ r.batch = draft}
HasReceipt(key, draft) == ReceiptsOf(key, draft) # {}

(* known: some caller has already been answered this very order.           *)
Submit(t, decision, key, draft) ==
  /\ At(t, "idle")
  /\ Decided(decision)
  /\ calls' = [calls EXCEPT ![t] =
       [pc |-> "fetch", tool |-> "submit", decision |-> decision, key |-> key, at |-> now,
        batch |-> draft, expects |-> 0,
        known |-> [tool |-> "submit", decision |-> decision, key |-> key,
                   result |-> draft] \in told]]
  /\ ToolsIdle

(* get by batch hash, and _validate_artifact.                              *)
FetchDraft(t) ==
  /\ At(t, "fetch")
  /\ IF /\ \E a \in drafts : a.draft = calls[t].batch
        /\ calls[t].batch.decision = calls[t].decision
       THEN Goto(t, "by_key") /\ ToolsIdle
       ELSE Fail(t)

(* _validate_receipt_binding: key, batch, account boundary and decision.   *)
Bound(t, receipt) ==
  /\ receipt.key = calls[t].key
  /\ receipt.batch = calls[t].batch
  /\ receipt.snapshot = decidedOn[calls[t].decision]

AnswerReceipt(t, receipt) ==
  IF Bound(t, receipt) THEN Answer(t, receipt.batch) ELSE Fail(t)

(* Mutant: the account is looked at before a committed receipt.            *)
ByKeyMutant(t) ==
  /\ At(t, "by_key")
  /\ Goto(t, "account") /\ ToolsIdle

ByKey(t) ==
  /\ At(t, "by_key")
  /\ LET found == {r \in receipts : r.key = calls[t].key}
     IN  IF found = {} THEN Goto(t, "by_batch") /\ ToolsIdle
         ELSE \E r \in found : AnswerReceipt(t, r)

ByBatch(t) ==
  /\ At(t, "by_batch")
  /\ LET found == {r \in receipts : r.batch = calls[t].batch}
     IN  IF found = {} THEN Goto(t, "account") /\ ToolsIdle
         ELSE \E r \in found : AnswerReceipt(t, r)

(* The account must still descend from the decision's snapshot; its state  *)
(* becomes the one the request expects.                                    *)
ReadAccount(t) ==
  /\ At(t, "account")
  /\ IF account.snapshot = decidedOn[calls[t].decision]
       THEN calls' = [calls EXCEPT ![t].pc = "service", ![t].expects = account.version]
       ELSE Goto(t, "failed")
  /\ ToolsIdle

RequestOf(t) ==
  [key |-> calls[t].key, batch |-> calls[t].batch, at |-> calls[t].at,
   expects |-> calls[t].expects]

Answers(receipt, request) == receipt.request = request

Rivals(request) ==
  {r \in receipts : (r.key = request.key \/ r.batch = request.batch) /\ ~Answers(r, request)}

Unanswered(request) == \A r \in receipts : r.key # request.key /\ r.batch # request.batch

ServiceReplays(t) ==
  /\ At(t, "service")
  /\ \E r \in receipts : Answers(r, RequestOf(t)) /\ AnswerReceipt(t, r)

ServiceConflicts(t) ==
  /\ At(t, "service")
  /\ Rivals(RequestOf(t)) # {}
  /\ Goto(t, "conflict") /\ ToolsIdle

(* The gate stops the order, or the engine or the repository refuses it.   *)
ServiceFails(t) ==
  /\ At(t, "service")
  /\ Unanswered(RequestOf(t))
  /\ Fail(t)

ServiceExecutes(t) ==
  /\ At(t, "service")
  /\ Unanswered(RequestOf(t))
  /\ account.version = calls[t].expects /\ account.version < LastVersion
  /\ account.snapshot = decidedOn[calls[t].batch.decision]
  /\ account' = [account EXCEPT !.version = @ + 1]
  /\ receipts' = receipts \cup {[key |-> calls[t].key, batch |-> calls[t].batch,
                                 request |-> RequestOf(t), snapshot |-> account.snapshot]}
  /\ Goto(t, "executed")
  /\ UNCHANGED <<now, decidedOn, drafts, told>>

AnswerExecuted(t) ==
  /\ At(t, "executed")
  /\ \E r \in receipts : Answers(r, RequestOf(t)) /\ AnswerReceipt(t, r)

(* Mutant: the receipt found after a conflict is answered as it is.        *)
RecoverReceiptMutant(t) ==
  /\ At(t, "conflict")
  /\ LET found == {r \in receipts : r.key = calls[t].key}
     IN  IF found = {} THEN Fail(t) ELSE Answer(t, calls[t].batch)

(* A competing delivery won: only the receipt of this key and this batch   *)
(* is an answer.                                                           *)
RecoverReceipt(t) ==
  /\ At(t, "conflict")
  /\ LET found == {r \in receipts : r.key = calls[t].key}
     IN  IF found = {} THEN Fail(t) ELSE \E r \in found : AnswerReceipt(t, r)

-----------------------------------------------------------------------------
(* The caller learns of the failure; or its thread dies, and nothing of    *)
(* the call remains but what it stored.                                    *)
Drop(t) ==
  /\ ~At(t, "idle")
  /\ calls' = [calls EXCEPT ![t] = [pc |-> "idle"]]
  /\ ToolsIdle

TimePasses ==
  /\ now < LastTime
  /\ now' = now + 1
  /\ UNCHANGED <<account, decidedOn, drafts, receipts, calls, told>>

RefreshAccount ==
  /\ account.version < LastVersion
  /\ account' = [version |-> account.version + 1, snapshot |-> account.snapshot + 1]
  /\ UNCHANGED <<now, decidedOn, drafts, receipts, calls, told>>

CreateStep(t) ==
  \/ FindDraft(t) \/ DraftRefused(t) \/ PutDraft(t) \/ PutReplays(t) \/ PutConflicts(t)
  \/ AnswerStored(t) \/ AnswerRaced(t)

SubmitStep(t) ==
  \/ FetchDraft(t) \/ ByKey(t) \/ ByBatch(t) \/ ReadAccount(t)
  \/ ServiceReplays(t) \/ ServiceConflicts(t) \/ ServiceFails(t)
  \/ ServiceExecutes(t) \/ AnswerExecuted(t) \/ RecoverReceipt(t)

ToolsNext ==
  \/ TimePasses \/ RefreshAccount
  \/ \E d \in Decisions, s \in 0..account.snapshot : Decide(d, s)
  \/ \E t \in Threads :
       \/ \E d \in Decisions, k \in Keys : Create(t, d, k)
       \/ \E d \in Decisions, k \in Keys, a \in drafts : Submit(t, d, k, a.draft)
       \/ CreateStep(t) \/ SubmitStep(t) \/ Drop(t)

ToolsSpec == ToolsInit /\ [][ToolsNext]_toolVars

-----------------------------------------------------------------------------
(* Whatever was delivered when, and whichever delivery stored first, all   *)
(* callers that create a draft of one decision under one key are answered  *)
(* the same draft, and can submit it by its hash.                          *)
OneDraftPerKey ==
  \A a \in told : a.tool = "create" =>
    /\ \E s \in drafts : s.draft = a.result
    /\ \A b \in told : b.tool = "create" /\ b.decision = a.decision /\ b.key = a.key =>
         b.result = a.result

(* A caller told that a batch was executed under a key is right: that      *)
(* batch was executed, under that key and no other, on the snapshot its    *)
(* decision was taken on, also when its own request lost the race.         *)
ReceiptsAreTrue ==
  \A a \in told : a.tool = "submit" =>
    /\ HasReceipt(a.key, a.result)
    /\ \A r \in receipts :
         /\ r.batch = a.result \/ r.key = a.key => r.batch = a.result /\ r.key = a.key
         /\ r.batch = a.result => r.snapshot = decidedOn[a.decision]

(* An order once answered is answered again, at any later time: refreshes, *)
(* switches and expiry refuse no retry of an order that was executed.      *)
RetriesKeepTheReceipt ==
  \A t \in Threads : At(t, "failed") /\ calls[t].tool = "submit" => ~calls[t].known
=============================================================================
