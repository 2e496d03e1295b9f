----------------------------- MODULE PaperOrders -----------------------------
(***************************************************************************)
(* The vocabulary the order path shares: accounts, delivery keys, order    *)
(* draft batches, and the execution request that carries a batch to one    *)
(* exact version of an account (PaperExecutionRequest).  A request hash    *)
(* identifies its whole content, so a request is its content here.         *)
(***************************************************************************)
EXTENDS Integers

CONSTANTS
  Accounts,    \* account identifiers
  Global,      \* the identity of the kill switch that covers all accounts
  OrderKeys,   \* idempotency keys of new orders
  Batches,     \* order draft batches (batch_hash)
  MaxVersion,  \* bound of the number of states an account goes through
  MaxTime,     \* bound of the clock
  None

ASSUME PaperOrdersAssumption ==
  /\ Global \notin Accounts
  /\ MaxVersion \in Nat
  /\ MaxTime \in Nat
  /\ None \notin Nat

Scopes == Accounts \cup {Global}
Time == 0..MaxTime
Versions == 0..MaxVersion

(* expects is expected_account_state_hash: states of an account form one   *)
(* chain through previous_state_hash, so a hash is a position in it.       *)
Order == [account : Accounts, key : OrderKeys, batch : Batches, expects : Versions]

(* An account's state, down to its place in the chain and the batches it   *)
(* has consumed, and the receipt of a batch executed for an order.         *)
Account == [version : Versions, batches : SUBSET Batches]
Receipt == [order : Order, version : Versions]

ASSUME PaperStatesAssumption == None \notin Account \cup Receipt
=============================================================================
