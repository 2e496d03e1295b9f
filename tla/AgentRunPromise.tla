--------------------------- MODULE AgentRunPromise ---------------------------
(***************************************************************************)
(* What an agent run promises of its orders, whatever model, people, host  *)
(* and clock do: they are sent at most once, only under a claim the run    *)
(* recorded first, and the verdict a run ends with never denies orders     *)
(* that were sent or may still be.                                         *)
(***************************************************************************)
EXTENDS Naturals

VARIABLES
  claimed,  \* a submission is on its way and has not come back
  sent,     \* how often orders were sent
  verdict   \* what the run says of them

promiseVars == <<claimed, sent, verdict>>

Init == claimed = FALSE /\ sent = 0 /\ verdict = "open"

Claim ==
  /\ verdict = "open" /\ ~claimed /\ sent = 0
  /\ claimed' = TRUE
  /\ UNCHANGED <<sent, verdict>>

(* The submission comes back without having sent anything. *)
Withdraw ==
  /\ claimed
  /\ claimed' = FALSE
  /\ UNCHANGED <<sent, verdict>>

(* Orders may go out after the run gave up waiting for them. *)
Send ==
  /\ claimed /\ sent = 0
  /\ sent' = 1 /\ claimed' = FALSE
  /\ UNCHANGED verdict

Close(v) ==
  /\ verdict = "open"
  /\ v = "nothing sent" => ~claimed /\ sent = 0
  /\ v = "confirmed" => sent = 1
  /\ verdict' = v
  /\ UNCHANGED <<claimed, sent>>

Next ==
  \/ Claim \/ Withdraw \/ Send
  \/ \E v \in {"nothing sent", "confirmed", "incident"} : Close(v)

Spec == Init /\ [][Next]_promiseVars
=============================================================================
