--------------------------- MODULE RequestPromises ---------------------------
(***************************************************************************)
(* What generate_for_request() of model/_providers/util/batch.py promises  *)
(* its callers, whatever batches their requests travel in: every request   *)
(* is answered at most once, with a response or with an error, nothing     *)
(* comes after the answer, and (under Fairness) the call ends.             *)
(***************************************************************************)
CONSTANT Requests

Answers == {"response", "error"}

VARIABLES
  call,   \* the caller: new | waiting | response | error | cancelled
  answer  \* what has been answered and not yet taken: none or an answer

vars == <<call, answer>>

Init ==
  /\ call = [r \in Requests |-> "new"]
  /\ answer = [r \in Requests |-> "none"]

Call(r) ==
  /\ call[r] = "new"
  /\ call' = [call EXCEPT ![r] = "waiting"]
  /\ UNCHANGED answer

(* Only a request that waits, or whose caller gave up, is answered. *)
Answer(r, a) ==
  /\ call[r] \in {"waiting", "cancelled"} /\ answer[r] = "none"
  /\ answer' = [answer EXCEPT ![r] = a]
  /\ UNCHANGED call

Return(r) ==
  /\ call[r] = "waiting" /\ answer[r] # "none"
  /\ call' = [call EXCEPT ![r] = answer[r]]
  /\ answer' = [answer EXCEPT ![r] = "none"]

GiveUp(R) ==
  /\ \A r \in R : call[r] = "waiting"
  /\ call' = [r \in Requests |-> IF r \in R THEN "cancelled" ELSE call[r]]
  /\ UNCHANGED answer

Next ==
  \/ \E r \in Requests : Call(r) \/ Return(r) \/ \E a \in Answers : Answer(r, a)
  \/ \E R \in SUBSET Requests : GiveUp(R)

Spec == Init /\ [][Next]_vars
=============================================================================
