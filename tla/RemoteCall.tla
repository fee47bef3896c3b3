------------------------------ MODULE RemoteCall ------------------------------
(***************************************************************************)
(* What a caller inside a sandbox may rely on when it calls a method of    *)
(* the process outside: it gets one answer, which is what the method came  *)
(* to, and the method runs once, plus at most once more for each command   *)
(* that failed in the sandbox on the way.                                  *)
(***************************************************************************)
EXTENDS Integers

CONSTANT Calls

VARIABLES
  call,     \* each call: new | sent | result | error
  runs,     \* how often its method has run
  outcomes, \* what may be answered
  failures  \* commands that failed on its behalf

vars == <<call, runs, outcomes, failures>>

Init ==
  /\ call = [c \in Calls |-> "new"]
  /\ runs = [c \in Calls |-> 0]
  /\ outcomes = [c \in Calls |-> {}]
  /\ failures = [c \in Calls |-> 0]

Send(c) ==
  /\ call[c] = "new"
  /\ call' = [call EXCEPT ![c] = "sent"]
  /\ UNCHANGED <<runs, outcomes, failures>>

(* The method runs and returns or raises, maybe after the call has ended. *)
Run(c, outcome) ==
  /\ call[c] # "new"
  /\ runs[c] <= failures[c]
  /\ runs' = [runs EXCEPT ![c] = @ + 1]
  /\ outcomes' = [outcomes EXCEPT ![c] = @ \cup {outcome}]
  /\ UNCHANGED <<call, failures>>

(* The service does not know the method. *)
Refuse(c) ==
  /\ call[c] # "new"
  /\ outcomes' = [outcomes EXCEPT ![c] = @ \cup {"error"}]
  /\ UNCHANGED <<call, runs, failures>>

(* A command fails; that too may be reported to the caller. *)
Fail(c) ==
  /\ call[c] # "new"
  /\ failures' = [failures EXCEPT ![c] = @ + 1]
  /\ outcomes' = [outcomes EXCEPT ![c] = @ \cup {"error"}]
  /\ UNCHANGED <<call, runs>>

Answer(c) ==
  /\ call[c] = "sent"
  /\ \E outcome \in outcomes[c] : call' = [call EXCEPT ![c] = outcome]
  /\ UNCHANGED <<runs, outcomes, failures>>

Next == \E c \in Calls : \/ Send(c) \/ Refuse(c) \/ Fail(c) \/ Answer(c)
                         \/ \E outcome \in {"result", "error"} : Run(c, outcome)

Spec == Init /\ [][Next]_vars
=============================================================================
