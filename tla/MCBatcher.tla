------------------------------ MODULE MCBatcher ------------------------------
(* Small instances of Batcher: the second request is twice as large.       *)
EXTENDS Batcher
CONSTANTS r1, r2, r3

MCRequests == {r1, r2, r3}
MCSize == [r \in Requests |-> IF r = r2 THEN 2 ELSE 1]
Situation(callers, size, faults, eval) ==
  [callers |-> callers, max_size |-> size, faults |-> faults, in_eval |-> eval]
MCSituations ==
  {Situation(Requests, 2, {"check", "handle"}, TRUE),
   Situation({r1, r2}, 2, {"unknown", "create"}, FALSE),
   Situation({r2, r3}, 1, {"create"}, FALSE),
   Situation({r1, r3}, 1, {"unknown"}, FALSE),
   Situation({r1, r3}, 2, {"missing"}, FALSE),
   Situation({r1, r2}, 2, {"check", "handle", "reject", "create", "cancel"}, TRUE)}
=============================================================================
