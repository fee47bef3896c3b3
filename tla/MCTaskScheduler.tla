--------------------------- MODULE MCTaskScheduler ---------------------------
(* Small instances of TaskScheduler: two models, one with more tasks than  *)
(* the other, so that the balance of models is at stake.                   *)
EXTENDS TaskScheduler
CONSTANTS m1, m2

MCModels == {m1, m2}
MCModelOf == [t \in 1..NumTasks |-> IF t = 2 THEN m2 ELSE m1]
MCModelOfEven == [t \in 1..NumTasks |-> IF t % 2 = 0 THEN m2 ELSE m1]
=============================================================================
