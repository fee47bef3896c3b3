------------------------ MODULE TaskScheduler_proofs ------------------------
(* Theorems about TaskScheduler, for any number of tasks, models and       *)
(* workers.                                                                *)
EXTENDS TaskScheduler, SequenceFacts, FiniteSetTheorems, TLAPS

(* Whoever runs or sends a task has one, and main sends only while some of *)
(* the initial tasks are still to be started.                              *)
TasksInHand ==
  /\ mpc = "sending" => mtask \in Tasks /\ starts > 0
  /\ \A w \in Workers : wpc[w] \in {"running", "sending"} => wtask[w] \in Tasks

TypeInv == TypeOK /\ TasksInHand

LEMMA NumWorkersNat == NumWorkers \in Nat
BY SchedulerAssumption DEF NumWorkers

LEMMA PickType ==
  ASSUME TypeOK, NEW t \in Tasks, NEW counts \in [Models -> Int], Pick(t, counts)
  PROVE  pending' \subseteq Tasks /\ model_counts' \in [Models -> Int]
BY SchedulerAssumption DEF TypeOK, Pick, PendingAfter

LEMMA CountsAfterType ==
  ASSUME TypeInv, NEW w \in Workers, wpc[w] = "running"
  PROVE  CountsAfter(w) \in [Models -> Int]
BY SchedulerAssumption DEF TypeInv, TypeOK, TasksInHand, CountsAfter

LEMMA TaskEndsType ==
  ASSUME TypeInv, NEW w \in Workers, NEW outcome, TaskEnds(w, outcome)
  PROVE  results' \in Seq(Tasks) /\ completed' \in Nat /\ wpc[w] = "running"
BY DEF TypeInv, TypeOK, TasksInHand, TaskEnds

LEMMA TypeInit == Init => TypeInv
<1> SUFFICES ASSUME Init PROVE TypeInv
  OBVIOUS
<1>1. channel \in Seq(Tasks) /\ results \in Seq(Tasks)
  BY DEF Init
<1>2. model_counts \in [Models -> Int]
  BY DEF Init
<1>3. /\ wpc \in [Workers -> {"idle", "running", "sending", "done"}]
      /\ wtask \in [Workers -> Tasks \cup {None}]
  BY DEF Init
<1>4. closed \in BOOLEAN /\ cancelled \in BOOLEAN
  BY DEF Init
<1>5. TypeOK
  BY <1>1, <1>2, <1>3, <1>4, NumWorkersNat DEF Init, TypeOK
<1>6. TasksInHand
  BY DEF Init, TasksInHand
<1> QED BY <1>5, <1>6 DEF TypeInv

LEMMA TypeStep == TypeInv /\ [Next]_vars => TypeInv'
<1> SUFFICES ASSUME TypeInv, [Next]_vars PROVE TypeInv'
  OBVIOUS
<1> USE DEF TypeInv, TypeOK, TasksInHand, workerVars, mainVars
<1>1. CASE MainPick
  <2>1. PICK t \in pending : Pick(t, model_counts) /\ mtask' = t
    BY <1>1 DEF MainPick
  <2>2. pending' \subseteq Tasks /\ model_counts' \in [Models -> Int]
    BY <2>1, PickType
  <2> QED BY <1>1, <2>1, <2>2 DEF MainPick
<1>2. CASE MainPickNone
  BY <1>2 DEF MainPickNone, StartsAfter
<1>3. CASE MainSend
  BY <1>3 DEF MainSend, StartsAfter
<1>4. CASE MainBodyEnds
  BY <1>4 DEF MainBodyEnds
<1>5. CASE MainReturn
  BY <1>5 DEF MainReturn
<1>6. ASSUME NEW w \in Workers, Receive(w) PROVE TypeInv'
  BY <1>6 DEF Receive
<1>7. ASSUME NEW w \in Workers, EndOfStream(w) PROVE TypeInv'
  BY <1>7 DEF EndOfStream
<1>8. ASSUME NEW w \in Workers, FinishBreak(w) PROVE TypeInv'
  BY <1>8, TaskEndsType, CountsAfterType DEF FinishBreak
<1>9. ASSUME NEW w \in Workers, FinishPick(w) PROVE TypeInv'
  <2>1. PICK t \in pending : Pick(t, CountsAfter(w)) /\ wtask' = [wtask EXCEPT ![w] = t]
    BY <1>9 DEF FinishPick
  <2>2. results' \in Seq(Tasks) /\ completed' \in Nat /\ wpc[w] = "running"
    BY <1>9, TaskEndsType DEF FinishPick
  <2>3. pending' \subseteq Tasks /\ model_counts' \in [Models -> Int]
    BY <2>1, <2>2, PickType, CountsAfterType
  <2> QED BY <1>9, <2>1, <2>2, <2>3 DEF FinishPick
<1>10. ASSUME NEW w \in Workers, FinishIdle(w) PROVE TypeInv'
  BY <1>10, TaskEndsType, CountsAfterType DEF FinishIdle
<1>11. ASSUME NEW w \in Workers, FinishClose(w) PROVE TypeInv'
  BY <1>11, TaskEndsType, CountsAfterType DEF FinishClose
<1>12. ASSUME NEW w \in Workers, WorkerSend(w) PROVE TypeInv'
  BY <1>12 DEF WorkerSend
<1>13. ASSUME NEW w \in Workers, WorkerCancelled(w) PROVE TypeInv'
  BY <1>13 DEF WorkerCancelled
<1>14. CASE Cancel
  BY <1>14 DEF Cancel
<1>15. CASE UNCHANGED vars
  BY <1>15 DEF vars
<1> QED BY <1>1, <1>2, <1>3, <1>4, <1>5, <1>6, <1>7, <1>8, <1>9, <1>10, <1>11,
           <1>12, <1>13, <1>14, <1>15 DEF Next, Main, Worker, Finish

(* The variables of the scheduler keep their types; in particular the      *)
(* number of tasks main has still to start is never negative.              *)
THEOREM TypeCorrect == Spec => []TypeOK
<1>1. TypeInv => TypeOK
  BY DEF TypeInv
<1> QED BY <1>1, TypeInit, TypeStep, PTL DEF Spec

LEMMA TypeInvariant == Spec => []TypeInv
BY TypeInit, TypeStep, PTL DEF Spec

-----------------------------------------------------------------------------
(* Where the tasks are, in numbers *)

LEMMA SetsFinite ==
  ASSUME TypeInv
  PROVE  /\ IsFiniteSet(pending) /\ Cardinality(pending) \in Nat
         /\ IsFiniteSet(HoldingWorkers) /\ Cardinality(HoldingWorkers) \in Nat
<1>1. IsFiniteSet(Tasks) /\ IsFiniteSet(Workers)
  BY FS_Interval, NumWorkersNat, SchedulerAssumption DEF Tasks, Workers
<1>2. pending \subseteq Tasks /\ HoldingWorkers \subseteq Workers
  BY DEF TypeInv, TypeOK, HoldingWorkers
<1>3. IsFiniteSet(pending) /\ IsFiniteSet(HoldingWorkers)
  BY <1>1, <1>2, FS_Subset
<1> QED BY <1>3, FS_CardinalityType

LEMMA PickCardinality ==
  ASSUME TypeInv, NEW t, NEW counts, Pick(t, counts)
  PROVE  Cardinality(pending') = Cardinality(pending) - 1
BY SetsFinite, FS_RemoveElement DEF Pick, PendingAfter

LEMMA MainHeldCardinality ==
  Cardinality(MainHeld) = IF mpc = "sending" THEN 1 ELSE 0
BY FS_EmptySet, FS_Singleton DEF MainHeld

(* A worker starts to hold a task, or no longer does. *)
LEMMA HoldingAdded ==
  ASSUME TypeInv, NEW w \in Workers, wpc[w] = "idle", NEW pc \in {"running", "sending"},
         wpc' = [wpc EXCEPT ![w] = pc]
  PROVE  Cardinality(HoldingWorkers') = Cardinality(HoldingWorkers) + 1
<1>1. HoldingWorkers' = HoldingWorkers \cup {w} /\ w \notin HoldingWorkers
  BY DEF HoldingWorkers, TypeInv, TypeOK
<1> QED BY <1>1, SetsFinite, FS_AddElement

LEMMA HoldingRemoved ==
  ASSUME TypeInv, NEW w \in Workers, wpc[w] \in {"running", "sending"},
         NEW pc \in {"idle", "done"}, wpc' = [wpc EXCEPT ![w] = pc]
  PROVE  Cardinality(HoldingWorkers') = Cardinality(HoldingWorkers) - 1
<1>1. HoldingWorkers' = HoldingWorkers \ {w} /\ w \in HoldingWorkers
  BY DEF HoldingWorkers, TypeInv, TypeOK
<1> QED BY <1>1, SetsFinite, FS_RemoveElement

LEMMA HoldingSame ==
  ASSUME TypeInv, NEW w \in Workers, NEW pc, wpc' = [wpc EXCEPT ![w] = pc],
         wpc[w] \in {"running", "sending"} <=> pc \in {"running", "sending"}
  PROVE  HoldingWorkers' = HoldingWorkers
BY DEF HoldingWorkers, TypeInv, TypeOK

(* What an ending task does to the count of completed tasks. *)
LEMMA TaskEndsCompletes ==
  ASSUME NEW w, NEW outcome, TaskEnds(w, outcome)
  PROVE  wpc[w] = "running" /\ completed' = completed + 1 /\ outcome \in Outcomes
BY DEF TaskEnds
(* Main, the workers and the channel between them never hold more tasks    *)
(* than main has started, and all tasks are accounted for.                 *)
Started == Len(channel) + Cardinality(HoldingWorkers) <= NumWorkers - starts

CountInv == TypeInv /\ TasksAccounted /\ Started

LEMMA CountInit == Init => CountInv
<1> SUFFICES ASSUME Init PROVE CountInv
  OBVIOUS
<1>1. HoldingWorkers = {} /\ Len(channel) = 0 /\ mpc = "starting"
  BY DEF Init, HoldingWorkers
<1>2. Cardinality(pending) = NumTasks
  BY FS_Interval, SchedulerAssumption DEF Init, Tasks
<1>3. TasksAccounted
  BY <1>1, <1>2, FS_EmptySet, MainHeldCardinality, SchedulerAssumption DEF Init, TasksAccounted
<1>4. Started
  BY <1>1, FS_EmptySet, NumWorkersNat DEF Init, Started
<1> QED BY <1>3, <1>4, TypeInit DEF CountInv

LEMMA CountStep == CountInv /\ [Next]_vars => CountInv'
<1> SUFFICES ASSUME CountInv, [Next]_vars PROVE (TasksAccounted /\ Started)'
  BY TypeStep DEF CountInv
<1>1. /\ TypeInv /\ TasksAccounted /\ Started
      /\ Cardinality(pending) \in Nat /\ Cardinality(HoldingWorkers) \in Nat
      /\ completed \in Nat /\ starts \in Nat /\ channel \in Seq(Tasks)
      /\ Len(channel) \in Nat /\ NumTasks \in Nat /\ NumWorkers \in Nat
  BY SetsFinite, NumWorkersNat, SchedulerAssumption DEF CountInv, TypeInv, TypeOK
<1>2. /\ Cardinality(MainHeld) = (IF mpc = "sending" THEN 1 ELSE 0)
      /\ Cardinality(MainHeld') = (IF mpc' = "sending" THEN 1 ELSE 0)
  BY FS_EmptySet, FS_Singleton DEF MainHeld
<1>3. wpc' = wpc => Cardinality(HoldingWorkers)' = Cardinality(HoldingWorkers)
  BY DEF HoldingWorkers
<1> USE DEF TasksAccounted, Started, workerVars, mainVars
<1>4. CASE MainPick
  <2>1. Cardinality(pending)' = Cardinality(pending) - 1
    BY <1>1, <1>4, PickCardinality DEF MainPick
  <2> QED BY <1>1, <1>2, <1>3, <1>4, <2>1 DEF MainPick
<1>5. CASE MainPickNone
  BY <1>1, <1>2, <1>3, <1>5 DEF MainPickNone, StartsAfter
<1>6. CASE MainSend
  <2>1. Len(channel') = Len(channel) + 1
    BY <1>1, <1>6 DEF MainSend, TypeInv, TypeOK, TasksInHand
  <2> QED BY <1>1, <1>2, <1>3, <1>6, <2>1 DEF MainSend, StartsAfter
<1>7. CASE MainBodyEnds
  BY <1>1, <1>2, <1>3, <1>7 DEF MainBodyEnds
<1>8. CASE MainReturn
  BY <1>1, <1>2, <1>3, <1>8 DEF MainReturn
<1>9. ASSUME NEW w \in Workers, Receive(w) PROVE (TasksAccounted /\ Started)'
  <2>1. Len(channel') = Len(channel) - 1
    BY <1>1, <1>9 DEF Receive
  <2>2. Cardinality(HoldingWorkers') = Cardinality(HoldingWorkers) + 1
    BY <1>1, <1>9, HoldingAdded DEF Receive
  <2> QED BY <1>1, <1>2, <1>9, <2>1, <2>2, SMTT(30) DEF Receive
<1>10. ASSUME NEW w \in Workers, EndOfStream(w) PROVE (TasksAccounted /\ Started)'
  <2>1. HoldingWorkers' = HoldingWorkers
    BY <1>1, <1>10, HoldingSame DEF EndOfStream
  <2> QED BY <1>1, <1>2, <1>10, <2>1 DEF EndOfStream
<1>11. ASSUME NEW w \in Workers, FinishBreak(w) PROVE (TasksAccounted /\ Started)'
  <2>1. wpc[w] = "running" /\ completed' = completed + 1
    BY <1>11, TaskEndsCompletes DEF FinishBreak
  <2>2. Cardinality(HoldingWorkers') = Cardinality(HoldingWorkers) - 1
    BY <1>1, <1>11, <2>1, HoldingRemoved DEF FinishBreak
  <2> QED BY <1>1, <1>2, <1>11, <2>1, <2>2, SMTT(30) DEF FinishBreak
<1>12. ASSUME NEW w \in Workers, FinishPick(w) PROVE (TasksAccounted /\ Started)'
  <2>1. wpc[w] = "running" /\ completed' = completed + 1
    BY <1>12, TaskEndsCompletes DEF FinishPick
  <2>2. HoldingWorkers' = HoldingWorkers
    BY <1>1, <1>12, <2>1, HoldingSame DEF FinishPick
  <2>3. Cardinality(pending)' = Cardinality(pending) - 1
    BY <1>1, <1>12, PickCardinality DEF FinishPick
  <2> QED BY <1>1, <1>2, <1>12, <2>1, <2>2, <2>3 DEF FinishPick
<1>13. ASSUME NEW w \in Workers, FinishIdle(w) \/ FinishClose(w)
       PROVE  (TasksAccounted /\ Started)'
  <2>1. wpc[w] = "running" /\ completed' = completed + 1
    BY <1>13, TaskEndsCompletes DEF FinishIdle, FinishClose
  <2>2. Cardinality(HoldingWorkers') = Cardinality(HoldingWorkers) - 1
    BY <1>1, <1>13, <2>1, HoldingRemoved DEF FinishIdle, FinishClose
  <2> QED BY <1>1, <1>2, <1>13, <2>1, <2>2, SMTT(30) DEF FinishIdle, FinishClose
<1>14. ASSUME NEW w \in Workers, WorkerSend(w) PROVE (TasksAccounted /\ Started)'
  <2>1. Len(channel') = Len(channel) + 1
    BY <1>1, <1>14 DEF WorkerSend, TypeInv, TypeOK, TasksInHand
  <2>2. Cardinality(HoldingWorkers') = Cardinality(HoldingWorkers) - 1
    BY <1>1, <1>14, HoldingRemoved DEF WorkerSend
  <2> QED BY <1>1, <1>2, <1>14, <2>1, <2>2 DEF WorkerSend
<1>15. ASSUME NEW w \in Workers, WorkerCancelled(w) PROVE (TasksAccounted /\ Started)'
  <2>1. CASE wpc[w] = "idle"
    <3>1. HoldingWorkers' = HoldingWorkers
      BY <1>1, <1>15, <2>1, HoldingSame DEF WorkerCancelled
    <3> QED BY <1>1, <1>15, <3>1 DEF WorkerCancelled
  <2>2. CASE wpc[w] = "sending"
    <3>1. Cardinality(HoldingWorkers') = Cardinality(HoldingWorkers) - 1
      BY <1>1, <1>15, <2>2, HoldingRemoved DEF WorkerCancelled
    <3> QED BY <1>1, <1>15, <3>1 DEF WorkerCancelled
  <2> QED BY <1>15, <2>1, <2>2 DEF WorkerCancelled
<1>16. CASE Cancel
  BY <1>1, <1>3, <1>16 DEF Cancel
<1>17. CASE UNCHANGED vars
  BY <1>1, <1>2, <1>3, <1>17 DEF vars
<1> QED BY <1>4, <1>5, <1>6, <1>7, <1>8, <1>9, <1>10, <1>11, <1>12, <1>13, <1>14,
           <1>15, <1>16, <1>17 DEF Next, Main, Worker, Finish

LEMMA CountInvariant == Spec => []CountInv
BY CountInit, CountStep, PTL DEF Spec

(* Until a cancellation no task gets lost: tasks_completed is the number   *)
(* of tasks that are neither pending nor in flight.                        *)
THEOREM AccountingCorrect == Spec => []TasksAccounted
<1>1. CountInv => TasksAccounted
  BY DEF CountInv
<1> QED BY <1>1, CountInvariant, PTL

(* No send ever waits for room in the channel.                             *)
THEOREM InFlightCorrect == Spec => []InFlightBounded
<1>1. CountInv => InFlightBounded
  BY SetsFinite, NumWorkersNat, MainHeldCardinality
     DEF CountInv, TypeInv, TypeOK, TasksInHand, Started, InFlightBounded
<1> QED BY <1>1, CountInvariant, PTL
-----------------------------------------------------------------------------
(* The balance of the models *)

BalancedBy(counts, waiting) ==
  \A m \in waiting : \A n \in Models : counts[n] <= counts[m] + 1

(* Counting one more use of a least used model p keeps the balance, even   *)
(* when one use of a model k has just ended.                               *)
LEMMA Rebalanced ==
  ASSUME NEW waiting \in SUBSET Models, NEW before \in [Models -> Int],
         NEW freed \in [Models -> Int], NEW p \in waiting, NEW k \in Models,
         BalancedBy(before, waiting),
         \/ freed = before
         \/ freed = [before EXCEPT ![k] = @ - 1],
         \A m \in waiting : freed[p] <= freed[m]
  PROVE  BalancedBy([freed EXCEPT ![p] = @ + 1], waiting)
<1> DEFINE after == [freed EXCEPT ![p] = @ + 1]
<1> SUFFICES ASSUME NEW m \in waiting, NEW n \in Models
             PROVE  after[n] <= after[m] + 1
  BY DEF BalancedBy
<1>1. /\ before[n] \in Int /\ before[m] \in Int /\ before[p] \in Int
      /\ before[n] <= before[m] + 1 /\ before[n] <= before[p] + 1
      /\ freed[n] \in Int /\ freed[m] \in Int /\ freed[p] \in Int
      /\ freed[p] <= freed[m]
  BY DEF BalancedBy
<1>2. CASE n = p
  BY <1>1, <1>2
<1>3. CASE n # p /\ m = p
  BY <1>1, <1>3
<1>4. CASE n # p /\ m # p
  <2>1. after[n] = freed[n] /\ after[m] = freed[m]
    BY <1>4
  <2>2. freed[n] <= before[n]
    BY <1>1
  <2>3. before[n] <= freed[m] + 1 \/ n = m
    BY <1>1, <1>4
  <2> QED BY <1>1, <2>1, <2>2, <2>3
<1> QED BY <1>2, <1>3, <1>4

LEMMA PickBalances ==
  ASSUME TypeInv, BalancedBy(model_counts, PendingModels),
         NEW t, NEW counts \in [Models -> Int], Pick(t, counts), NEW k \in Models,
         \/ counts = model_counts
         \/ counts = [model_counts EXCEPT ![k] = @ - 1]
  PROVE  BalancedBy(model_counts', PendingModels')
<1>1. PendingModels \subseteq Models /\ PendingModels' \subseteq PendingModels
  BY SchedulerAssumption DEF TypeInv, TypeOK, Pick, PendingAfter, PendingModels
<1>2. /\ ModelOf[t] \in PendingModels
      /\ \A m \in PendingModels : counts[ModelOf[t]] <= counts[m]
      /\ model_counts' = [counts EXCEPT ![ModelOf[t]] = @ + 1]
  BY DEF Pick, LeastUsed
<1>3. BalancedBy(model_counts', PendingModels)
  BY <1>1, <1>2, Rebalanced DEF TypeInv, TypeOK
<1> QED BY <1>1, <1>3 DEF BalancedBy

BalanceInv == CountInv /\ Balanced

LEMMA BalanceStep == BalanceInv /\ [Next]_vars => BalanceInv'
<1> SUFFICES ASSUME BalanceInv, [Next]_vars, ~cancelled', ~FinalWriteMayFail
             PROVE  BalancedBy(model_counts', PendingModels')
  BY CountStep DEF BalanceInv, Balanced, BalancedBy
<1>1. ~cancelled
  BY DEF Next, Main, Worker, Finish, vars, MainPick, MainPickNone, MainSend, MainBodyEnds,
         MainReturn, Receive, EndOfStream, FinishBreak, FinishPick, FinishIdle, FinishClose,
         WorkerSend, WorkerCancelled, Cancel
<1>2. /\ CountInv /\ TypeInv /\ model_counts \in [Models -> Int]
      /\ BalancedBy(model_counts, PendingModels)
  BY <1>1 DEF BalanceInv, Balanced, BalancedBy, CountInv, TypeInv, TypeOK
<1>3. CASE MainPick
  <2>1. PICK t \in pending : Pick(t, model_counts)
    BY <1>3 DEF MainPick
  <2>2. ModelOf[t] \in Models
    BY <1>2, <2>1, SchedulerAssumption DEF TypeInv, TypeOK
  <2> QED BY <1>2, <2>1, <2>2, PickBalances
<1>4. ASSUME NEW w \in Workers, FinishBreak(w) PROVE FALSE
  BY <1>1, <1>4 DEF FinishBreak, TaskEnds, Outcomes
<1>5. ASSUME NEW w \in Workers, FinishPick(w)
      PROVE  BalancedBy(model_counts', PendingModels')
  <2>1. wpc[w] = "running"
    BY <1>5 DEF FinishPick, TaskEnds
  <2>2. ModelOf[wtask[w]] \in Models
    BY <1>2, <2>1, SchedulerAssumption DEF TypeInv, TasksInHand
  <2>3. CountsAfter(w) \in [Models -> Int]
    BY <1>2, <2>1, CountsAfterType
  <2>4. CountsAfter(w) = [model_counts EXCEPT ![ModelOf[wtask[w]]] = @ - 1]
    BY DEF CountsAfter
  <2> QED BY <1>2, <1>5, <2>2, <2>3, <2>4, PickBalances DEF FinishPick
<1>6. ASSUME NEW w \in Workers, FinishIdle(w)
      PROVE  BalancedBy(model_counts', PendingModels')
  BY <1>6 DEF FinishIdle, PendingModels, BalancedBy
<1>7. ASSUME NEW w \in Workers, FinishClose(w)
      PROVE  BalancedBy(model_counts', PendingModels')
  <2>1. wpc[w] = "running" /\ NumTasks = completed + 1 /\ pending' = pending
    BY <1>7, TaskEndsCompletes DEF FinishClose
  <2>2. Cardinality(HoldingWorkers) # 0
    BY <2>1, <1>2, SetsFinite, FS_EmptySet DEF HoldingWorkers
  <2>3. Cardinality(pending) = 0
    BY <1>1, <1>2, <2>1, <2>2, SetsFinite, MainHeldCardinality, SchedulerAssumption
       DEF CountInv, TasksAccounted, TypeInv, TypeOK
  <2>4. pending = {}
    BY <1>2, <2>3, SetsFinite, FS_EmptySet
  <2> QED BY <2>1, <2>4 DEF PendingModels, BalancedBy
<1>8. CASE UNCHANGED <<pending, model_counts>>
  BY <1>2, <1>8 DEF PendingModels, BalancedBy
<1> QED BY <1>3, <1>4, <1>5, <1>6, <1>7, <1>8
        DEF Next, Main, Worker, Finish, vars, MainPickNone, MainSend, MainBodyEnds,
            MainReturn, Receive, EndOfStream, WorkerSend, WorkerCancelled, Cancel

(* A model that has pending tasks is never two tasks behind another one,   *)
(* unless the run is cancelled or a log could not be written.              *)
THEOREM BalanceCorrect == Spec => []Balanced
<1>1. Init => BalanceInv
  BY CountInit, SchedulerAssumption DEF Init, BalanceInv, Balanced, PendingModels
<1>2. BalanceInv => Balanced
  BY DEF BalanceInv
<1> QED BY <1>1, <1>2, BalanceStep, PTL DEF Spec

-----------------------------------------------------------------------------
(* The end of the stream *)

ClosedAtEnd == completed = NumTasks /\ ~cancelled => closed

EndInv == TypeInv /\ ClosedAtEnd

LEMMA EndStep ==
  ASSUME ~FinalWriteMayFail
  PROVE  EndInv /\ [Next]_vars => EndInv'
<1> SUFFICES ASSUME EndInv, [Next]_vars PROVE ClosedAtEnd'
  BY TypeStep DEF EndInv
<1>1. ASSUME NEW w \in Workers, FinishBreak(w) PROVE ClosedAtEnd'
  <2>1. cancelled /\ cancelled' = cancelled
    BY <1>1 DEF FinishBreak, TaskEnds, Outcomes
  <2> QED BY <2>1 DEF ClosedAtEnd
<1>2. ASSUME NEW w \in Workers, FinishPick(w) \/ FinishIdle(w) PROVE ClosedAtEnd'
  <2>1. completed' \in Int /\ completed' < NumTasks
    BY <1>2, SchedulerAssumption DEF FinishPick, FinishIdle, TaskEnds, EndInv, TypeInv, TypeOK
  <2> QED BY <2>1, SchedulerAssumption DEF ClosedAtEnd
<1>3. ASSUME NEW w \in Workers, FinishClose(w) PROVE ClosedAtEnd'
  BY <1>3 DEF FinishClose, ClosedAtEnd
<1>4. CASE UNCHANGED <<completed, closed>> /\ (cancelled => cancelled')
  BY <1>4 DEF EndInv, ClosedAtEnd
<1>5. CASE MainReturn
  BY <1>5 DEF MainReturn, ClosedAtEnd
<1> QED BY <1>1, <1>2, <1>3, <1>4, <1>5
        DEF Next, Main, Worker, Finish, vars, MainPick, MainPickNone, MainSend,
            MainBodyEnds, Receive, EndOfStream, WorkerSend, WorkerCancelled, Cancel

(* If every log can be written, no worker is left waiting on an open       *)
(* stream once all tasks are complete.                                     *)
THEOREM NobodyStranded == ~FinalWriteMayFail => (Spec => []NoStrandedWorker)
<1> SUFFICES ASSUME ~FinalWriteMayFail PROVE Spec => []NoStrandedWorker
  OBVIOUS
<1>1. Init => EndInv
  BY TypeInit, SchedulerAssumption DEF Init, EndInv, ClosedAtEnd
<1>2. EndInv /\ [Next]_vars => EndInv'
  BY EndStep
<1>3. EndInv => NoStrandedWorker
  BY DEF EndInv, ClosedAtEnd, NoStrandedWorker
<1> QED BY <1>1, <1>2, <1>3, PTL DEF Spec

-----------------------------------------------------------------------------
(* Where the tasks are: no task is in two places *)

(* The tasks that the workers hold, when one of them takes a task, gives   *)
(* its task away, or does both                                             *)
HeldApart == \A v, w \in HoldingWorkers : wtask[v] = wtask[w] => v = w

LEMMA HeldTakes ==
  ASSUME TypeInv, HeldApart, NEW w \in Workers, w \notin HoldingWorkers, NEW t \in Tasks,
         t \notin Held, wtask' = [wtask EXCEPT ![w] = t],
         NEW pc \in {"running", "sending"}, wpc' = [wpc EXCEPT ![w] = pc]
  PROVE  HeldApart' /\ Held' = Held \cup {t}
<1>1. HoldingWorkers' = HoldingWorkers \cup {w}
  BY DEF HoldingWorkers, TypeInv, TypeOK
<1>2. \A v \in HoldingWorkers : v # w /\ v \in Workers /\ wtask'[v] = wtask[v]
  BY DEF HoldingWorkers, TypeInv, TypeOK
<1>3. wtask'[w] = t
  BY DEF TypeInv, TypeOK
<1> QED BY <1>1, <1>2, <1>3 DEF HeldApart, Held

LEMMA HeldGives ==
  ASSUME TypeInv, HeldApart, NEW w \in HoldingWorkers,
         wtask' = [wtask EXCEPT ![w] = None],
         NEW pc \in {"idle", "done"}, wpc' = [wpc EXCEPT ![w] = pc]
  PROVE  HeldApart' /\ Held' = Held \ {wtask[w]} /\ wtask[w] \in Held
<1>1. HoldingWorkers' = HoldingWorkers \ {w} /\ w \in Workers
  BY DEF HoldingWorkers, TypeInv, TypeOK
<1>2. \A v \in HoldingWorkers : v # w => v \in Workers /\ wtask'[v] = wtask[v]
  BY DEF HoldingWorkers, TypeInv, TypeOK
<1> QED BY <1>1, <1>2 DEF HeldApart, Held

LEMMA HeldSwaps ==
  ASSUME TypeInv, HeldApart, NEW w \in HoldingWorkers, NEW t \in Tasks, t \notin Held,
         wtask' = [wtask EXCEPT ![w] = t],
         NEW pc \in {"running", "sending"}, wpc' = [wpc EXCEPT ![w] = pc]
  PROVE  HeldApart' /\ Held' = (Held \ {wtask[w]}) \cup {t} /\ wtask[w] \in Held
<1>1. HoldingWorkers' = HoldingWorkers /\ w \in Workers
  BY DEF HoldingWorkers, TypeInv, TypeOK
<1>2. \A v \in HoldingWorkers : v # w => v \in Workers /\ wtask'[v] = wtask[v]
  BY DEF HoldingWorkers, TypeInv, TypeOK
<1>3. wtask'[w] = t
  BY <1>1 DEF TypeInv, TypeOK
<1> QED BY <1>1, <1>2, <1>3 DEF HeldApart, Held

(* The five places a task may be in, no two of them at once *)
Apart(waiting, main, sent, held, ended) ==
  /\ waiting \cap (main \cup sent \cup held \cup ended) = {}
  /\ main \cap (sent \cup held \cup ended) = {}
  /\ sent \cap (held \cup ended) = {}
  /\ held \cap ended = {}

PlaceInv ==
  /\ Distinct(channel) /\ Distinct(results) /\ HeldApart
  /\ Apart(pending, MainHeld, Elements(channel), Held, Elements(results))

InFlight == MainHeld \cup Elements(channel) \cup Held

(* What a step does with the tasks: nothing, pick one, end one, or end one *)
(* and pick another.                                                       *)
Keeps ==
  /\ pending' = pending /\ InFlight' = InFlight /\ Elements(results') = Elements(results)
  /\ model_counts' = model_counts

Picks(t) ==
  /\ t \in pending
  /\ pending' = pending \ {t} /\ InFlight' = InFlight \cup {t}
  /\ Elements(results') = Elements(results)
  /\ model_counts' = [model_counts EXCEPT ![ModelOf[t]] = @ + 1]

Ends(t) ==
  /\ t \in InFlight
  /\ pending' = pending /\ InFlight' = InFlight \ {t}
  /\ FinalWriteMayFail \/ Elements(results') = Elements(results) \cup {t}
  /\ model_counts' = [model_counts EXCEPT ![ModelOf[t]] = @ - 1]

EndsAndPicks(t, u) ==
  /\ t \in InFlight /\ u \in pending
  /\ pending' = pending \ {u} /\ InFlight' = (InFlight \ {t}) \cup {u}
  /\ FinalWriteMayFail \/ Elements(results') = Elements(results) \cup {t}
  /\ model_counts' = [[model_counts EXCEPT ![ModelOf[t]] = @ - 1]
                         EXCEPT ![ModelOf[u]] = @ + 1]

Moves ==
  \/ cancelled'
  \/ Keeps
  \/ \E t \in Tasks : Picks(t) \/ Ends(t)
  \/ \E t, u \in Tasks : EndsAndPicks(t, u)

LEMMA PlaceTypes ==
  ASSUME TypeInv
  PROVE  /\ channel \in Seq(Tasks) /\ results \in Seq(Tasks) /\ pending \subseteq Tasks
         /\ Held \subseteq Tasks /\ MainHeld \subseteq Tasks
         /\ Elements(channel) \subseteq Tasks /\ Elements(results) \subseteq Tasks
BY DEF TypeInv, TypeOK, TasksInHand, Held, HoldingWorkers, MainHeld, Elements

LEMMA EndedTask ==
  ASSUME TypeInv, PlaceInv, NEW w \in Workers, NEW outcome, TaskEnds(w, outcome)
  PROVE  /\ w \in HoldingWorkers /\ wtask[w] \in Held /\ wtask[w] \in Tasks
         /\ Distinct(results')
         /\ \/ Elements(results') = Elements(results) /\ outcome = "nolog" /\ FinalWriteMayFail
            \/ Elements(results') = Elements(results) \cup {wtask[w]}
<1>1. w \in HoldingWorkers /\ wtask[w] \in Held /\ wtask[w] \in Tasks
  BY DEF TaskEnds, TypeInv, TasksInHand, HoldingWorkers, Held
<1>2. wtask[w] \notin Elements(results) /\ results \in Seq(Tasks)
  BY <1>1, PlaceTypes DEF PlaceInv, Apart
<1>3. CASE outcome = "nolog"
  BY <1>1, <1>3 DEF TaskEnds, Outcomes, PlaceInv
<1>4. CASE outcome # "nolog"
  BY <1>1, <1>2, <1>4, AppendElements DEF TaskEnds, PlaceInv
<1> QED BY <1>3, <1>4, <1>1

LEMMA MovesMain ==
  ASSUME TypeInv, PlaceInv, Main
  PROVE  PlaceInv' /\ Moves
<1> USE PlaceTypes DEF PlaceInv, workerVars, mainVars
<1>1. CASE MainPick
  <2>1. PICK t \in pending : Pick(t, model_counts) /\ mtask' = t
    BY <1>1 DEF MainPick
  <2>2. /\ pending' = pending \ {t} /\ MainHeld = {} /\ MainHeld' = {t}
        /\ model_counts' = [model_counts EXCEPT ![ModelOf[t]] = @ + 1]
    BY <1>1, <2>1 DEF MainPick, MainHeld, Pick, PendingAfter
  <2>3. /\ UNCHANGED <<channel, results>> /\ HeldApart' /\ Held' = Held
    BY <1>1 DEF MainPick, HeldApart, Held, HoldingWorkers
  <2>4. PlaceInv'
    BY <2>2, <2>3 DEF Apart
  <2>5. Picks(t)
    BY <2>2, <2>3 DEF Picks, InFlight
  <2> QED BY <2>4, <2>5 DEF Moves
<1>2. CASE MainPickNone \/ MainReturn
  <2>1. /\ UNCHANGED <<pending, channel, results, model_counts>> /\ MainHeld' = MainHeld
        /\ HeldApart' /\ Held' = Held
    BY <1>2 DEF MainPickNone, MainReturn, MainHeld, HeldApart, Held, HoldingWorkers
  <2> QED BY <2>1 DEF Moves, Keeps, InFlight
<1>3. CASE MainSend
  <2>1. /\ mtask \in Tasks /\ MainHeld = {mtask} /\ MainHeld' = {}
        /\ channel' = Append(channel, mtask)
    BY <1>3 DEF MainSend, MainHeld, TypeInv, TasksInHand
  <2>2. Elements(channel') = Elements(channel) \cup {mtask} /\ Distinct(channel')
    BY <2>1, AppendElements DEF Apart
  <2>3. UNCHANGED <<pending, results, model_counts>> /\ HeldApart' /\ Held' = Held
    BY <1>3 DEF MainSend, HeldApart, Held, HoldingWorkers
  <2>4. PlaceInv'
    BY <2>1, <2>2, <2>3 DEF Apart
  <2> QED BY <2>1, <2>2, <2>3, <2>4 DEF Moves, Keeps, InFlight
<1>4. CASE MainBodyEnds
  <2>1. /\ UNCHANGED <<pending, channel, results, model_counts>> /\ MainHeld' = {}
        /\ HeldApart' /\ Held' = Held
        /\ cancelled' \/ MainHeld = {}
    BY <1>4 DEF MainBodyEnds, MainHeld, HeldApart, Held, HoldingWorkers
  <2>2. PlaceInv'
    BY <2>1 DEF Apart
  <2> QED BY <2>1, <2>2 DEF Moves, Keeps, InFlight
<1> QED BY <1>1, <1>2, <1>3, <1>4 DEF Main

LEMMA MovesWorker ==
  ASSUME TypeInv, PlaceInv, NEW w \in Workers, Worker(w)
  PROVE  PlaceInv' /\ Moves
<1> USE PlaceTypes DEF PlaceInv, workerVars, mainVars
<1>1. CASE Receive(w)
  <2>1. /\ Elements(channel) = Elements(channel') \cup {Head(channel)} /\ Distinct(channel')
        /\ Head(channel) \notin Elements(channel') /\ Head(channel) \in Tasks
    BY <1>1, TailElements DEF Receive
  <2>2. w \notin HoldingWorkers /\ Head(channel) \notin Held
    BY <1>1, <2>1 DEF Receive, HoldingWorkers, Apart
  <2>3. HeldApart' /\ Held' = Held \cup {Head(channel)}
    BY <1>1, <2>1, <2>2, HeldTakes DEF Receive
  <2>4. UNCHANGED <<pending, results, model_counts>> /\ MainHeld' = MainHeld
    BY <1>1 DEF Receive, MainHeld
  <2>5. PlaceInv'
    BY <2>1, <2>3, <2>4 DEF Apart
  <2> QED BY <2>1, <2>3, <2>4, <2>5 DEF Moves, Keeps, InFlight
<1>2. CASE EndOfStream(w)
  <2>1. /\ UNCHANGED <<pending, channel, results, model_counts>> /\ MainHeld' = MainHeld
        /\ UNCHANGED wtask
    BY <1>2 DEF EndOfStream, MainHeld
  <2>2. HoldingWorkers' = HoldingWorkers
    BY <1>2, HoldingSame DEF EndOfStream
  <2>3. HeldApart' /\ Held' = Held
    BY <2>1, <2>2 DEF HeldApart, Held
  <2> QED BY <2>1, <2>3 DEF Moves, Keeps, InFlight
<1>3. ASSUME FinishBreak(w) \/ FinishIdle(w) \/ FinishClose(w)
      PROVE  PlaceInv' /\ Moves
  <2>1. /\ \E outcome : TaskEnds(w, outcome)
        /\ UNCHANGED <<pending, channel>> /\ MainHeld' = MainHeld
        /\ model_counts' = CountsAfter(w)
        /\ wtask' = [wtask EXCEPT ![w] = None]
        /\ wpc' = [wpc EXCEPT ![w] = "idle"] \/ wpc' = [wpc EXCEPT ![w] = "done"]
    BY <1>3 DEF FinishBreak, FinishIdle, FinishClose, MainHeld
  <2>2. /\ w \in HoldingWorkers /\ wtask[w] \in Held /\ wtask[w] \in Tasks
        /\ Distinct(results')
        /\ \/ Elements(results') = Elements(results) /\ FinalWriteMayFail
           \/ Elements(results') = Elements(results) \cup {wtask[w]}
    BY <2>1, EndedTask
  <2>3. HeldApart' /\ Held' = Held \ {wtask[w]}
    BY <2>1, <2>2, HeldGives
  <2>4. PlaceInv'
    BY <2>1, <2>2, <2>3 DEF Apart
  <2>5. Ends(wtask[w])
    BY <2>1, <2>2, <2>3 DEF Ends, InFlight, Apart, CountsAfter
  <2> QED BY <2>2, <2>4, <2>5 DEF Moves
<1>4. CASE FinishPick(w)
  <2>1. PICK t \in pending : Pick(t, CountsAfter(w)) /\ wtask' = [wtask EXCEPT ![w] = t]
    BY <1>4 DEF FinishPick
  <2>2. /\ TaskEnds(w, "logged") /\ UNCHANGED channel /\ MainHeld' = MainHeld
        /\ wpc' = [wpc EXCEPT ![w] = "sending"] /\ pending' = pending \ {t}
        /\ model_counts' = [CountsAfter(w) EXCEPT ![ModelOf[t]] = @ + 1]
    BY <1>4, <2>1 DEF FinishPick, MainHeld, Pick, PendingAfter
  <2>3. /\ w \in HoldingWorkers /\ wtask[w] \in Held /\ wtask[w] \in Tasks
        /\ Distinct(results')
        /\ \/ Elements(results') = Elements(results) /\ FinalWriteMayFail
           \/ Elements(results') = Elements(results) \cup {wtask[w]}
    BY <2>2, EndedTask
  <2>4. t \in Tasks /\ t \notin Held
    BY <2>1 DEF Apart
  <2>5. HeldApart' /\ Held' = (Held \ {wtask[w]}) \cup {t}
    BY <2>1, <2>2, <2>3, <2>4, HeldSwaps
  <2>6. PlaceInv'
    BY <2>2, <2>3, <2>4, <2>5 DEF Apart
  <2>7. EndsAndPicks(wtask[w], t)
    BY <2>1, <2>2, <2>3, <2>4, <2>5 DEF EndsAndPicks, InFlight, Apart, CountsAfter
  <2> QED BY <2>3, <2>4, <2>6, <2>7 DEF Moves
<1>5. CASE WorkerSend(w)
  <2>1. w \in HoldingWorkers /\ wtask[w] \in Tasks
    BY <1>5 DEF WorkerSend, HoldingWorkers, TypeInv, TasksInHand
  <2>2. HeldApart' /\ Held' = Held \ {wtask[w]} /\ wtask[w] \in Held
    BY <1>5, <2>1, HeldGives DEF WorkerSend
  <2>3. Elements(channel') = Elements(channel) \cup {wtask[w]} /\ Distinct(channel')
    BY <1>5, <2>1, <2>2, AppendElements DEF WorkerSend, Apart
  <2>4. UNCHANGED <<pending, results, model_counts>> /\ MainHeld' = MainHeld
    BY <1>5 DEF WorkerSend, MainHeld
  <2>5. PlaceInv'
    BY <2>2, <2>3, <2>4 DEF Apart
  <2> QED BY <2>2, <2>3, <2>4, <2>5 DEF Moves, Keeps, InFlight
<1>6. CASE WorkerCancelled(w)
  <2>1. /\ UNCHANGED <<pending, channel, results>> /\ MainHeld' = MainHeld /\ cancelled'
        /\ wtask' = [wtask EXCEPT ![w] = None] /\ wpc' = [wpc EXCEPT ![w] = "done"]
    BY <1>6 DEF WorkerCancelled, MainHeld
  <2>2. HeldApart' /\ Held' \subseteq Held
    <3>1. CASE wpc[w] = "idle"
      <4>1. HoldingWorkers' = HoldingWorkers /\ w \notin HoldingWorkers
        BY <2>1, <3>1, HoldingSame DEF HoldingWorkers
      <4>2. \A v \in HoldingWorkers : wtask'[v] = wtask[v]
        BY <2>1, <4>1 DEF HoldingWorkers, TypeInv, TypeOK
      <4> QED BY <4>1, <4>2 DEF HeldApart, Held
    <3>2. CASE wpc[w] = "sending"
      <4>1. w \in HoldingWorkers
        BY <3>2 DEF HoldingWorkers
      <4> QED BY <2>1, <4>1, HeldGives
    <3> QED BY <1>6, <3>1, <3>2 DEF WorkerCancelled
  <2>3. PlaceInv'
    BY <2>1, <2>2 DEF Apart
  <2> QED BY <2>1, <2>3 DEF Moves
<1> QED BY <1>1, <1>2, <1>3, <1>4, <1>5, <1>6 DEF Worker, Finish

LEMMA MovesStep ==
  ASSUME TypeInv, PlaceInv, [Next]_vars
  PROVE  PlaceInv' /\ Moves
<1>1. CASE Cancel \/ UNCHANGED vars
  <2>1. /\ UNCHANGED <<pending, channel, results, model_counts>> /\ MainHeld' = MainHeld
        /\ HeldApart' = HeldApart /\ Held' = Held
    BY <1>1 DEF Cancel, vars, workerVars, mainVars, MainHeld, HeldApart, Held, HoldingWorkers
  <2> QED BY <2>1 DEF PlaceInv, Moves, Keeps, InFlight
<1> QED BY <1>1, MovesMain, MovesWorker DEF Next

LEMMA PlaceInit == Init => PlaceInv
<1> SUFFICES ASSUME Init PROVE PlaceInv
  OBVIOUS
<1>1. /\ Elements(channel) = {} /\ Elements(results) = {} /\ MainHeld = {}
      /\ Distinct(channel) /\ Distinct(results)
  BY DEF Init, Elements, Distinct, MainHeld
<1>2. HoldingWorkers = {} /\ Held = {}
  BY DEF Init, HoldingWorkers, Held
<1> QED BY <1>1, <1>2 DEF PlaceInv, Apart, HeldApart

LEMMA PlaceInvariant == Spec => [](TypeInv /\ PlaceInv)
<1>1. Init => TypeInv /\ PlaceInv
  BY TypeInit, PlaceInit
<1>2. TypeInv /\ PlaceInv /\ [Next]_vars => TypeInv' /\ PlaceInv'
  BY TypeStep, MovesStep
<1> QED BY <1>1, <1>2, PTL DEF Spec

LEMMA PlaceImplies == PlaceInv => NoTaskTwice
BY DEF PlaceInv, Distinct, HeldApart, Apart, Elements, ChannelTasks, Finished, NoTaskTwice

(* Main and the workers, in whatever order they pick, send, receive and    *)
(* finish, never have a task in two places: none is run twice, and no log  *)
(* is returned twice.                                                      *)
THEOREM NoTaskTwiceCorrect == Spec => []NoTaskTwice
BY PlaceInvariant, PlaceImplies, PTL

-----------------------------------------------------------------------------
(* model_counts *)

LEMMA NotCancelledBefore == [Next]_vars /\ cancelled => cancelled'
BY DEF Next, Main, Worker, Finish, vars, MainPick, MainPickNone, MainSend, MainBodyEnds,
       MainReturn, Receive, EndOfStream, FinishBreak, FinishPick, FinishIdle, FinishClose,
       WorkerSend, WorkerCancelled, Cancel, workerVars, mainVars

UsesOf(m, flying) == Cardinality({t \in flying : ModelOf[t] = m})

LEMMA UsesNat ==
  ASSUME NEW flying \in SUBSET Tasks, NEW m
  PROVE  IsFiniteSet({t \in flying : ModelOf[t] = m}) /\ UsesOf(m, flying) \in Nat
<1>1. IsFiniteSet(Tasks)
  BY FS_Interval, SchedulerAssumption DEF Tasks
<1>2. IsFiniteSet({t \in flying : ModelOf[t] = m})
  BY <1>1, FS_Subset
<1> QED BY <1>2, FS_CardinalityType DEF UsesOf

LEMMA UsesAdded ==
  ASSUME NEW flying \in SUBSET Tasks, NEW t \in Tasks, t \notin flying, NEW m
  PROVE  UsesOf(m, flying \cup {t}) = UsesOf(m, flying) + (IF ModelOf[t] = m THEN 1 ELSE 0)
<1> DEFINE Use == {u \in flying : ModelOf[u] = m}
<1>1. IsFiniteSet(Use) /\ t \notin Use
  BY UsesNat
<1>2. CASE ModelOf[t] = m
  <2>1. {u \in flying \cup {t} : ModelOf[u] = m} = Use \cup {t}
    BY <1>2
  <2> QED BY <1>1, <1>2, <2>1, FS_AddElement DEF UsesOf
<1>3. CASE ModelOf[t] # m
  <2>1. {u \in flying \cup {t} : ModelOf[u] = m} = Use
    BY <1>3
  <2>2. UsesOf(m, flying \cup {t}) = UsesOf(m, flying)
    BY <2>1 DEF UsesOf
  <2>3. UsesOf(m, flying) \in Nat
    BY UsesNat
  <2> QED BY <1>3, <2>2, <2>3
<1> QED BY <1>2, <1>3

LEMMA UsesRemoved ==
  ASSUME NEW flying \in SUBSET Tasks, NEW t \in flying, NEW m
  PROVE  UsesOf(m, flying \ {t}) = UsesOf(m, flying) - (IF ModelOf[t] = m THEN 1 ELSE 0)
<1>1. (flying \ {t}) \cup {t} = flying /\ flying \ {t} \in SUBSET Tasks
  OBVIOUS
<1>2. UsesOf(m, flying) = UsesOf(m, flying \ {t}) + (IF ModelOf[t] = m THEN 1 ELSE 0)
  BY <1>1, UsesAdded
<1>3. UsesOf(m, flying \ {t}) \in Nat
  BY <1>1, UsesNat
<1> QED BY <1>2, <1>3

Counted(counts, flying) == \A m \in Models : counts[m] = UsesOf(m, flying)

LEMMA CountedAdded ==
  ASSUME NEW counts \in [Models -> Int], NEW flying \in SUBSET Tasks, Counted(counts, flying),
         NEW t \in Tasks, t \notin flying
  PROVE  Counted([counts EXCEPT ![ModelOf[t]] = @ + 1], flying \cup {t})
BY UsesAdded, UsesNat DEF Counted

LEMMA CountedRemoved ==
  ASSUME NEW counts \in [Models -> Int], NEW flying \in SUBSET Tasks, Counted(counts, flying),
         NEW t \in flying
  PROVE  Counted([counts EXCEPT ![ModelOf[t]] = @ - 1], flying \ {t})
BY UsesRemoved, UsesNat DEF Counted

UsesInv == ~cancelled => Counted(model_counts, InFlight)

LEMMA UsesStep ==
  ASSUME TypeInv, PlaceInv, UsesInv, [Next]_vars
  PROVE  UsesInv'
<1> SUFFICES ASSUME ~cancelled' PROVE Counted(model_counts', InFlight')
  BY DEF UsesInv
<1>1. /\ Counted(model_counts, InFlight) /\ InFlight \in SUBSET Tasks
      /\ model_counts \in [Models -> Int] /\ pending \cap InFlight = {}
  BY NotCancelledBefore, PlaceTypes DEF UsesInv, InFlight, TypeInv, TypeOK, PlaceInv, Apart
<1>2. Keeps \/ (\E t \in Tasks : Picks(t) \/ Ends(t)) \/ (\E t, u \in Tasks : EndsAndPicks(t, u))
  BY MovesStep DEF Moves
<1>3. CASE Keeps
  BY <1>1, <1>3 DEF Keeps
<1>4. ASSUME NEW t \in Tasks, Picks(t) PROVE Counted(model_counts', InFlight')
  BY <1>1, <1>4, CountedAdded DEF Picks
<1>5. ASSUME NEW t \in Tasks, Ends(t) PROVE Counted(model_counts', InFlight')
  BY <1>1, <1>5, CountedRemoved DEF Ends
<1>6. ASSUME NEW t \in Tasks, NEW u \in Tasks, EndsAndPicks(t, u)
      PROVE  Counted(model_counts', InFlight')
  <2> DEFINE freed == [model_counts EXCEPT ![ModelOf[t]] = @ - 1]
  <2>1. /\ t \in InFlight /\ u \in pending /\ InFlight' = (InFlight \ {t}) \cup {u}
        /\ model_counts' = [freed EXCEPT ![ModelOf[u]] = @ + 1]
    BY <1>6 DEF EndsAndPicks
  <2>2. Counted(freed, InFlight \ {t})
    BY <1>1, <2>1, CountedRemoved
  <2>3. freed \in [Models -> Int]
    BY <1>1, SchedulerAssumption
  <2>4. InFlight \ {t} \in SUBSET Tasks /\ u \notin InFlight \ {t}
    BY <1>1, <2>1
  <2> HIDE DEF freed
  <2> QED BY <2>1, <2>2, <2>3, <2>4, CountedAdded
<1> QED BY <1>2, <1>3, <1>4, <1>5, <1>6

LEMMA UsesInvariant == Spec => []UsesInv
<1>1. Init => UsesInv
  <2> SUFFICES ASSUME Init PROVE Counted(model_counts, InFlight)
    BY DEF UsesInv
  <2>1. InFlight = {}
    BY DEF Init, InFlight, MainHeld, Elements, Held, HoldingWorkers
  <2>2. \A m \in Models : {t \in InFlight : ModelOf[t] = m} = {}
    BY <2>1
  <2>3. \A m \in Models : UsesOf(m, InFlight) = 0
    BY <2>2, FS_EmptySet DEF UsesOf
  <2> QED BY <2>3 DEF Init, Counted
<1>2. TypeInv /\ PlaceInv /\ UsesInv /\ [Next]_vars => UsesInv'
  BY UsesStep
<1> QED BY <1>1, <1>2, PlaceInvariant, PTL DEF Spec

LEMMA UsesImplies == UsesInv => CountsExact
BY DEF UsesInv, Counted, UsesOf, InFlight, Elements, ChannelTasks, CountsExact

(* Until a cancellation, the count by which main and the workers choose    *)
(* the next model is the number of that model's tasks in flight.           *)
THEOREM CountsCorrect == Spec => []CountsExact
BY UsesInvariant, UsesImplies, PTL

-----------------------------------------------------------------------------
(* The end of the run *)

Everywhere == ~cancelled => pending \cup InFlight \cup Elements(results) = Tasks

LEMMA EverywhereStep ==
  ASSUME ~FinalWriteMayFail, TypeInv, PlaceInv, Everywhere, [Next]_vars
  PROVE  Everywhere'
<1> SUFFICES ASSUME ~cancelled'
             PROVE  pending' \cup InFlight' \cup Elements(results') = Tasks
  BY DEF Everywhere
<1>1. pending \cup InFlight \cup Elements(results) = Tasks
  BY NotCancelledBefore DEF Everywhere
<1>2. Keeps \/ (\E t \in Tasks : Picks(t) \/ Ends(t)) \/ (\E t, u \in Tasks : EndsAndPicks(t, u))
  BY MovesStep DEF Moves
<1> QED BY <1>1, <1>2 DEF Keeps, Picks, Ends, EndsAndPicks

(* The stream ends, and a worker leaves, only once all tasks are complete. *)
LeavesAtEnd ==
  /\ mpc = "done" => closed
  /\ ~cancelled /\ (closed \/ \E w \in Workers : wpc[w] = "done") => completed = NumTasks

LEMMA LeavesStep ==
  ASSUME ~FinalWriteMayFail, CountInv, LeavesAtEnd, [Next]_vars
  PROVE  LeavesAtEnd'
<1> USE DEF workerVars, mainVars
<1>1. mpc' = "done" => closed'
  BY DEF LeavesAtEnd, Next, Main, Worker, Finish, vars, MainPick, MainPickNone, MainSend,
         MainBodyEnds, MainReturn, Receive, EndOfStream, FinishBreak, FinishPick, FinishIdle,
         FinishClose, WorkerSend, WorkerCancelled, Cancel
<1> DEFINE Left == closed \/ \E w \in Workers : wpc[w] = "done"
<1> SUFFICES ASSUME ~cancelled', Left' PROVE completed' = NumTasks
  BY <1>1 DEF LeavesAtEnd
<1>2. ~cancelled /\ (Left => completed = NumTasks)
  BY NotCancelledBefore DEF LeavesAtEnd
<1>3. wpc \in [Workers -> {"idle", "running", "sending", "done"}] /\ 1 \in Workers
  <2>1. NumWorkers \in Nat /\ NumWorkers >= 1
    BY SchedulerAssumption DEF NumWorkers
  <2> QED BY <2>1 DEF CountInv, TypeInv, TypeOK, Workers
<1>4. CASE Left /\ UNCHANGED completed
  BY <1>2, <1>4
<1>5. CASE MainPick \/ MainPickNone \/ MainSend \/ MainBodyEnds \/ Cancel \/ UNCHANGED vars
  <2>1. Left /\ UNCHANGED completed
    BY <1>5 DEF MainPick, MainPickNone, MainSend, MainBodyEnds, Cancel, vars
  <2> QED BY <1>4, <2>1
<1>6. CASE MainReturn
  <2>1. Left /\ UNCHANGED completed
    BY <1>3, <1>6 DEF MainReturn
  <2> QED BY <1>4, <2>1
<1>7. ASSUME NEW w \in Workers, Receive(w) \/ WorkerSend(w)
      PROVE  completed' = NumTasks
  <2>1. /\ UNCHANGED <<completed, closed>>
        /\ \E pc \in {"idle", "running"} : wpc' = [wpc EXCEPT ![w] = pc]
    BY <1>7 DEF Receive, WorkerSend
  <2>2. Left
    BY <1>3, <2>1
  <2> QED BY <1>4, <2>1, <2>2
<1>8. ASSUME NEW w \in Workers, EndOfStream(w) PROVE completed' = NumTasks
  BY <1>4, <1>8 DEF EndOfStream
<1>9. ASSUME NEW w \in Workers, FinishBreak(w) \/ WorkerCancelled(w) PROVE FALSE
  BY <1>2, <1>9 DEF FinishBreak, TaskEnds, Outcomes, WorkerCancelled
<1>10. ASSUME NEW w \in Workers, FinishPick(w) \/ FinishIdle(w) PROVE completed' = NumTasks
  <2>1. /\ UNCHANGED closed /\ wpc[w] = "running"
        /\ \E pc \in {"idle", "sending"} : wpc' = [wpc EXCEPT ![w] = pc]
    BY <1>10 DEF FinishPick, FinishIdle, TaskEnds
  <2>2. Left
    BY <1>3, <2>1
  <2>3. Cardinality(HoldingWorkers) \in Nat \ {0}
    BY <2>1, SetsFinite, FS_EmptySet DEF HoldingWorkers, CountInv
  <2>4. completed < NumTasks
    BY <1>2, <2>3, SetsFinite, MainHeldCardinality, SchedulerAssumption
       DEF CountInv, TasksAccounted, TypeInv, TypeOK
  <2> QED BY <1>2, <2>2, <2>4, SchedulerAssumption
<1>11. ASSUME NEW w \in Workers, FinishClose(w) PROVE completed' = NumTasks
  BY <1>11 DEF FinishClose
<1> QED BY <1>5, <1>6, <1>7, <1>8, <1>9, <1>10, <1>11 DEF Next, Main, Worker, Finish

ReturnInv == CountInv /\ PlaceInv /\ Everywhere /\ LeavesAtEnd

LEMMA ReturnImplies == ReturnInv => AllTasksReturned
<1> SUFFICES ASSUME ReturnInv, mpc = "done", ~cancelled PROVE Finished = Tasks
  BY DEF AllTasksReturned
<1>1. completed = NumTasks /\ MainHeld = {}
  BY DEF ReturnInv, LeavesAtEnd, MainHeld
<1>2. /\ channel \in Seq(Tasks) /\ Cardinality(pending) \in Nat /\ IsFiniteSet(pending)
      /\ Cardinality(HoldingWorkers) \in Nat /\ IsFiniteSet(HoldingWorkers)
  BY SetsFinite DEF ReturnInv, CountInv, TypeInv, TypeOK
<1>3. Cardinality(pending) = 0 /\ Cardinality(HoldingWorkers) = 0 /\ Len(channel) = 0
  BY <1>1, <1>2, FS_EmptySet, SchedulerAssumption DEF ReturnInv, CountInv, TasksAccounted
<1>4. pending = {} /\ HoldingWorkers = {} /\ channel = <<>>
  BY <1>2, <1>3, FS_EmptySet
<1>5. InFlight = {}
  BY <1>1, <1>4 DEF InFlight, Held, Elements
<1> QED BY <1>4, <1>5 DEF ReturnInv, Everywhere, Finished, Elements

(* If every log can be written: whatever main and the workers do between   *)
(* two awaits of one another, no task is run twice or lost, model_counts   *)
(* is what is in flight, and the caller gets the log of every task.        *)
THEOREM BookkeepingCorrect == ~FinalWriteMayFail => (Spec => []Bookkeeping)
<1> SUFFICES ASSUME ~FinalWriteMayFail PROVE Spec => []Bookkeeping
  OBVIOUS
<1>1. Init => Everywhere /\ LeavesAtEnd
  <2>1. Init => InFlight = {} /\ Elements(results) = {}
    BY DEF Init, InFlight, MainHeld, Held, HoldingWorkers, Elements
  <2> QED BY <2>1 DEF Init, Everywhere, LeavesAtEnd
<1>2. ReturnInv /\ [Next]_vars => ReturnInv'
  BY CountStep, MovesStep, EverywhereStep, LeavesStep DEF ReturnInv, CountInv
<1>3. Spec => []ReturnInv
  BY <1>1, <1>2, CountInit, PlaceInit, PTL DEF Spec, ReturnInv
<1> QED BY <1>3, UsesInvariant, UsesImplies, ReturnImplies, PlaceImplies, PTL
        DEF Bookkeeping, ReturnInv
=============================================================================
