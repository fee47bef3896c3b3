---------------------------- MODULE TaskScheduler ----------------------------
(***************************************************************************)
(* run_multiple() of _eval/run.py: several logical tasks, each bound to a  *)
(* model, are run by a fixed pool of worker coroutines.  A shared memory   *)
(* channel carries tasks to the workers; whoever puts a task there (the    *)
(* main coroutine at the start, afterwards the worker that just finished a *)
(* task) picks one of the model that is least in use.                      *)
(*                                                                         *)
(* The coroutines interleave at their awaits only: an action is what one   *)
(* of them does between two awaits.                                        *)
(***************************************************************************)
EXTENDS Integers, Sequences, FiniteSets

CONSTANTS
  NumTasks,          \* tasks are numbered 1..NumTasks, in the order they were given
  Models,            \* the models under evaluation
  ModelOf,           \* the model of each task
  Parallel,          \* max_tasks: how many tasks may run at once
  FinalWriteMayFail, \* may the final write of a task's log raise?
  None               \* no task

Tasks == 1..NumTasks

ASSUME SchedulerAssumption ==
  /\ NumTasks \in Nat \ {0}
  /\ ModelOf \in [Tasks -> Models]
  /\ Parallel \in Nat \ {0, 1}       \* run() calls run_single() otherwise
  /\ FinalWriteMayFail \in BOOLEAN
  /\ None \notin Tasks

NumWorkers == IF Parallel < NumTasks THEN Parallel ELSE NumTasks
Workers == 1..NumWorkers
ChannelSize == 2 * Parallel

VARIABLES
  pending,      \* pending_tasks: not yet picked
  model_counts, \* per model, the tasks picked and not yet finished
  channel,      \* the memory object stream
  closed,       \* has the sending end been closed?
  completed,    \* tasks_completed
  results,      \* the tasks whose log was returned, in order of completion
  wpc,          \* where each worker is: idle | running | sending | done
  wtask,        \* the task the worker runs or is about to send
  mpc,          \* where main is: starting | sending | joining | done
  mtask,        \* the task main is about to send
  starts,       \* how many of the initial tasks main has still to enqueue
  cancelled     \* has the surrounding scope been cancelled?

workerVars == <<wpc, wtask>>
mainVars == <<mpc, mtask, starts>>
vars == <<pending, model_counts, channel, closed, completed, results,
          workerVars, mainVars, cancelled>>

TypeOK ==
  /\ pending \subseteq Tasks
  /\ model_counts \in [Models -> Int]
  /\ channel \in Seq(Tasks)
  /\ closed \in BOOLEAN
  /\ completed \in Nat
  /\ results \in Seq(Tasks)
  /\ wpc \in [Workers -> {"idle", "running", "sending", "done"}]
  /\ wtask \in [Workers -> Tasks \cup {None}]
  /\ mpc \in {"starting", "sending", "joining", "done"}
  /\ mtask \in Tasks \cup {None}
  /\ starts \in Nat
  /\ cancelled \in BOOLEAN

Init ==
  /\ pending = Tasks
  /\ model_counts = [m \in Models |-> 0]
  /\ channel = <<>>
  /\ closed = FALSE
  /\ completed = 0
  /\ results = <<>>
  /\ wpc = [w \in Workers |-> "idle"]
  /\ wtask = [w \in Workers |-> None]
  /\ mpc = "starting"
  /\ mtask = None
  /\ starts = NumWorkers
  /\ cancelled = FALSE

-----------------------------------------------------------------------------
(* enque_next_task(), up to its send *)

PendingModels == {ModelOf[t] : t \in pending}

(* A model with pending tasks and the least use; min() over a set of names *)
(* breaks a tie in no particular order.                                    *)
LeastUsed_Any(m, counts) == m \in PendingModels \* mutant: any pending model

LeastUsed(m, counts) ==
  /\ m \in PendingModels
  /\ \A n \in PendingModels : counts[m] <= counts[n]

PendingAfter_Kept(t) == pending \* mutant: the picked task stays pending

PendingAfter(t) == pending \ {t}

(* Take the first pending task t of a least used model. *)
Pick(t, counts) ==
  /\ t \in pending
  /\ LeastUsed(ModelOf[t], counts)
  /\ \A u \in pending : ModelOf[u] = ModelOf[t] => t <= u
  /\ pending' = PendingAfter(t)
  /\ model_counts' = [counts EXCEPT ![ModelOf[t]] = @ + 1]

-----------------------------------------------------------------------------
(* The main coroutine *)

StartsAfter_Same == starts     \* mutant: the initial loop does not count
StartsAfter_Two  == starts - 2 \* mutant: it counts twice

StartsAfter == starts - 1

MainPick ==
  /\ mpc = "starting" /\ starts > 0
  /\ completed < NumTasks
  /\ \E t \in pending : /\ Pick(t, model_counts)
                        /\ mtask' = t
  /\ mpc' = "sending"
  /\ UNCHANGED <<channel, closed, completed, results, workerVars, starts, cancelled>>

(* enque_next_task() returns False: all completed or nothing pending *)
MainPickNone ==
  /\ mpc = "starting" /\ starts > 0
  /\ completed >= NumTasks \/ pending = {}
  /\ starts' = StartsAfter
  /\ UNCHANGED <<pending, model_counts, channel, closed, completed, results,
                 workerVars, mpc, mtask, cancelled>>

MainSend ==
  /\ mpc = "sending" /\ ~cancelled
  /\ Len(channel) < ChannelSize
  /\ channel' = Append(channel, mtask)
  /\ mpc' = "starting" /\ mtask' = None
  /\ starts' = StartsAfter
  /\ UNCHANGED <<pending, model_counts, closed, completed, results, workerVars, cancelled>>

(* The task group's body ends, or a cancellation interrupts it. *)
MainBodyEnds ==
  /\ \/ mpc = "starting" /\ starts = 0
     \/ mpc \in {"starting", "sending"} /\ cancelled
  /\ mpc' = "joining" /\ mtask' = None
  /\ UNCHANGED <<pending, model_counts, channel, closed, completed, results,
                 workerVars, starts, cancelled>>

(* The task group exits once every worker has; only then does the finally  *)
(* clause close the channel.                                               *)
MainReturn ==
  /\ mpc = "joining"
  /\ \A w \in Workers : wpc[w] = "done"
  /\ closed' = TRUE
  /\ mpc' = "done"
  /\ UNCHANGED <<pending, model_counts, channel, completed, results, workerVars,
                 mtask, starts, cancelled>>

-----------------------------------------------------------------------------
(* A worker *)

Receive(w) ==
  /\ wpc[w] = "idle" /\ channel # <<>>
  /\ wtask' = [wtask EXCEPT ![w] = Head(channel)]
  /\ channel' = Tail(channel)
  /\ wpc' = [wpc EXCEPT ![w] = "running"]
  /\ UNCHANGED <<pending, model_counts, closed, completed, results, mainVars, cancelled>>

(* The channel is closed and drained: the async for ends. *)
EndOfStream(w) ==
  /\ wpc[w] = "idle" /\ channel = <<>> /\ closed
  /\ wpc' = [wpc EXCEPT ![w] = "done"]
  /\ UNCHANGED <<pending, model_counts, channel, closed, completed, results, wtask,
                 mainVars, cancelled>>

(* What task_run() comes to: a log, a log whose status is "cancelled", or  *)
(* no log because an exception escaped from the task's finalisation.       *)
Outcomes == {"logged"} \cup (IF cancelled THEN {"cancelled"} ELSE {})
                       \cup (IF FinalWriteMayFail THEN {"nolog"} ELSE {})

CountsAfter_Kept(w) == model_counts \* mutant: an ended task stays counted

CountsAfter(w) == [model_counts EXCEPT ![ModelOf[wtask[w]]] = @ - 1]

\* mutant: the result replaces those of the tasks that ended before
TaskEnds_Overwrites(w, outcome) ==
  /\ wpc[w] = "running"
  /\ outcome \in Outcomes
  /\ results' = IF outcome = "nolog" THEN results ELSE <<wtask[w]>>
  /\ completed' = completed + 1

(* The task ends: the result is stored, and the task no longer counted. *)
TaskEnds(w, outcome) ==
  /\ wpc[w] = "running"
  /\ outcome \in Outcomes
  /\ results' = IF outcome = "nolog" THEN results ELSE Append(results, wtask[w])
  /\ completed' = completed + 1

(* No log, or a cancelled one: the worker leaves its loop at once. *)
FinishBreak(w) ==
  /\ \E outcome \in {"nolog", "cancelled"} : TaskEnds(w, outcome)
  /\ model_counts' = CountsAfter(w)
  /\ wpc' = [wpc EXCEPT ![w] = "done"]
  /\ wtask' = [wtask EXCEPT ![w] = None]
  /\ UNCHANGED <<pending, channel, closed, mainVars, cancelled>>

(* More tasks to process: the worker picks the next one to enqueue. *)
FinishPick(w) ==
  /\ TaskEnds(w, "logged")
  /\ completed' < NumTasks
  /\ \E t \in pending : /\ Pick(t, CountsAfter(w))
                        /\ wtask' = [wtask EXCEPT ![w] = t]
  /\ wpc' = [wpc EXCEPT ![w] = "sending"]
  /\ UNCHANGED <<channel, closed, mainVars, cancelled>>

(* Others are still running, and nothing is pending. *)
FinishIdle(w) ==
  /\ TaskEnds(w, "logged")
  /\ completed' < NumTasks
  /\ pending = {}
  /\ model_counts' = CountsAfter(w)
  /\ wpc' = [wpc EXCEPT ![w] = "idle"]
  /\ wtask' = [wtask EXCEPT ![w] = None]
  /\ UNCHANGED <<pending, channel, closed, mainVars, cancelled>>

\* mutant: the last task to complete does not close the stream
FinishClose_LeftOpen(w) ==
  /\ TaskEnds(w, "logged")
  /\ completed' = NumTasks
  /\ model_counts' = CountsAfter(w)
  /\ wpc' = [wpc EXCEPT ![w] = "idle"]
  /\ wtask' = [wtask EXCEPT ![w] = None]
  /\ UNCHANGED <<pending, channel, closed, mainVars, cancelled>>

(* All tasks are complete: close the stream, which releases idle workers. *)
FinishClose(w) ==
  /\ TaskEnds(w, "logged")
  /\ completed' = NumTasks
  /\ closed' = TRUE
  /\ model_counts' = CountsAfter(w)
  /\ wpc' = [wpc EXCEPT ![w] = "idle"]
  /\ wtask' = [wtask EXCEPT ![w] = None]
  /\ UNCHANGED <<pending, channel, mainVars, cancelled>>

WorkerSend(w) ==
  /\ wpc[w] = "sending" /\ ~cancelled
  /\ Len(channel) < ChannelSize
  /\ channel' = Append(channel, wtask[w])
  /\ wpc' = [wpc EXCEPT ![w] = "idle"]
  /\ wtask' = [wtask EXCEPT ![w] = None]
  /\ UNCHANGED <<pending, model_counts, closed, completed, results, mainVars, cancelled>>

(* A cancelled scope interrupts a worker that waits to receive or to send; *)
(* a task it was about to send is dropped.                                 *)
WorkerCancelled(w) ==
  /\ cancelled
  /\ wpc[w] \in {"idle", "sending"}
  /\ wpc' = [wpc EXCEPT ![w] = "done"]
  /\ wtask' = [wtask EXCEPT ![w] = None]
  /\ UNCHANGED <<pending, model_counts, channel, closed, completed, results, mainVars, cancelled>>

(* The user interrupts the evaluation. *)
Cancel ==
  /\ ~cancelled /\ mpc # "done"
  /\ cancelled' = TRUE
  /\ UNCHANGED <<pending, model_counts, channel, closed, completed, results,
                 workerVars, mainVars>>

Main == MainPick \/ MainPickNone \/ MainSend \/ MainBodyEnds \/ MainReturn

Finish(w) == FinishBreak(w) \/ FinishPick(w) \/ FinishIdle(w) \/ FinishClose(w)

Worker(w) == \/ Receive(w) \/ EndOfStream(w) \/ Finish(w)
             \/ WorkerSend(w) \/ WorkerCancelled(w)

Next == Main \/ (\E w \in Workers : Worker(w)) \/ Cancel

Spec == Init /\ [][Next]_vars

(* The event loop runs every coroutine that is ready, and a task_run ends: *)
(* Finish is part of Worker.                                               *)
FairSpec == Spec /\ WF_vars(Main) /\ \A w \in Workers : WF_vars(Worker(w))

-----------------------------------------------------------------------------
(* Properties *)

ChannelTasks == {channel[i] : i \in DOMAIN channel}
HoldingWorkers == {w \in Workers : wpc[w] \in {"running", "sending"}}
Held == {wtask[w] : w \in HoldingWorkers}
MainHeld == IF mpc = "sending" THEN {mtask} ELSE {}
Finished == {results[i] : i \in DOMAIN results}

(* A task is in one place only: waiting, picked by main, in the channel,   *)
(* with one worker, or among the results.  No task is run twice, whoever   *)
(* of main and the workers picked it and in whatever order they did.       *)
NoTaskTwice ==
  /\ \A i, j \in DOMAIN channel : channel[i] = channel[j] => i = j
  /\ \A i, j \in DOMAIN results : results[i] = results[j] => i = j
  /\ \A v, w \in HoldingWorkers : wtask[v] = wtask[w] => v = w
  /\ pending \cap (MainHeld \cup ChannelTasks \cup Held \cup Finished) = {}
  /\ MainHeld \cap (ChannelTasks \cup Held \cup Finished) = {}
  /\ ChannelTasks \cap (Held \cup Finished) = {}
  /\ Held \cap Finished = {}

(* Until a cancellation every task is accounted for: tasks_completed, the  *)
(* counter that decides whether to enqueue or to close the stream, is      *)
(* exactly the number of tasks that are nowhere else.                      *)
TasksAccounted ==
  ~cancelled =>
    completed = NumTasks - Cardinality(pending) - Len(channel)
                  - Cardinality(HoldingWorkers) - Cardinality(MainHeld)

(* model_counts, updated by main and by all workers, is the number of      *)
(* tasks of each model in flight.                                          *)
CountsExact ==
  ~cancelled =>
    \A m \in Models :
      model_counts[m] = Cardinality({t \in MainHeld \cup ChannelTasks \cup Held : ModelOf[t] = m})

(* "find a task that keeps as many different models as possible running    *)
(* concurrently": a model that still has pending tasks is never two tasks  *)
(* behind any other model, however unevenly the tasks finish.              *)
Balanced ==
  cancelled \/ FinalWriteMayFail \/
    \A m \in PendingModels : \A n \in Models : model_counts[n] <= model_counts[m] + 1

(* A send never has to wait for room in the channel (each worker, main and *)
(* the channel together hold at most one task per worker), so a worker     *)
(* that offers a task cannot be stuck while all others wait for one.       *)
InFlightBounded ==
  Len(channel) + Cardinality(HoldingWorkers) + Cardinality(MainHeld) <= NumWorkers

(* Once all tasks are complete, a worker that waits on the stream can      *)
(* leave: "all tasks are complete, close the stream".                      *)
NoStrandedWorker ==
  (completed = NumTasks /\ ~cancelled) =>
    (closed \/ \A w \in Workers : wpc[w] # "idle")

(* run_multiple() returns, and unless it was cancelled it returns the log  *)
(* of every task.                                                          *)
Returns == <>(mpc = "done")
AllTasksReturned == (mpc = "done" /\ ~cancelled) => Finished = Tasks

(* Whatever main and the workers do between two awaits of one another, no   *)
(* task is run twice or lost, model_counts is what is in flight, and the    *)
(* caller gets the log of every task.                                       *)
Bookkeeping == NoTaskTwice /\ CountsExact /\ AllTasksReturned
=============================================================================
