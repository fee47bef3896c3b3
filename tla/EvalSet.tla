------------------------------- MODULE EvalSet -------------------------------
(***************************************************************************)
(* eval_set(), _eval/evalset.py, around a task whose samples SampleRun     *)
(* describes.  An invocation makes passes over the tasks of the set until  *)
(* all have succeeded: those without a log run first; then those whose     *)
(* latest log is not a complete success are retried from it, and older     *)
(* logs are removed.  A pass ends with its tasks, by an interrupt or by a  *)
(* crash; the set may be invoked again on what is in the log directory.    *)
(*                                                                         *)
(* `other` stands for the other tasks of the set, which run in the same    *)
(* passes and of which only the latest log matters.                        *)
(***************************************************************************)
EXTENDS SampleRun

CONSTANTS
  MaxAttempts,   \* retry_attempts: passes of one invocation
  MaxInvocations \* bounds the invocations

ASSUME EvalSetAssumption == {MaxAttempts, MaxInvocations} \subseteq Nat \ {0}

VARIABLES
  stage,       \* idle | between | pass | cancelling | success | failure | interrupted
  attempts,    \* passes begun by this invocation
  invocations,
  active,      \* of {"task", "other"}, what still runs in this pass
  logs,        \* the logs of the task, the one written last at the end
  other,       \* latest log of the other tasks: none | success | failed (or started)
  everLogged   \* history: samples that some log has held without an error

setVars == <<stage, attempts, invocations, active, logs, other, everLogged>>
vars == <<sampleVars, setVars>>

Log == [status : {"started", "success", "error", "cancelled"}, results : BOOLEAN,
        done : SUBSET Samples, errors : SUBSET Samples]
Over == {"idle", "success", "failure", "interrupted"}

SetTypeOK ==
  /\ TypeOK
  /\ stage \in Over \cup {"between", "pass", "cancelling"}
  /\ attempts \in 0..MaxAttempts /\ invocations \in 0..MaxInvocations
  /\ active \subseteq {"task", "other"}
  /\ logs \in Seq(Log) /\ everLogged \subseteq Samples
  /\ other \in {"none", "success", "failed"}

SetInit ==
  /\ Init
  /\ stage = "idle" /\ attempts = 0 /\ invocations = 0
  /\ active = {} /\ logs = <<>> /\ other = "none" /\ everLogged = {}

-----------------------------------------------------------------------------
(* The logs *)

(* The logs that stay of the first i: the latest, and those merely started, for a post-mortem. *)
kept[i \in 0..Len(logs)] ==
  IF i = 0 THEN <<>>
  ELSE IF i = Len(logs) \/ logs[i].status = "started" THEN Append(kept[i - 1], logs[i])
  ELSE kept[i - 1]

Cleaned_Oldest == \* mutant: keeps the log at the wrong end of the order
  IF logs = <<>> THEN <<>>
  ELSE <<Head(logs)>> \o SelectSeq(Tail(logs), LAMBDA l : l.status = "started")

Cleaned == kept[Len(logs)]

(* list_latest_eval_logs(): a success without results is to be retried too *)
TaskComplete == Last(logs).status = "success" /\ Last(logs).results

Succeeded_Task == logs # <<>> /\ Last(logs).status = "success" \* mutant: of one task only

(* all_evals_succeeded() of the latest logs, with or without results *)
Succeeded == logs # <<>> /\ Last(logs).status = "success" /\ other = "success"

AddLog(log) ==
  /\ logs' = Append(logs, log)
  /\ everLogged' = everLogged \cup log.done

-----------------------------------------------------------------------------
(* The passes *)

Invoke ==
  /\ stage \in Over /\ invocations < MaxInvocations
  /\ stage' = "between" /\ attempts' = 0 /\ invocations' = invocations + 1
  /\ UNCHANGED <<sampleVars, active, logs, other, everLogged>>

Pending ==
  (IF logs = <<>> THEN {"task"} ELSE {}) \cup (IF other = "none" THEN {"other"} ELSE {})

Incomplete ==
  (IF TaskComplete THEN {} ELSE {"task"}) \cup (IF other = "success" THEN {} ELSE {"other"})

SampleSource_First == IF logs = <<>> THEN {} ELSE Head(logs).done \* mutant: retries the oldest log

(* eval_log_sample_source(): none for a task without a log *)
SampleSource == IF logs = <<>> THEN {} ELSE Last(logs).done

(* A new process or a new run of the task: no sample has begun. *)
Restart(source) ==
  /\ reused' = source
  /\ pc' = [s \in Samples |-> "new"]
  /\ left' = [s \in Samples |-> config.retry_on_error]
  /\ queue' = <<>> /\ free' = MaxSamples
  /\ error' = {} /\ raising' = {} /\ error_count' = 0
  /\ events' = [s \in Samples |-> {}]
  /\ logged' = [s \in Samples |-> 0] /\ log_error' = {}
  /\ result' = [s \in Samples |-> "none"]
  /\ causes' = {} /\ status' = "started"
  /\ UNCHANGED config

(* run_eval() of some of the tasks *)
Pass(tasks) ==
  /\ stage' = "pass" /\ attempts' = attempts + 1
  /\ active' = tasks
  /\ IF "task" \in tasks THEN Restart(SampleSource) ELSE UNCHANGED sampleVars
  /\ UNCHANGED <<invocations, other, everLogged>>

(* Tasks without a log go first, whatever became of the others. *)
FirstPass ==
  /\ stage = "between" /\ Pending # {}
  /\ Pass(Pending)
  /\ UNCHANGED logs

RetryPass ==
  /\ stage = "between" /\ Pending = {} /\ Incomplete # {}
  /\ Pass(Incomplete)
  /\ logs' = Cleaned

NothingToDo ==
  /\ stage = "between" /\ Pending = {} /\ Incomplete = {}
  /\ stage' = "success" /\ logs' = Cleaned
  /\ UNCHANGED <<sampleVars, attempts, invocations, active, other, everLogged>>

-----------------------------------------------------------------------------
(* In a pass *)

TaskRuns == "task" \in active /\ (\E s \in Samples : Step(s)) /\ UNCHANGED setVars

(* The log gets results only if the task was not cut short. *)
TaskEnds ==
  /\ "task" \in active /\ FinishTask
  /\ active' = active \ {"task"}
  /\ AddLog([status |-> status', done |-> Clean, errors |-> log_error,
             results |-> causes = {} /\ \E s \in Samples : result[s] = "scores"])
  /\ UNCHANGED <<stage, attempts, invocations, other>>

(* Nothing depends on it before the task has ended, except a crash. *)
OtherEnds ==
  /\ active = {"other"}
  /\ other' \in IF stage = "pass" THEN {"success", "failed"} ELSE {"failed"}
  /\ active' = active \ {"other"}
  /\ UNCHANGED <<sampleVars, stage, attempts, invocations, logs, everLogged>>

Interrupt ==
  /\ stage = "pass" /\ "task" \in active /\ UserCancels
  /\ stage' = "cancelling"
  /\ UNCHANGED <<attempts, invocations, active, logs, other, everLogged>>

(* The process ends: a log that has been started holds what had been flushed, see TaskLogger;
   a task that waits for a slot of the scheduler has no log yet. *)
Crash ==
  /\ stage \in {"between", "pass", "cancelling"}
  /\ stage' = "idle" /\ active' = {}
  /\ \/ /\ "task" \in active
        /\ \E D \in SUBSET Clean : AddLog([status |-> "started", results |-> FALSE, done |-> D, errors |-> {}])
     \/ /\ "task" \in active => \A s \in Samples : pc[s] = "new"
        /\ UNCHANGED <<logs, everLogged>>
  /\ other' \in IF "other" \in active THEN {other, "failed", "success"} ELSE {other}
  /\ Restart({})
  /\ UNCHANGED <<attempts, invocations>>

Outcome ==
  IF stage = "cancelling" THEN "interrupted"
  ELSE IF Succeeded THEN "success"
  ELSE IF attempts = MaxAttempts THEN "failure" ELSE "between"

(* The invocation ends with a last sweep of the logs, unless it is interrupted. *)
EndPass ==
  /\ stage \in {"pass", "cancelling"} /\ active = {}
  /\ stage' = Outcome
  /\ logs' = IF stage' \in {"success", "failure"} THEN Cleaned ELSE logs
  /\ UNCHANGED <<sampleVars, attempts, invocations, active, other, everLogged>>

SetRuns ==
  FirstPass \/ RetryPass \/ NothingToDo \/ TaskRuns \/ TaskEnds \/ OtherEnds \/ EndPass

SetNext == Invoke \/ SetRuns \/ Interrupt \/ Crash

(* An invocation goes on until it ends; nobody has to invoke it. *)
SetSpec == SetInit /\ [][SetNext]_vars /\ WF_vars(SetRuns)

-----------------------------------------------------------------------------
(* Properties *)

(* When a set reports success, the latest log of every task is a success that the tolerance
   allows, however often its passes were cut short before. *)
SuccessIsWhole ==
  stage = "success" =>
    /\ other = "success" /\ Last(logs).status = "success"
    /\ ~ShouldFail(Cardinality(Last(logs).errors), Cardinality(Samples), config.fail_on_error)
    /\ Last(logs).done \cap Last(logs).errors = {}

(* No work is repeated in a retry: a sample that the latest log holds complete is not run. *)
NotRunAgain ==
  "task" \in active /\ logs # <<>> =>
    \A s \in Last(logs).done : pc[s] \notin Working \cup {"queued"} /\ result[s] # "failed"

(* After an invocation that came to its end one log of the task is left besides those that
   crashes left behind, and none of these is later: the failed ones before it are gone. *)
OneLogLeft ==
  stage \in {"success", "failure"} =>
    \A i \in 1..Len(logs) - 1 : logs[i].status = "started"

(* However passes were cut short, what the log directory holds in the end is the truth. *)
DirectoryTrue == SuccessIsWhole /\ OneLogLeft

(* Slots and logs are consistent at every step of a pass. *)
PassConsistent == SetTypeOK /\ SlotsConserved

(* An invocation always ends, by itself or by a crash: no pass waits for ever for a sample. *)
SetEnds == stage \notin Over ~> stage \in Over

(* A sample that a log has held complete is in some log of the directory: retries and clean-up
   repeat no work. *)
SamplesPreserved ==
  \A s \in everLogged : \E i \in DOMAIN logs : s \in logs[i].done
=============================================================================
