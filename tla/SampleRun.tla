------------------------------ MODULE SampleRun ------------------------------
(***************************************************************************)
(* The samples of a task, _eval/task/run.py with _eval/task/error.py: they *)
(* run concurrently in one task group, at most MaxSamples at a time.  Each *)
(* is taken from an earlier log, or waits for a slot, runs its solvers and *)
(* scorers in a sandbox, is logged, and gives its slot back.  An error may *)
(* be retried, from the back of the queue; what is not retried is counted, *)
(* and the error that reaches the threshold is raised, which cancels the   *)
(* other samples.                                                          *)
(***************************************************************************)
EXTENDS Naturals, Sequences, FiniteSets, SequencesExt

CONSTANTS
  Samples,        \* the samples of the task, one for each epoch
  Dataset,        \* len(task.dataset): before a limit, without epochs
  MaxSamples,     \* slots of the sample semaphore
  Earlier,        \* sets of samples, one of which an earlier log holds without an error
  EarlyStopping,  \* whether the task has an early stopping manager
  LoggerFails,    \* whether writes of the log may fail
  Configs         \* records of fail_on_error, continue_on_fail, retry_on_error

ASSUME SampleRunAssumption ==
  /\ IsFiniteSet(Samples) /\ Earlier \subseteq SUBSET Samples
  /\ Dataset \in Nat /\ MaxSamples \in Nat \ {0}
  /\ {EarlyStopping, LoggerFails} \subseteq BOOLEAN
  /\ \A c \in Configs :
       /\ c.continue_on_fail \in BOOLEAN /\ c.retry_on_error \in Nat
       /\ \/ c.fail_on_error.kind \in {"always", "never"}
          \/ c.fail_on_error.kind \in {"share", "count"} /\ c.fail_on_error.n \in Nat

VARIABLES
  config,      \* of this task
  reused,      \* samples that the log which is retried holds without an error
  pc,          \* of each sample, see Places
  left,        \* its retry_on_error, ticked down
  queue,       \* samples that wait for a slot
  free,        \* value of the semaphore
  error,       \* samples whose attempt has an error
  raising,     \* those whose error is to be raised
  error_count, \* of the SampleErrorHandler
  events,      \* attempts of a sample whose events the logger has
  logged,      \* how many times a sample was logged
  log_error,   \* samples logged with an error
  result,      \* of each sample: none | scores | stopped | failed
  causes,      \* what cancelled the task group: sample | hook (logger or callback) | user
  status       \* of the log: started | success | error | cancelled

attemptVars == <<error, raising>>
slotVars == <<queue, free>>
logVars == <<events, logged, log_error>>
sampleVars == <<config, reused, pc, left, slotVars, attemptVars, error_count, logVars, result, causes, status>>

Working == {"starting", "solving", "scoring", "teardown", "ending", "leaving"}
Places == Working \cup {"new", "queued", "done"}

TypeOK ==
  /\ config \in Configs /\ reused \subseteq Samples
  /\ pc \in [Samples -> Places] /\ left \in [Samples -> 0..config.retry_on_error]
  /\ queue \in Seq(Samples) /\ free \in 0..MaxSamples
  /\ raising \subseteq error /\ error \subseteq Samples
  /\ error_count \in 0..(2 * Cardinality(Samples))
  /\ events \in [Samples -> SUBSET (0..config.retry_on_error)]
  /\ logged \in [Samples -> 0..1] /\ log_error \subseteq Samples
  /\ result \in [Samples -> {"none", "scores", "stopped", "failed"}]
  /\ causes \subseteq {"sample", "hook", "user"}
  /\ status \in {"started", "success", "error", "cancelled"}

Init ==
  /\ config \in Configs /\ reused \in Earlier
  /\ pc = [s \in Samples |-> "new"]
  /\ left = [s \in Samples |-> config.retry_on_error]
  /\ queue = <<>> /\ free = MaxSamples
  /\ error = {} /\ raising = {} /\ error_count = 0
  /\ events = [s \in Samples |-> {}]
  /\ logged = [s \in Samples |-> 0] /\ log_error = {}
  /\ result = [s \in Samples |-> "none"]
  /\ causes = {} /\ status = "started"

-----------------------------------------------------------------------------
(* Errors *)

(* fail_on_error: TRUE and FALSE, a share 1/n of the samples, or a count of them *)
Always == [kind |-> "always"]
Never == [kind |-> "never"]
Share(n) == [kind |-> "share", n |-> n]
Count(n) == [kind |-> "count", n |-> n]

(* _should_eval_fail() *)
ShouldFail(count, total, fail) ==
  CASE fail.kind = "never"  -> FALSE
    [] fail.kind = "always" -> count > 0
    [] fail.kind = "share"  -> count * fail.n >= total
    [] fail.kind = "count"  -> count >= fail.n

(* What the handler of the task is given as fail_on_error *)
Tolerance == IF config.continue_on_fail THEN Never ELSE config.fail_on_error

HandleError_Configured(s) == \* mutant: continue_on_fail is not looked at
  /\ error' = error \cup {s}
  /\ error_count' = error_count + 1
  /\ raising' = IF ShouldFail(error_count', Dataset, config.fail_on_error)
                  THEN raising \cup {s} ELSE raising \ {s}

HandleError_Counted(s) == \* mutant: counts the errors that are retried
  /\ error' = error \cup {s}
  /\ error_count' = error_count + 1
  /\ raising' = IF ShouldFail(error_count', Dataset, Tolerance) THEN raising \cup {s} ELSE raising \ {s}

(* handle_error() of a sample and SampleErrorHandler.__call__(): an error that will be
   retried is not counted *)
HandleError(s) ==
  /\ error' = error \cup {s}
  /\ IF left[s] > 0
       THEN raising' = raising \ {s} /\ UNCHANGED error_count
       ELSE /\ error_count' = error_count + 1
            /\ raising' = IF ShouldFail(error_count', Dataset, Tolerance)
                            THEN raising \cup {s} ELSE raising \ {s}

Goto(s, place) == pc' = [pc EXCEPT ![s] = place]

(* The exception of sample s leaves its coroutine and cancels the task group *)
Raise(s, cause) ==
  /\ Goto(s, "done")
  /\ causes' = causes \cup {cause}

-----------------------------------------------------------------------------
(* Before a slot *)

(* sample_complete() with the scores of s; its early stopping hook may raise *)
Complete(s) ==
  \/ /\ result' = [result EXCEPT ![s] = "scores"]
     /\ Goto(s, "done")
     /\ UNCHANGED causes
  \/ EarlyStopping /\ Raise(s, "hook") /\ UNCHANGED result

Reuse_Unlogged(s) == \* mutant: its scores are returned, but it is not logged
  /\ pc[s] = "new" /\ s \in reused
  /\ \/ Complete(s)
     \/ LoggerFails /\ Raise(s, "hook") /\ UNCHANGED result
  /\ UNCHANGED <<config, reused, left, slotVars, attemptVars, error_count, logVars, status>>

(* The sample of the earlier log is logged again, without a flush *)
Reuse(s) ==
  /\ pc[s] = "new" /\ s \in reused
  /\ \/ logged' = [logged EXCEPT ![s] = @ + 1] /\ Complete(s)
     \/ LoggerFails /\ Raise(s, "hook") /\ UNCHANGED <<logged, result>>
  /\ UNCHANGED <<config, reused, left, slotVars, attemptVars, error_count, events, log_error, status>>

(* schedule_sample() of the early stopping manager: the sample is not to run *)
StopEarly(s) ==
  /\ EarlyStopping /\ pc[s] = "new" /\ s \notin reused
  /\ result' = [result EXCEPT ![s] = "stopped"]
  /\ Goto(s, "done")
  /\ UNCHANGED <<config, reused, left, slotVars, attemptVars, error_count, logVars, causes, status>>

(* The sample asks for a slot *)
Request(s) ==
  /\ pc[s] = "new" /\ s \notin reused
  /\ queue' = Append(queue, s)
  /\ Goto(s, "queued")
  /\ UNCHANGED <<config, reused, left, free, attemptVars, error_count, logVars, result, causes, status>>

(* The semaphore serves in the order of requests; the attempt logs its init event *)
Acquire(s) ==
  /\ queue # <<>> /\ s = Head(queue) /\ free > 0 /\ causes = {}
  /\ queue' = Tail(queue) /\ free' = free - 1
  /\ Goto(s, "starting")
  /\ events' = [events EXCEPT ![s] = @ \cup {left[s]}]
  /\ UNCHANGED <<config, reused, left, attemptVars, error_count, logged, log_error, result, causes, status>>

-----------------------------------------------------------------------------
(* With a slot: sandbox, solvers, scorers *)

Quiet == UNCHANGED <<config, reused, left, slotVars, logVars, result, causes, status>>

(* A phase of s ends without an error, or with one that takes it to `handler` *)
Phase(s, place, next, handler) ==
  /\ pc[s] = place
  /\ \/ Goto(s, next) /\ UNCHANGED <<attemptVars, error_count>>
     \/ Goto(s, handler) /\ HandleError(s)
  /\ Quiet

(* The sandbox is up; its errors are handled outside of it, so that nothing is scored *)
Start(s) == Phase(s, "starting", "solving", "ending")

(* The solvers end, by a limit or an operator too, or fail *)
Solve(s) == Phase(s, "solving", "scoring", "teardown")

(* The scorers end or fail; what the cleanup of the task raises is only logged *)
Score(s) == Phase(s, "scoring", "teardown", "teardown")

(* The sandbox goes away, or fails to, whether or not there was an error before *)
Teardown(s) == Phase(s, "teardown", "ending", "ending")

-----------------------------------------------------------------------------
(* The end of an attempt *)

Retrying(s) == s \in error /\ left[s] > 0

(* The context of the slot is left *)
Release == free' = free + 1 /\ UNCHANGED queue

(* A sample that will not be retried is logged, with its error if it has one *)
LogSample(s) ==
  /\ pc[s] = "ending"
  /\ \/ /\ Retrying(s)
        /\ Goto(s, "leaving") /\ UNCHANGED <<logged, log_error, slotVars, causes>>
     \/ /\ ~Retrying(s)
        /\ logged' = [logged EXCEPT ![s] = @ + 1]
        /\ log_error' = log_error \cup ({s} \cap error)
        /\ Goto(s, "leaving") /\ UNCHANGED <<slotVars, causes>>
     \/ /\ ~Retrying(s) /\ LoggerFails
        /\ Raise(s, "hook") /\ Release /\ UNCHANGED <<logged, log_error>>
  /\ UNCHANGED <<config, reused, left, attemptVars, error_count, events, result, status>>

Retry_Buffered(s) == \* mutant: the events of the failed attempt stay
  /\ pc[s] = "leaving" /\ Retrying(s)
  /\ Release
  /\ left' = [left EXCEPT ![s] = @ - 1]
  /\ error' = error \ {s} /\ raising' = raising \ {s}
  /\ Goto(s, "new")
  /\ UNCHANGED <<config, reused, error_count, events, logged, log_error, result, causes, status>>

Retry_Holding(s) == \* mutant: retries inside the context of the slot
  /\ pc[s] = "leaving" /\ Retrying(s)
  /\ events' = [events EXCEPT ![s] = {}]
  /\ left' = [left EXCEPT ![s] = @ - 1]
  /\ error' = error \ {s} /\ raising' = raising \ {s}
  /\ Goto(s, "new")
  /\ UNCHANGED <<config, reused, slotVars, error_count, logged, log_error, result, causes, status>>

(* The slot is given back and the sample starts again from its initial state *)
Retry(s) ==
  /\ pc[s] = "leaving" /\ Retrying(s)
  /\ Release
  /\ events' = [events EXCEPT ![s] = {}]
  /\ left' = [left EXCEPT ![s] = @ - 1]
  /\ error' = error \ {s} /\ raising' = raising \ {s}
  /\ Goto(s, "new")
  /\ UNCHANGED <<config, reused, error_count, logged, log_error, result, causes, status>>

Leave_Scores(s) == \* mutant: returns the scores of a sample whose sandbox failed last
  /\ pc[s] = "leaving" /\ ~Retrying(s)
  /\ Release
  /\ \/ s \notin raising /\ Complete(s)
     \/ s \in raising /\ Raise(s, "sample") /\ result' = [result EXCEPT ![s] = "failed"]
  /\ UNCHANGED <<config, reused, left, attemptVars, error_count, logVars, status>>

(* The slot is given back, and the scores or None are returned or the error raised *)
Leave(s) ==
  /\ pc[s] = "leaving" /\ ~Retrying(s)
  /\ Release
  /\ \/ s \notin error /\ Complete(s)
     \/ s \in raising /\ Raise(s, "sample") /\ result' = [result EXCEPT ![s] = "failed"]
     \/ /\ s \in error \ raising
        /\ Goto(s, "done") /\ result' = [result EXCEPT ![s] = "failed"] /\ UNCHANGED causes
  /\ UNCHANGED <<config, reused, left, attemptVars, error_count, logVars, status>>

-----------------------------------------------------------------------------
(* The task group *)

(* The task is cancelled from outside *)
UserCancels ==
  /\ status = "started" /\ "user" \notin causes
  /\ causes' = causes \cup {"user"}
  /\ UNCHANGED <<config, reused, pc, left, slotVars, attemptVars, error_count, logVars, result, status>>

(* A sample that waits for a slot stops waiting *)
LeaveQueue(s) ==
  IF pc[s] = "queued"
    THEN \E i \in DOMAIN queue : queue[i] = s /\ queue' = RemoveAt(queue, i)
    ELSE UNCHANGED queue

Cancelled_Holding(s) == \* mutant: a slot is lost by a cancellation
  /\ causes # {} /\ pc[s] # "done"
  /\ Goto(s, "done")
  /\ LeaveQueue(s)
  /\ UNCHANGED <<config, reused, left, free, attemptVars, error_count, logVars, result, causes, status>>

(* The cancellation reaches s at an await; until then it goes on *)
Cancelled(s) ==
  /\ causes # {} /\ pc[s] # "done"
  /\ Goto(s, "done")
  /\ LeaveQueue(s)
  /\ free' = IF pc[s] \in Working THEN free + 1 ELSE free
  /\ UNCHANGED <<config, reused, left, attemptVars, error_count, logVars, result, causes, status>>

Failed == {s \in Samples : result[s] = "failed"}

FinalStatus_Counted == \* mutant: as the handler saw it
  IF ShouldFail(error_count, Dataset, Tolerance) THEN "error" ELSE "success"

(* With all results: continue_on_fail does not count here *)
FinalStatus ==
  IF ShouldFail(Cardinality(Failed), Cardinality(Samples), config.fail_on_error)
    THEN "error" ELSE "success"

(* All samples have ended: the log is finished.  An exception has precedence over a
   cancellation from outside. *)
FinishTask ==
  /\ status = "started" /\ \A s \in Samples : pc[s] = "done"
  /\ status' = IF causes = {} THEN FinalStatus
               ELSE IF causes = {"user"} THEN "cancelled" ELSE "error"
  /\ UNCHANGED <<config, reused, pc, left, slotVars, attemptVars, error_count, logVars, result, causes>>

Step(s) ==
  \/ Reuse(s) \/ StopEarly(s) \/ Request(s) \/ Acquire(s)
  \/ Start(s) \/ Solve(s) \/ Score(s) \/ Teardown(s)
  \/ LogSample(s) \/ Retry(s) \/ Leave(s) \/ Cancelled(s)

Run == FinishTask \/ \E s \in Samples : Step(s)
Next == Run \/ UserCancels

(* The event loop goes on with what can go on; solvers, scorers and sandboxes end *)
Spec == Init /\ [][Next]_sampleVars /\ WF_sampleVars(Run)

-----------------------------------------------------------------------------
(* Properties *)

(* Samples that the log holds without an error *)
Clean == {s \in Samples : logged[s] > 0} \ log_error

Finished == status # "started" /\ causes = {}

(* Each sample that a finished task did not stop early is in its log exactly once, and with
   an error exactly if no scores of it went into the results. *)
LoggedOnce ==
  Finished => \A s \in Samples :
    /\ logged[s] = IF result[s] = "stopped" THEN 0 ELSE 1
    /\ result[s] # "none"
    /\ s \in log_error <=> result[s] = "failed"

(* What the log that is retried held complete is complete in the log of a finished retry. *)
CarriedOver == Finished => reused \subseteq Clean

(* A log says success only if the samples that it holds with an error are within the
   tolerance, over the samples that ran, and each of them is one whose retries are used up. *)
StatusTruthful ==
  status = "success" =>
    /\ causes = {}
    /\ ~ShouldFail(Cardinality(log_error), Cardinality(Samples), config.fail_on_error)
    /\ \A s \in log_error : left[s] = 0

(* While samples run, the others are stopped by an error exactly from the threshold on: never
   below it, with continue_on_fail never at all; and the error that reaches it is on its way
   up, whatever else happens to its sample, unless something has cancelled the samples before.
   The threshold is that of the code, "at least", where its documentation says "more than". *)
AtThreshold == ShouldFail(error_count, Dataset, Tolerance)
StoppedAtThreshold ==
  /\ "sample" \in causes => AtThreshold
  /\ error_count > 0 /\ AtThreshold => raising # {} \/ causes # {}

(* What is counted are the errors of last attempts, of each sample its own or that of its
   sandbox, or both: an error that a retry may make good is not, and no other is left out. *)
Erred == {s \in error : left[s] = 0}
LastAttemptsCounted ==
  Cardinality(Erred) <= error_count /\ error_count <= 2 * Cardinality(Erred)

(* Slots are held by the samples at work and by nobody else, and a sample waits in the queue
   once: neither errors, retries nor cancellations lose a slot. *)
SlotsConserved ==
  /\ free + Cardinality({s \in Samples : pc[s] \in Working}) = MaxSamples
  /\ \A s \in Samples : pc[s] = "queued" <=> \E i \in DOMAIN queue : queue[i] = s
  /\ Len(queue) = Cardinality({s \in Samples : pc[s] = "queued"})

(* The logger has events of one attempt of a sample at most: those of a failed attempt are
   removed before the next, also when early stopping prevents it. *)
EventsOfOneAttempt == \A s \in Samples : events[s] \subseteq {left[s]}

(* What errors, retries, early stopping and cancellations in any order leave in the logger is
   one attempt of each sample, of this run or of the earlier one. *)
SamplesLogged == LoggedOnce /\ CarriedOver /\ EventsOfOneAttempt

(* Which errors stop the samples that run, and which decide on the status at the end: the first
   are counted by error, the second by sample, so that a log may fail with fewer failed samples
   than it tolerates, but never succeeds with more. *)
ErrorsCounted == StatusTruthful /\ StoppedAtThreshold /\ LastAttemptsCounted
=============================================================================
