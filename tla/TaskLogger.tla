----------------------------- MODULE TaskLogger -----------------------------
(***************************************************************************)
(* How the samples of a running task get into its .eval log: the           *)
(* TaskLogger (_eval/task/log.py), which decides when to flush and when    *)
(* the realtime buffer may forget a sample, over the ZipLogFile of the     *)
(* EvalRecorder (log/_recorders/eval.py), which collects samples in        *)
(* memory, writes them to a local zip and copies that to the log file; and *)
(* the end of the task (task_run() in _eval/task/run.py), which finishes   *)
(* the log, again when the first attempt was interrupted.                  *)
(*                                                                         *)
(* Samples are coroutines of one event loop.  Every operation of the       *)
(* ZipLogFile holds a lock and may yield only to acquire it, so an action  *)
(* is such an operation with what its caller does until the next.  Only    *)
(* the flush is two: it truncates the log file and then writes it, and     *)
(* while no other coroutine can run in between, the write may fail, the    *)
(* process may die there, and a reader may come.                           *)
(***************************************************************************)
EXTENDS Naturals, Sequences, FiniteSets

CONSTANTS
  Samples,
  Reused,      \* those taken over from an earlier log instead of being run
  FlushBuffer, \* how many samples to collect before a flush
  Faults       \* what may go wrong, see AllFaults

(* cancel: the eval is cancelled while samples run.  cancel_finish: ...    *)
(* while the log is being finished.  storage: the log file can not be      *)
(* written.  crash: the process dies.                                      *)
AllFaults == {"cancel", "cancel_finish", "storage", "crash"}

ASSUME TaskLoggerAssumption ==
  /\ Reused \subseteq Samples
  /\ FlushBuffer \in Nat \ {0}
  /\ Faults \subseteq AllFaults

VARIABLES
  spc,       \* each sample: new | running | writing | flushing | rewriting | done | failed
             \*   | cancelled
  pending,   \* flush_pending
  buffered,  \* the samples in the realtime buffer
  collected, \* ZipLogFile._samples
  summaries, \* ZipLogFile._summaries
  zip,       \* the local zip: its entries
  logFile,   \* the log file: those at the last flush
  intact,    \* is the log file a zip that can be read?
  tracked,   \* does the recorder know the log (EvalRecorder.data)?
  tpc,       \* task_run(): running | cancelling | finishing | header | flushing | rewriting
             \*   | closing | closed | ended | raised | dead, or cut if it died rewriting the log
  status     \* the status to finish the log with

sampleVars == <<spc, pending, buffered>>
zipVars == <<collected, summaries, zip>>
fileVars == <<logFile, intact>>
taskVars == <<tracked, tpc, status>>
vars == <<sampleVars, zipVars, fileVars, taskVars>>

Statuses == {"success", "cancelled", "error"}
Ended == {"ended", "raised", "dead", "cut"}

(* The samples, the files of the journal (none is empty), summaries.json   *)
(* if any, and the status in header.json if any                            *)
Entries == [samples : SUBSET Samples, journal : Seq((SUBSET Samples) \ {{}}),
            summaries : {<<>>} \cup {<<S>> : S \in SUBSET Samples},
            header : {"none"} \cup Statuses]

TypeOK ==
  /\ spc \in [Samples -> {"new", "running", "writing", "flushing", "rewriting", "done", "failed",
                         "cancelled"}]
  /\ pending \subseteq Samples /\ buffered \subseteq Samples
  /\ collected \subseteq Samples /\ summaries \subseteq Samples
  /\ zip \in Entries /\ logFile \in Entries
  /\ intact \in BOOLEAN /\ tracked \in BOOLEAN
  /\ tpc \in {"running", "cancelling", "finishing", "header", "flushing", "rewriting", "closing",
             "closed"} \cup Ended
  /\ status \in Statuses

(* log_start() has written the start of the log and flushed it. *)
NoEntries == [samples |-> {}, journal |-> <<>>, summaries |-> <<>>, header |-> "none"]

Init ==
  /\ spc = [s \in Samples |-> "new"]
  /\ pending = {} /\ buffered = {}
  /\ collected = {} /\ summaries = {}
  /\ zip = NoEntries /\ logFile = NoEntries
  /\ intact = TRUE /\ tracked = TRUE
  /\ tpc = "running" /\ status = "success"

-----------------------------------------------------------------------------
(* The ZipLogFile *)

Collect(s) ==
  /\ collected' = collected \cup {s}
  /\ UNCHANGED <<summaries, zip>>

WriteCollected_Kept == \* mutant: the samples written are not cleared
  /\ UNCHANGED collected
  /\ summaries' = summaries \cup collected
  /\ zip' = [zip EXCEPT !.samples = @ \cup collected,
                        !.journal = IF collected = {} THEN @ ELSE Append(@, collected)]

(* write_buffered_samples(): their summaries make one file of the journal. *)
WriteCollected ==
  /\ collected' = {}
  /\ summaries' = summaries \cup collected
  /\ zip' = [zip EXCEPT !.samples = @ \cup collected,
                        !.journal = IF collected = {} THEN @ ELSE Append(@, collected)]

(* flush() opens the log file, which truncates it, ... *)
Truncate ==
  /\ logFile' = NoEntries /\ intact' = FALSE
  /\ UNCHANGED zipVars

(* ... and writes it anew, from all of the zip. *)
Flush ==
  /\ logFile' = zip /\ intact' = TRUE
  /\ UNCHANGED zipVars

-----------------------------------------------------------------------------
(* A sample *)

Sampling == tpc \in {"running", "cancelling"}

(* Opening and writing the file does not yield, so no other coroutine runs. *)
Rewriting == \E s \in Samples : spc[s] = "rewriting"
Runs(s, stage) == ~Rewriting /\ spc[s] = stage

StartSample(s) ==
  /\ tpc = "running" /\ Runs(s, "new") /\ s \notin Reused
  /\ spc' = [spc EXCEPT ![s] = "running"]
  /\ buffered' = buffered \cup {s}
  /\ UNCHANGED <<pending, zipVars, fileVars, taskVars>>

(* complete_sample(flush=False) *)
ReuseSample(s) ==
  /\ tpc = "running" /\ Runs(s, "new") /\ s \in Reused
  /\ Collect(s)
  /\ spc' = [spc EXCEPT ![s] = "done"]
  /\ UNCHANGED <<pending, buffered, fileVars, taskVars>>

FlushDue_Over(P) == Cardinality(P) > FlushBuffer \* mutant: off by one

FlushDue(P) == Cardinality(P) >= FlushBuffer

(* complete_sample(flush=True), up to the first await after log_sample()   *)
LogSample(s) ==
  /\ Sampling /\ Runs(s, "running")
  /\ Collect(s)
  /\ pending' = pending \cup {s}
  /\ spc' = [spc EXCEPT ![s] = IF FlushDue(pending') THEN "writing" ELSE "done"]
  /\ UNCHANGED <<buffered, fileVars, taskVars>>

WriteSamples(s) ==
  /\ Sampling /\ Runs(s, "writing")
  /\ WriteCollected
  /\ spc' = [spc EXCEPT ![s] = "flushing"]
  /\ UNCHANGED <<pending, buffered, fileVars, taskVars>>

Removed_All == Samples \* mutant: the buffer forgets every sample

(* What the buffer is told to remove after a flush *)
Removed == pending

OpenLog(s) ==
  /\ Sampling /\ Runs(s, "flushing")
  /\ Truncate
  /\ spc' = [spc EXCEPT ![s] = "rewriting"]
  /\ UNCHANGED <<pending, buffered, taskVars>>

FlushSamples(s) ==
  /\ Sampling /\ spc[s] = "rewriting"
  /\ Flush
  /\ buffered' = buffered \ Removed
  /\ pending' = {}
  /\ spc' = [spc EXCEPT ![s] = "done"]
  /\ UNCHANGED taskVars

FlushFails_Swallowed(s) == \* mutant: a failed write is not an error of the sample
  /\ "storage" \in Faults
  /\ Sampling /\ spc[s] = "rewriting"
  /\ spc' = [spc EXCEPT ![s] = "done"]
  /\ UNCHANGED <<pending, buffered, zipVars, fileVars, taskVars>>

(* The log file can not be opened, which leaves it as it is, or not be     *)
(* written, which leaves it cut: the error leaves the sample, and the task *)
(* group cancels the others.                                               *)
FlushFails(s) ==
  /\ "storage" \in Faults
  /\ Sampling
  /\ Runs(s, "flushing") \/ spc[s] = "rewriting"
  /\ spc' = [spc EXCEPT ![s] = "failed"]
  /\ tpc' = "cancelling" /\ status' = "error"
  /\ UNCHANGED <<pending, buffered, zipVars, fileVars, tracked>>

(* A cancelled sample that was running is not logged. *)
CancelSample(s) ==
  /\ tpc = "cancelling" /\ ~Rewriting /\ spc[s] \in {"new", "running", "writing", "flushing"}
  /\ spc' = [spc EXCEPT ![s] = "cancelled"]
  /\ UNCHANGED <<pending, buffered, zipVars, fileVars, taskVars>>

-----------------------------------------------------------------------------
(* The task *)

Cancel ==
  /\ "cancel" \in Faults
  /\ tpc = "running" /\ ~Rewriting
  /\ tpc' = "cancelling" /\ status' = "cancelled"
  /\ UNCHANGED <<sampleVars, zipVars, fileVars, tracked>>

Finish ==
  /\ Sampling
  /\ \A s \in Samples : spc[s] \in {"done", "failed", "cancelled"}
  /\ tpc' = "finishing"
  /\ UNCHANGED <<sampleVars, zipVars, fileVars, tracked, status>>

FinishSamples_Skipped == \* mutant: log_finish() does not write the samples collected
  /\ tpc = "finishing"
  /\ tpc' = "header"
  /\ UNCHANGED <<sampleVars, zipVars, fileVars, tracked, status>>

(* log_finish() *)
FinishSamples ==
  /\ tpc = "finishing"
  /\ WriteCollected
  /\ tpc' = "header"
  /\ UNCHANGED <<sampleVars, fileVars, tracked, status>>

FinishHeader ==
  /\ tpc = "header"
  /\ zip' = [zip EXCEPT !.summaries = <<summaries>>, !.header = status]
  /\ tracked' = FALSE
  /\ tpc' = "flushing"
  /\ UNCHANGED <<sampleVars, collected, summaries, fileVars, status>>

FinishOpen ==
  /\ tpc = "flushing"
  /\ Truncate
  /\ tpc' = "rewriting"
  /\ UNCHANGED <<sampleVars, tracked, status>>

FinishFlush ==
  /\ tpc = "rewriting"
  /\ Flush
  /\ tpc' = "closing"
  /\ UNCHANGED <<sampleVars, tracked, status>>

(* close(), and the buffer is removed. *)
Close ==
  /\ tpc = "closing"
  /\ buffered' = {}
  /\ tpc' = "closed"
  /\ UNCHANGED <<spc, pending, zipVars, fileVars, tracked, status>>

(* emit_task_end() *)
End ==
  /\ tpc = "closed"
  /\ tpc' = "ended"
  /\ UNCHANGED <<sampleVars, zipVars, fileVars, tracked, status>>

(* The handlers of task_run() finish the log once more; log_finish()       *)
(* raises a KeyError if the log is not tracked any more, and nothing       *)
(* handles an error of a handler.                                          *)
Again(newStatus) ==
  /\ IF status = "success" /\ tracked
     THEN tpc' = "finishing" /\ status' = newStatus
     ELSE tpc' = "raised" /\ UNCHANGED status
  /\ UNCHANGED <<sampleVars, zipVars, fileVars, tracked>>

(* A cancellation shows at the next await; a cancelled eval finishes its   *)
(* log in a shielded scope.                                                *)
CancelFinish ==
  /\ "cancel_finish" \in Faults
  /\ tpc \in {"finishing", "header", "flushing", "closing", "closed"}
  /\ status # "cancelled"
  /\ Again("cancelled")

(* The file can not be opened, or not be written. *)
FinishFails ==
  /\ "storage" \in Faults
  /\ tpc \in {"flushing", "rewriting"}
  /\ Again("error")

Crash ==
  /\ "crash" \in Faults
  /\ tpc \notin Ended
  /\ tpc' = IF Rewriting \/ tpc = "rewriting" THEN "cut" ELSE "dead"
  /\ UNCHANGED <<sampleVars, zipVars, fileVars, tracked, status>>

-----------------------------------------------------------------------------
Sample(s) == \/ StartSample(s) \/ ReuseSample(s) \/ LogSample(s) \/ WriteSamples(s)
             \/ OpenLog(s) \/ FlushSamples(s) \/ FlushFails(s) \/ CancelSample(s)

Task == FinishSamples \/ FinishHeader \/ FinishOpen \/ FinishFlush \/ Close \/ End \/ FinishFails

Next ==
  \/ \E s \in Samples : Sample(s)
  \/ Finish
  \/ Task
  \/ Cancel \/ CancelFinish \/ Crash

Spec == Init /\ [][Next]_vars

(* Samples end, and the event loop runs every coroutine that can go on. *)
FairSpec == Spec /\ WF_vars(Finish) /\ WF_vars(Task) /\ \A s \in Samples : WF_vars(Sample(s))

-----------------------------------------------------------------------------
(* Properties *)

Disjoint(journal) ==
  \A i, j \in DOMAIN journal : i # j => journal[i] \cap journal[j] = {}
Journalled(entries) == UNION {entries.journal[i] : i \in DOMAIN entries.journal}

(* Each sample in a log has its summary in exactly one file of the         *)
(* journal, however the flushes of concurrent samples interleave, and the  *)
(* list for summaries.json has the same samples.                           *)
JournalMatches ==
  /\ \A entries \in {zip, logFile} : Disjoint(entries.journal) /\ Journalled(entries) = entries.samples
  /\ summaries = zip.samples

(* Three lists of the samples written so far, kept by different coroutines,*)
(* agree after every step.                                                 *)
ListsAgree == TypeOK /\ JournalMatches

(* No sample is on its way into the log file. *)
Quiet ==
  tpc = "running" /\ \A s \in Samples : spc[s] \notin {"writing", "flushing", "rewriting"}

(* "flush to disk [...] notify the event db it can remove these": when nobody flushes, a sample *)
(* that was run can be read: it is in the log file, or else still in the realtime buffer.      *)
QuietServed ==
  Quiet =>
    \A s \in Samples \ Reused : spc[s] \in {"running", "done"} => s \in logFile.samples \cup buffered

(* A running sample is in the realtime buffer, whatever other samples'     *)
(* flushes make the buffer forget.  Once nobody flushes, the log file has  *)
(* all that was written, every sample logged is there or waits in memory   *)
(* for the next flush, and no flush is overdue.                            *)
BetweenFlushes ==
  /\ \A s \in Samples : spc[s] = "running" => s \in buffered
  /\ Quiet =>
       /\ intact /\ logFile = zip
       /\ \A s \in Samples : spc[s] = "done" => s \in logFile.samples \cup collected
       /\ Cardinality(pending) < FlushBuffer

(* The log of a task that ends is complete: all samples that were logged,  *)
(* a summary of each, and the status; and the buffer is gone.              *)
EndedComplete ==
  tpc = "ended" =>
    /\ {s \in Samples : spc[s] \in {"done", "failed"}} \subseteq logFile.samples
    /\ intact /\ logFile.summaries = <<logFile.samples>> /\ logFile.header = status
    /\ buffered = {}

(* A sample that was logged gets into the log file, even if the eval is    *)
(* cancelled or a write fails before its flush, or while others are being  *)
(* flushed; unless the process dies, or the log cannot be finished.        *)
LoggedEventually ==
  \A s \in Samples : spc[s] = "done" ~> s \in logFile.samples \/ tpc \in {"raised", "dead", "cut"}

ReadSummaries_Shorter(entries) == \* mutant: the files of the journal end one earlier
  IF entries.summaries # <<>> THEN entries.summaries[1]
  ELSE UNION {entries.journal[i] : i \in 1..(Len(entries.journal) - 2)}

(* What read_log_sample_summaries() returns: the journal is read to its last file but one. *)
ReadSummaries(entries) ==
  IF entries.summaries # <<>> THEN entries.summaries[1]
  ELSE UNION {entries.journal[i] : i \in 1..(Len(entries.journal) - 1)}

(* Of a log that is not finished, running or left by a crash, the summaries of one flush are   *)
(* missing at most, the latest; none is of a sample the log has not, and in the end none is    *)
(* missing.  A log that cannot be read at all is one that is being rewritten, or whose rewrite *)
(* was cut short: the process died in it, or the write failed, and then that write was the     *)
(* last one of the task or an error that the task ends with, which rewrites the log again.     *)
SummariesLackOneFlush ==
  LET missing == logFile.samples \ ReadSummaries(logFile)
  IN IF intact
     THEN /\ ReadSummaries(logFile) \subseteq logFile.samples
          /\ IF logFile.summaries # <<>> \/ logFile.journal = <<>> THEN missing = {}
             ELSE missing = logFile.journal[Len(logFile.journal)]
     ELSE \/ Rewriting \/ tpc \in {"rewriting", "cut", "raised"}
          \/ /\ \E s \in Samples : spc[s] = "failed"
             /\ tpc \in {"cancelling", "finishing", "header", "flushing", "dead"}
=============================================================================
