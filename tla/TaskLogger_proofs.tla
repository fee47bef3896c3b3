-------------------------- MODULE TaskLogger_proofs --------------------------
(* Theorems about TaskLogger, for any set of samples, size of a flush and  *)
(* faults.                                                                 *)
EXTENDS TaskLogger, FiniteSetTheorems, TLAPS

-----------------------------------------------------------------------------
(* The journal *)

AllOf(journal) == UNION {journal[i] : i \in DOMAIN journal}

(* One more file, of samples that are in none so far *)
LEMMA JournalAppended ==
  ASSUME NEW S, NEW journal \in Seq(S), NEW new \in S, Disjoint(journal),
         new \cap AllOf(journal) = {}
  PROVE  /\ Disjoint(Append(journal, new))
         /\ AllOf(Append(journal, new)) = AllOf(journal) \cup new
<1> DEFINE n == Len(journal)
           longer == Append(journal, new)
<1>1. /\ DOMAIN journal = 1..n /\ DOMAIN longer = 1..n + 1 /\ n \in Nat
      /\ \A i \in 1..n : longer[i] = journal[i]
      /\ longer[n + 1] = new
  OBVIOUS
<1>2. 1..n + 1 = (1..n) \cup {n + 1} /\ n + 1 \notin 1..n
  BY <1>1
<1> HIDE DEF n, longer
<1>3. AllOf(longer) = AllOf(journal) \cup new
  BY <1>1, <1>2 DEF AllOf
<1>4. \A i \in 1..n : journal[i] \cap new = {}
  BY <1>1 DEF AllOf
<1>5. Disjoint(longer)
  <2> SUFFICES ASSUME NEW i \in 1..n + 1, NEW j \in 1..n + 1, i # j
               PROVE  longer[i] \cap longer[j] = {}
    BY <1>1 DEF Disjoint
  <2>1. CASE i \in 1..n /\ j \in 1..n
    BY <1>1, <2>1 DEF Disjoint
  <2>2. CASE i = n + 1 /\ j \in 1..n
    BY <1>1, <1>4, <2>2
  <2>3. CASE i \in 1..n /\ j = n + 1
    BY <1>1, <1>4, <2>3
  <2> QED BY <1>2, <2>1, <2>2, <2>3
<1> QED BY <1>3, <1>5 DEF longer

(* What the journal has but its last file *)
LEMMA JournalLast ==
  ASSUME NEW S, NEW journal \in Seq(S), journal # <<>>, Disjoint(journal)
  PROVE  LET butLast == UNION {journal[i] : i \in 1..(Len(journal) - 1)}
         IN /\ butLast \subseteq AllOf(journal)
            /\ AllOf(journal) \ butLast = journal[Len(journal)]
<1> DEFINE n == Len(journal)
           butLast == UNION {journal[i] : i \in 1..(n - 1)}
<1>1. DOMAIN journal = 1..n /\ n \in Nat \ {0}
  OBVIOUS
<1>2. 1..n = (1..(n - 1)) \cup {n} /\ n \notin 1..(n - 1)
  BY <1>1
<1> HIDE DEF n
<1>3. AllOf(journal) = butLast \cup journal[n]
  BY <1>1, <1>2 DEF AllOf
<1>4. \A i \in 1..(n - 1) : journal[i] \cap journal[n] = {}
  BY <1>1, <1>2 DEF Disjoint
<1>5. butLast \cap journal[n] = {}
  BY <1>4
<1> QED BY <1>3, <1>5 DEF n

-----------------------------------------------------------------------------
(* Where the samples are *)

(* A log that can be read: its journal, and summaries.json, have a summary *)
(* of each of its samples.                                                 *)
Readable(entries) ==
  /\ Disjoint(entries.journal) /\ AllOf(entries.journal) = entries.samples
  /\ entries.summaries \in {<<>>, <<entries.samples>>}

Over == {"done", "failed", "cancelled"}

(* A sample that was logged is collected or written, one that was not is   *)
(* neither; and none is both.                                              *)
SamplesPlaced ==
  /\ collected \cap zip.samples = {}
  /\ \A s \in Samples :
       /\ spc[s] \in {"new", "running"} => s \notin collected \cup zip.samples \cup pending
       /\ spc[s] \in {"writing", "flushing", "rewriting", "done", "failed"} => s \in collected \cup zip.samples

(* How far the end of the task has come *)
Stages ==
  /\ tpc \notin {"running", "cancelling", "raised", "dead", "cut"} => \A s \in Samples : spc[s] \in Over
  /\ tpc \in {"running", "cancelling", "finishing", "header"} => zip.summaries = <<>>
  /\ tpc = "header" => collected = {}
  /\ tpc \in {"flushing", "rewriting", "closing", "closed", "ended"} =>
       collected = {} /\ ~tracked /\ zip.summaries = <<zip.samples>> /\ zip.header = status
  /\ tpc \in {"closing", "closed", "ended"} => intact /\ logFile = zip
  /\ tpc \in {"closed", "ended"} => buffered = {}

ListInv ==
  /\ TypeOK
  /\ Readable(zip) /\ Readable(logFile)
  /\ summaries = zip.samples
  /\ SamplesPlaced
  /\ Stages

LEMMA NothingYet ==
  /\ Readable(NoEntries) /\ NoEntries \in Entries
  /\ NoEntries.samples = {} /\ NoEntries.summaries = <<>>
BY DEF Readable, Disjoint, AllOf, NoEntries, Entries, Statuses

LEMMA ListInit == Init => ListInv
<1> SUFFICES ASSUME Init PROVE ListInv
  OBVIOUS
<1>1. TypeOK
  BY NothingYet DEF Init, TypeOK, Statuses
<1> QED BY <1>1, NothingYet DEF Init, ListInv, SamplesPlaced, Stages

(* What a write of the collected samples does to the zip *)
LEMMA WriteCollectedCorrect ==
  ASSUME ListInv, WriteCollected, zip.summaries = <<>>
  PROVE  /\ collected' = {} /\ zip' \in Entries /\ Readable(zip')
         /\ zip'.samples = zip.samples \cup collected /\ summaries' = zip'.samples
         /\ zip'.summaries = <<>>
<1>1. /\ collected \subseteq Samples /\ zip.samples \subseteq Samples
      /\ zip.journal \in Seq((SUBSET Samples) \ {{}}) /\ zip.header \in {"none"} \cup Statuses
      /\ Disjoint(zip.journal) /\ AllOf(zip.journal) = zip.samples
      /\ collected \cap zip.samples = {} /\ summaries = zip.samples
  BY DEF ListInv, TypeOK, Entries, Readable, SamplesPlaced
<1> DEFINE files == IF collected = {} THEN zip.journal ELSE Append(zip.journal, collected)
<1>2. /\ files \in Seq((SUBSET Samples) \ {{}})
      /\ Disjoint(files) /\ AllOf(files) = zip.samples \cup collected
  BY <1>1, JournalAppended
<1> HIDE DEF files
<1>3. zip' = [samples |-> zip.samples \cup collected, journal |-> files,
              summaries |-> <<>>, header |-> zip.header]
  <2>1. zip = [samples |-> zip.samples, journal |-> zip.journal,
               summaries |-> <<>>, header |-> zip.header]
    BY DEF ListInv, TypeOK, Entries
  <2>2. zip' = [zip EXCEPT !.samples = zip.samples \cup collected, !.journal = files]
    BY DEF WriteCollected, files
  <2> QED BY <2>1, <2>2
<1>4. zip' \in Entries
  BY <1>1, <1>2, <1>3 DEF Entries
<1>5. zip'.samples = zip.samples \cup collected /\ zip'.summaries = <<>> /\ zip'.journal = files
  BY <1>3
<1>6. Readable(zip')
  BY <1>2, <1>5 DEF Readable
<1> QED BY <1>1, <1>4, <1>5, <1>6 DEF WriteCollected

LEMMA SpcStep ==
  ASSUME ListInv, NEW s \in Samples, NEW pc, spc' = [spc EXCEPT ![s] = pc]
  PROVE  /\ spc'[s] = pc
         /\ \A u \in Samples : u # s => spc'[u] = spc[u]
BY DEF ListInv, TypeOK

LEMMA SampleListStep ==
  ASSUME ListInv, NEW s \in Samples, Sample(s)
  PROVE  ListInv'
<1> USE DEF sampleVars, zipVars, fileVars, taskVars, Sampling
<1>0. TypeOK /\ SamplesPlaced /\ Stages /\ Readable(zip) /\ Readable(logFile)
      /\ summaries = zip.samples
  BY DEF ListInv
<1>1. CASE StartSample(s)
  <2>1. UNCHANGED <<pending, zipVars, fileVars, taskVars>> /\ spc' = [spc EXCEPT ![s] = "running"]
        /\ spc[s] = "new" /\ tpc = "running" /\ buffered' \subseteq Samples
    BY <1>0, <1>1 DEF StartSample, Runs, TypeOK
  <2>2. TypeOK'
    BY <1>0, <2>1 DEF TypeOK
  <2>3. SamplesPlaced'
    BY <1>0, <2>1, SpcStep DEF SamplesPlaced
  <2>4. Stages'
    BY <1>0, <2>1 DEF Stages
  <2> QED BY <1>0, <2>1, <2>2, <2>3, <2>4 DEF ListInv
<1>2. CASE ReuseSample(s) \/ LogSample(s)
  <2>1. /\ tpc \in {"running", "cancelling"} /\ spc[s] \in {"new", "running"}
        /\ collected' = collected \cup {s} /\ UNCHANGED <<summaries, zip, buffered, fileVars, taskVars>>
        /\ pending' \subseteq pending \cup {s}
        /\ \E pc \in {"writing", "done"} : spc' = [spc EXCEPT ![s] = pc]
    BY <1>2 DEF ReuseSample, LogSample, Collect, Runs
  <2>2. TypeOK'
    BY <1>0, <2>1 DEF TypeOK
  <2>3. SamplesPlaced'
    BY <1>0, <2>1, SpcStep DEF SamplesPlaced
  <2>4. Stages'
    BY <1>0, <2>1 DEF Stages
  <2> QED BY <1>0, <2>1, <2>2, <2>3, <2>4 DEF ListInv
<1>3. CASE WriteSamples(s)
  <2>1. /\ tpc \in {"running", "cancelling"} /\ spc[s] = "writing" /\ WriteCollected
        /\ UNCHANGED <<pending, buffered, fileVars, taskVars>>
        /\ spc' = [spc EXCEPT ![s] = "flushing"]
    BY <1>3 DEF WriteSamples, Runs
  <2>2. /\ collected' = {} /\ zip' \in Entries /\ Readable(zip')
        /\ zip'.samples = zip.samples \cup collected /\ summaries' = zip'.samples
        /\ zip'.summaries = <<>>
    BY <1>0, <2>1, WriteCollectedCorrect DEF Stages
  <2>3. summaries' \subseteq Samples
    BY <1>0, <2>2 DEF TypeOK, Entries
  <2>4. TypeOK'
    BY <1>0, <2>1, <2>2, <2>3 DEF TypeOK
  <2>5. SamplesPlaced'
    BY <1>0, <2>1, <2>2, SpcStep DEF SamplesPlaced
  <2>6. Stages'
    BY <1>0, <2>1, <2>2 DEF Stages
  <2> QED BY <1>0, <2>1, <2>2, <2>4, <2>5, <2>6 DEF ListInv
<1>4. CASE OpenLog(s) \/ FlushSamples(s)
  <2>1. /\ tpc \in {"running", "cancelling"} /\ spc[s] \in {"flushing", "rewriting"}
        /\ logFile' \in {NoEntries, zip} /\ intact' \in BOOLEAN
        /\ pending' \subseteq pending /\ buffered' \subseteq buffered
        /\ UNCHANGED <<zipVars, taskVars>>
        /\ \E pc \in {"rewriting", "done"} : spc' = [spc EXCEPT ![s] = pc]
    BY <1>4 DEF OpenLog, FlushSamples, Truncate, Flush, Runs
  <2>2. TypeOK'
    BY <1>0, <2>1, NothingYet DEF TypeOK
  <2>3. SamplesPlaced'
    BY <1>0, <2>1, SpcStep DEF SamplesPlaced
  <2>4. Stages'
    BY <1>0, <2>1 DEF Stages
  <2> QED BY <1>0, <2>1, <2>2, <2>3, <2>4, NothingYet DEF ListInv
<1>5. CASE FlushFails(s) \/ CancelSample(s)
  <2>1. /\ tpc \in {"running", "cancelling"} /\ tpc' = "cancelling"
        /\ status' \in Statuses /\ UNCHANGED <<pending, buffered, zipVars, fileVars, tracked>>
        /\ \/ spc[s] \in {"flushing", "rewriting"} /\ spc' = [spc EXCEPT ![s] = "failed"]
           \/ spc' = [spc EXCEPT ![s] = "cancelled"]
    BY <1>0, <1>5 DEF FlushFails, CancelSample, Runs, TypeOK, Statuses
  <2>2. TypeOK'
    BY <1>0, <2>1 DEF TypeOK
  <2>3. SamplesPlaced'
    BY <1>0, <2>1, SpcStep DEF SamplesPlaced
  <2>4. Stages'
    BY <1>0, <2>1 DEF Stages
  <2> QED BY <1>0, <2>1, <2>2, <2>3, <2>4 DEF ListInv
<1> QED BY <1>1, <1>2, <1>3, <1>4, <1>5 DEF Sample

LEMMA TaskListStep ==
  ASSUME ListInv, Finish \/ Task \/ Cancel \/ CancelFinish \/ Crash
  PROVE  ListInv'
<1> USE DEF sampleVars, zipVars, fileVars, taskVars, Sampling
<1>0. TypeOK /\ SamplesPlaced /\ Stages /\ Readable(zip) /\ Readable(logFile)
      /\ summaries = zip.samples
  BY DEF ListInv
<1>1. CASE UNCHANGED <<sampleVars, zipVars, fileVars>> /\ TypeOK' /\ Stages'
  BY <1>0, <1>1 DEF ListInv, SamplesPlaced
<1>2. CASE Finish
  BY <1>0, <1>1, <1>2 DEF Finish, TypeOK, Stages, Over
<1>3. CASE FinishSamples
  <2>1. /\ tpc = "finishing" /\ tpc' = "header" /\ WriteCollected
        /\ UNCHANGED <<sampleVars, fileVars, tracked, status>>
    BY <1>3 DEF FinishSamples
  <2>2. /\ collected' = {} /\ zip' \in Entries /\ Readable(zip')
        /\ zip'.samples = zip.samples \cup collected /\ summaries' = zip'.samples
        /\ zip'.summaries = <<>>
    BY <1>0, <2>1, WriteCollectedCorrect DEF Stages
  <2>3. summaries' \subseteq Samples
    BY <1>0, <2>2 DEF TypeOK, Entries
  <2>4. TypeOK'
    BY <1>0, <2>1, <2>2, <2>3 DEF TypeOK
  <2>5. SamplesPlaced'
    BY <1>0, <2>1, <2>2 DEF SamplesPlaced
  <2>6. Stages'
    BY <1>0, <2>1, <2>2 DEF Stages
  <2> QED BY <1>0, <2>1, <2>2, <2>4, <2>5, <2>6 DEF ListInv
<1>4. CASE FinishHeader
  <2>1. /\ tpc = "header" /\ tpc' = "flushing" /\ tracked' = FALSE
        /\ UNCHANGED <<sampleVars, collected, summaries, fileVars, status>>
        /\ zip' = [zip EXCEPT !.summaries = <<zip.samples>>, !.header = status]
    BY <1>0, <1>4 DEF FinishHeader
  <2>2. zip' \in Entries
    BY <1>0, <2>1 DEF TypeOK, Entries
  <2>3. /\ zip'.samples = zip.samples /\ zip'.journal = zip.journal
        /\ zip'.summaries = <<zip.samples>> /\ zip'.header = status
    BY <1>0, <2>1 DEF TypeOK, Entries
  <2>4. Readable(zip')
    BY <1>0, <2>3 DEF Readable
  <2>5. TypeOK'
    BY <1>0, <2>1, <2>2 DEF TypeOK
  <2>6. SamplesPlaced'
    BY <1>0, <2>1, <2>3 DEF SamplesPlaced
  <2>7. Stages'
    BY <1>0, <2>1, <2>3 DEF Stages
  <2> QED BY <1>0, <2>1, <2>3, <2>4, <2>5, <2>6, <2>7 DEF ListInv
<1>5. CASE FinishOpen
  BY <1>0, <1>5, NothingYet DEF FinishOpen, Truncate, ListInv, TypeOK, SamplesPlaced, Stages
<1>10. CASE FinishFlush
  BY <1>0, <1>10 DEF FinishFlush, Flush, ListInv, TypeOK, SamplesPlaced, Stages
<1>6. CASE Close
  BY <1>0, <1>6 DEF Close, ListInv, TypeOK, SamplesPlaced, Stages
<1>7. CASE End \/ Crash
  BY <1>0, <1>1, <1>7 DEF End, Crash, TypeOK, Stages, Ended
<1>8. CASE Cancel
  BY <1>0, <1>1, <1>8 DEF Cancel, TypeOK, Stages, Statuses
<1>9. CASE FinishFails \/ CancelFinish
  <2>1. PICK new \in {"cancelled", "error"} : Again(new)
    BY <1>9 DEF FinishFails, CancelFinish
  <2>2. tpc \in {"finishing", "header", "flushing", "rewriting", "closing", "closed"}
    BY <1>9 DEF FinishFails, CancelFinish
  <2>3. TypeOK'
    BY <1>0, <2>1 DEF Again, TypeOK, Statuses, Ended
  <2>4. Stages'
    BY <1>0, <2>1, <2>2 DEF Again, Stages
  <2> QED BY <1>1, <2>1, <2>3, <2>4 DEF Again
<1> QED BY <1>2, <1>3, <1>4, <1>5, <1>6, <1>7, <1>8, <1>9, <1>10 DEF Task

LEMMA ListStep == ListInv /\ [Next]_vars => ListInv'
<1> SUFFICES ASSUME ListInv, [Next]_vars PROVE ListInv'
  OBVIOUS
<1>1. CASE UNCHANGED vars
  BY <1>1 DEF vars, sampleVars, zipVars, fileVars, taskVars, ListInv, TypeOK, SamplesPlaced, Stages
<1> QED BY <1>1, SampleListStep, TaskListStep DEF Next

LEMMA ListInvariant == Spec => []ListInv
BY ListInit, ListStep, PTL DEF Spec

(* Every sample of a log has its summary in one file of its journal, and   *)
(* the three lists of what was written agree, however the coroutines that  *)
(* collect, write and flush interleave and wherever the end of the task is *)
(* interrupted.                                                            *)
THEOREM ListsCorrect == Spec => []ListsAgree
<1>1. ListInv => ListsAgree
  BY DEF ListInv, Readable, AllOf, ListsAgree, JournalMatches, Journalled
<1> QED BY <1>1, ListInvariant, PTL

(* The log of a task that ends has all the samples logged, their summaries *)
(* and the status, also when the first attempt to finish was interrupted.  *)
THEOREM EndedCorrect == Spec => []EndedComplete
<1>1. ListInv => EndedComplete
  BY DEF ListInv, SamplesPlaced, Stages, EndedComplete
<1> QED BY <1>1, ListInvariant, PTL

(* Why the log file cannot be read: it is being rewritten, or that was cut *)
(* short, by the end of the process or by an error that ends the task.     *)
Cut ==
  ~intact => \/ Rewriting \/ tpc \in {"rewriting", "cut", "raised"}
             \/ /\ \E s \in Samples : spc[s] = "failed"
                /\ tpc \in {"cancelling", "finishing", "header", "flushing", "dead"}

LEMMA CutStep ==
  ASSUME ListInv, Cut, [Next]_vars
  PROVE  Cut'
<1> USE DEF Cut, Rewriting, Runs, Sampling, sampleVars, zipVars, fileVars, taskVars
<1>1. TypeOK /\ Stages
  BY DEF ListInv
<1>2. ASSUME NEW s \in Samples,
             StartSample(s) \/ ReuseSample(s) \/ LogSample(s) \/ WriteSamples(s)
      PROVE  Cut'
  BY <1>2, SpcStep DEF StartSample, ReuseSample, LogSample, WriteSamples
<1>3. ASSUME NEW s \in Samples, OpenLog(s) PROVE Cut'
  BY <1>3, SpcStep DEF OpenLog
<1>4. ASSUME NEW s \in Samples, FlushSamples(s) PROVE Cut'
  BY <1>4 DEF FlushSamples, Flush
<1>5. ASSUME NEW s \in Samples, FlushFails(s) PROVE Cut'
  BY <1>5, SpcStep DEF FlushFails
<1>6. ASSUME NEW s \in Samples, CancelSample(s) PROVE Cut'
  BY <1>6, SpcStep DEF CancelSample
<1>7. CASE Finish
  BY <1>7 DEF Finish
<1>8. CASE FinishSamples \/ FinishHeader \/ FinishOpen \/ FinishFlush \/ Close \/ End
  BY <1>8 DEF FinishSamples, FinishHeader, FinishOpen, FinishFlush, Flush, Close, End
<1>9. CASE CancelFinish \/ FinishFails
  BY <1>1, <1>9 DEF CancelFinish, FinishFails, Again, Stages
<1>10. CASE Cancel \/ Crash
  BY <1>10 DEF Cancel, Crash, Ended
<1>11. CASE UNCHANGED vars
  BY <1>11 DEF vars
<1> QED BY <1>2, <1>3, <1>4, <1>5, <1>6, <1>7, <1>8, <1>9, <1>10, <1>11 DEF Next, Sample, Task

LEMMA CutInvariant == Spec => []Cut
<1>1. Init => Cut
  BY DEF Init, Cut
<1> QED BY <1>1, ListInvariant, CutStep, PTL DEF Spec

(* Of a log left by a crash the summaries of the latest flush are missing  *)
(* and no others, and of a finished one none; only a log of which a        *)
(* rewrite is under way or was cut short cannot be read.                   *)
THEOREM SummariesCorrect == Spec => []SummariesLackOneFlush
<1>1. ASSUME ListInv, Cut, intact PROVE SummariesLackOneFlush
  <2>1. /\ logFile.journal \in Seq((SUBSET Samples) \ {{}})
        /\ Disjoint(logFile.journal) /\ AllOf(logFile.journal) = logFile.samples
        /\ logFile.summaries \in {<<>>, <<logFile.samples>>}
    BY <1>1 DEF ListInv, TypeOK, Entries, Readable
  <2>2. CASE logFile.summaries # <<>>
    BY <1>1, <2>1, <2>2 DEF ReadSummaries, SummariesLackOneFlush
  <2>3. CASE logFile.summaries = <<>> /\ logFile.journal # <<>>
    BY <1>1, <2>1, <2>3, JournalLast DEF ReadSummaries, SummariesLackOneFlush
  <2>4. CASE logFile.summaries = <<>> /\ logFile.journal = <<>>
    <3>1. logFile.samples = {}
      BY <2>1, <2>4 DEF AllOf
    <3>2. ReadSummaries(logFile) = {}
      BY <2>4 DEF ReadSummaries
    <3> QED BY <1>1, <2>4, <3>1, <3>2 DEF SummariesLackOneFlush
  <2> QED BY <2>2, <2>3, <2>4
<1>2. ASSUME Cut, ~intact PROVE SummariesLackOneFlush
  BY <1>2 DEF Cut, SummariesLackOneFlush
<1>3. ListInv /\ Cut => SummariesLackOneFlush
  BY <1>1, <1>2
<1> QED BY <1>3, ListInvariant, CutInvariant, PTL

-----------------------------------------------------------------------------
(* What a viewer is served *)

(* While samples run: those that run are in the buffer, what was written   *)
(* is in the log file or somebody is about to flush it, and a flush that   *)
(* is due is under way.                                                    *)
ServeInv ==
  /\ IsFiniteSet(pending)
  /\ \A s \in Samples : spc[s] = "running" => s \in buffered
  /\ tpc = "running" =>
       /\ (intact /\ logFile = zip) \/ \E s \in Samples : spc[s] \in {"flushing", "rewriting"}
       /\ FlushDue(pending) =>
            \E s \in Samples : spc[s] \in {"writing", "flushing", "rewriting"}

LEMMA NothingDue == ~FlushDue({})
BY FS_EmptySet, TaskLoggerAssumption DEF FlushDue

LEMMA ServeStep ==
  ASSUME ListInv, ServeInv, [Next]_vars
  PROVE  ServeInv'
<1> USE DEF ServeInv, Runs, sampleVars, zipVars, fileVars, taskVars
<1>1. TypeOK /\ SamplesPlaced /\ Stages
  BY DEF ListInv
<1>2. ASSUME NEW s \in Samples, StartSample(s) PROVE ServeInv'
  BY <1>2, SpcStep DEF StartSample
<1>3. ASSUME NEW s \in Samples, ReuseSample(s) PROVE ServeInv'
  BY <1>3, SpcStep DEF ReuseSample, Collect
<1>4. ASSUME NEW s \in Samples, LogSample(s) PROVE ServeInv'
  <2>1. IsFiniteSet(pending')
    BY <1>4, FS_AddElement DEF LogSample
  <2>2. CASE FlushDue(pending')
    BY <1>4, <2>1, <2>2, SpcStep DEF LogSample, Collect
  <2>3. CASE ~FlushDue(pending')
    BY <1>4, <2>1, <2>3, SpcStep DEF LogSample, Collect
  <2> QED BY <2>2, <2>3
<1>5. ASSUME NEW s \in Samples, WriteSamples(s) \/ OpenLog(s) PROVE ServeInv'
  BY <1>5, SpcStep DEF WriteSamples, OpenLog, Truncate
<1>6. ASSUME NEW s \in Samples, FlushSamples(s) PROVE ServeInv'
  <2>1. IsFiniteSet(pending') /\ ~FlushDue(pending')
    BY <1>6, FS_EmptySet, NothingDue DEF FlushSamples
  <2>2. ASSUME NEW u \in Samples, spc'[u] = "running" PROVE u \in buffered'
    BY <1>1, <1>6, <2>2, SpcStep DEF FlushSamples, Removed, SamplesPlaced
  <2>3. intact' /\ logFile' = zip'
    BY <1>6 DEF FlushSamples, Flush
  <2> QED BY <2>1, <2>2, <2>3
<1>7. ASSUME NEW s \in Samples, FlushFails(s) \/ CancelSample(s) PROVE ServeInv'
  BY <1>7, SpcStep DEF FlushFails, CancelSample
<1>8. CASE Close
  <2>1. \A s \in Samples : spc'[s] # "running"
    BY <1>1, <1>8 DEF Close, Stages, Over
  <2> QED BY <1>8, <2>1 DEF Close
<1>9. CASE UNCHANGED sampleVars /\ tpc' # "running"
  BY <1>9
<1>10. CASE UNCHANGED vars
  BY <1>10 DEF vars
<1> QED BY <1>2, <1>3, <1>4, <1>5, <1>6, <1>7, <1>8, <1>9, <1>10
        DEF Next, Sample, Task, Finish, FinishSamples, FinishHeader, FinishOpen, FinishFlush, End,
            Cancel, CancelFinish, FinishFails, Again, Crash

LEMMA ServeInvariant == Spec => []ServeInv
<1>1. Init => ServeInv
  BY FS_EmptySet, NothingDue DEF Init, ServeInv
<1> QED BY <1>1, ListInvariant, ServeStep, PTL DEF Spec

(* Whatever the flushes of other samples remove from the buffer, a running *)
(* sample stays there; and once nobody flushes nothing written is missing  *)
(* from the log file, nothing logged has been lost, and no flush is due.   *)
THEOREM BetweenFlushesCorrect == Spec => []BetweenFlushes
<1>1. ASSUME ListInv, ServeInv PROVE BetweenFlushes
  <2>1. Cardinality(pending) \in Nat
    BY <1>1, FS_CardinalityType DEF ServeInv
  <2> QED BY <1>1, <2>1, TaskLoggerAssumption
          DEF ListInv, SamplesPlaced, ServeInv, FlushDue, BetweenFlushes, Quiet
<1>2. ListInv /\ ServeInv => BetweenFlushes
  BY <1>1
<1> QED BY <1>2, ListInvariant, ServeInvariant, PTL

(* When every sample is flushed by itself, one that is done is written. *)
FlushedInv ==
  /\ \A s \in Samples : spc[s] \in {"flushing", "rewriting"} => s \in zip.samples
  /\ \A s \in Samples \ Reused : spc[s] = "done" => s \in zip.samples

LEMMA FlushedStep ==
  ASSUME FlushBuffer = 1, ListInv, ServeInv, FlushedInv, [Next]_vars
  PROVE  FlushedInv'
<1> USE DEF FlushedInv, Runs, sampleVars, zipVars, fileVars, taskVars
<1>1. TypeOK /\ SamplesPlaced /\ Stages
  BY DEF ListInv
<1>2. ASSUME NEW s \in Samples, StartSample(s) PROVE FlushedInv'
  BY <1>2, SpcStep DEF StartSample
<1>3. ASSUME NEW s \in Samples, ReuseSample(s) PROVE FlushedInv'
  BY <1>3, SpcStep DEF ReuseSample, Collect
<1>4. ASSUME NEW s \in Samples, LogSample(s) PROVE FlushedInv'
  <2>1. IsFiniteSet(pending') /\ pending' # {}
    BY <1>4, FS_AddElement DEF LogSample, ServeInv
  <2>2. Cardinality(pending') \in Nat \ {0}
    BY <2>1, FS_CardinalityType, FS_EmptySet
  <2>3. FlushDue(pending')
    BY <2>2 DEF FlushDue
  <2> QED BY <1>4, <2>3, SpcStep DEF LogSample, Collect
<1>5. ASSUME NEW s \in Samples, WriteSamples(s) PROVE FlushedInv'
  <2>1. zip'.samples = zip.samples \cup collected
    BY <1>1, <1>5, WriteCollectedCorrect DEF WriteSamples, Sampling, Stages
  <2> QED BY <1>1, <1>5, <2>1, SpcStep DEF WriteSamples, SamplesPlaced
<1>6. ASSUME NEW s \in Samples, OpenLog(s) \/ FlushSamples(s) PROVE FlushedInv'
  BY <1>6, SpcStep DEF OpenLog, Truncate, FlushSamples, Flush
<1>7. ASSUME NEW s \in Samples, FlushFails(s) \/ CancelSample(s) PROVE FlushedInv'
  BY <1>7, SpcStep DEF FlushFails, CancelSample
<1>8. CASE FinishSamples
  <2>1. zip'.samples = zip.samples \cup collected
    BY <1>1, <1>8, WriteCollectedCorrect DEF FinishSamples, Stages
  <2> QED BY <1>8, <2>1 DEF FinishSamples
<1>9. CASE FinishHeader
  <2>1. zip'.samples = zip.samples
    BY <1>1, <1>9 DEF FinishHeader, TypeOK, Entries
  <2> QED BY <1>9, <2>1 DEF FinishHeader
<1>10. CASE FinishOpen \/ FinishFlush
  BY <1>10 DEF FinishOpen, Truncate, FinishFlush, Flush
<1>11. CASE UNCHANGED <<spc, zip>>
  BY <1>11
<1> QED BY <1>2, <1>3, <1>4, <1>5, <1>6, <1>7, <1>8, <1>9, <1>10, <1>11
        DEF vars, Next, Sample, Task, Finish, Close, End, Cancel, CancelFinish, FinishFails,
            Again, Crash

(* With a log_buffer of one, the default of a task with less than six      *)
(* samples, a sample that was run can be read at any time nobody flushes;  *)
(* with a larger one overlapping flushes may make the buffer forget it.    *)
THEOREM ServedOneByOne == FlushBuffer = 1 => (Spec => []QuietServed)
<1> SUFFICES ASSUME FlushBuffer = 1 PROVE Spec => []QuietServed
  OBVIOUS
<1>1. Init => FlushedInv
  BY DEF Init, FlushedInv, NoEntries
<1>2. ListInv /\ ServeInv /\ FlushedInv /\ [Next]_vars => FlushedInv'
  BY FlushedStep
<1>3. ServeInv /\ FlushedInv => QuietServed
  BY DEF ServeInv, FlushedInv, QuietServed, Quiet
<1> QED BY <1>1, <1>2, <1>3, ListInvariant, ServeInvariant, PTL DEF Spec
=============================================================================
