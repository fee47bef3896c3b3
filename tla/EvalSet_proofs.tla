---------------------------- MODULE EvalSet_proofs ----------------------------
(* Theorems about a task's samples and the eval set around them, for any   *)
(* set of samples, slots, tolerance, number of passes and of invocations.  *)
EXTENDS EvalSet, SequenceFacts, TLAPS

-----------------------------------------------------------------------------
(* The inductive invariant *)

Fresh == {"new", "queued", "starting", "solving", "scoring"}
Ended(s) == s \in error /\ left[s] = 0

(* What is recorded of a sample fits the place where it is: before it is logged there is no
   trace of it, and the errors of its last attempt are the ones the log gets. *)
SampleInv(s) ==
  /\ pc[s] \in Fresh => s \notin error
  /\ s \in reused => pc[s] \in {"new", "done"} /\ s \notin error /\ result[s] \in {"none", "scores"}
  /\ pc[s] \in (Fresh \cup {"teardown", "ending"}) =>
       logged[s] = 0 /\ s \notin log_error /\ result[s] = "none"
  /\ pc[s] = "leaving" =>
       /\ result[s] = "none"
       /\ IF Retrying(s) THEN logged[s] = 0 /\ s \notin log_error
                         ELSE logged[s] = 1 /\ (s \in log_error <=> s \in error)
  /\ pc[s] = "done" /\ causes = {} =>
       \/ result[s] = "stopped" /\ logged[s] = 0 /\ s \notin log_error
       \/ result[s] = "scores" /\ logged[s] = 1 /\ s \notin log_error
       \/ result[s] = "failed" /\ logged[s] = 1 /\ s \in log_error
  /\ pc[s] = "done" /\ causes = {} /\ s \in reused => result[s] = "scores"
  /\ s \in log_error => Ended(s) /\ logged[s] = 1
  /\ events[s] \subseteq {left[s]}

SamplesInv == \A s \in Samples : SampleInv(s)

Queued == {s \in Samples : pc[s] = "queued"}
AtWork == {s \in Samples : pc[s] \in Working}

SlotInv ==
  /\ Distinct(queue) /\ Elements(queue) = Queued /\ Len(queue) = Cardinality(Queued)
  /\ free + Cardinality(AtWork) = MaxSamples

(* Samples whose last attempt has failed, and those of which that attempt is over *)
Once == {s \in Samples : Ended(s)}
Twice == {s \in Samples : Ended(s) /\ pc[s] \in {"ending", "leaving", "done"}}

(* The count is between the two, the errors to be raised are of last attempts, and there is one,
   or there was one, exactly if the count has reached the threshold. *)
CountInv ==
  /\ Cardinality(Once) <= error_count
  /\ error_count <= Cardinality(Once) + Cardinality(Twice)

RaiseInv ==
  /\ \A s \in raising : left[s] = 0
  /\ raising # {} \/ "sample" \in causes => AtThreshold
  /\ error_count > 0 /\ AtThreshold => raising # {} \/ causes # {}

ErrorInv == CountInv /\ RaiseInv

StatusInv ==
  /\ status # "started" => \A s \in Samples : pc[s] = "done"
  /\ StatusTruthful

RunType ==
  /\ config \in Configs /\ reused \subseteq Samples
  /\ pc \in [Samples -> Places] /\ left \in [Samples -> 0..config.retry_on_error]
  /\ queue \in Seq(Samples) /\ free \in Nat
  /\ raising \subseteq error /\ error \subseteq Samples
  /\ error_count \in Nat
  /\ events \in [Samples -> SUBSET (0..config.retry_on_error)]
  /\ logged \in [Samples -> 0..1] /\ log_error \subseteq Samples
  /\ result \in [Samples -> {"none", "scores", "stopped", "failed"}]
  /\ causes \subseteq {"sample", "hook", "user"}
  /\ status \in {"started", "success", "error", "cancelled"}

RunInv == RunType /\ SamplesInv /\ SlotInv /\ ErrorInv /\ StatusInv

(* A log that says success is within the tolerance, and no log holds a sample twice. *)
LogTrue(log) ==
  /\ log.status = "success" => ~ShouldFail(Cardinality(log.errors), Cardinality(Samples), config.fail_on_error)
  /\ log.done \cap log.errors = {}

PassType ==
  /\ stage \in Over \cup {"between", "pass", "cancelling"}
  /\ attempts \in 0..MaxAttempts /\ invocations \in 0..MaxInvocations
  /\ active \subseteq {"task", "other"}
  /\ logs \in Seq(Log) /\ everLogged \subseteq Samples
  /\ other \in {"none", "success", "failed"}

PassInv ==
  /\ stage \in Over \cup {"between"} => active = {}
  /\ stage = "between" => attempts < MaxAttempts
  /\ "task" \in active => reused = SampleSource
  /\ \A i \in DOMAIN logs : LogTrue(logs[i])
  /\ stage = "success" => logs # <<>> /\ Last(logs).status = "success" /\ other = "success"
  /\ OneLogLeft

SetInv == RunInv /\ PassType /\ PassInv

-----------------------------------------------------------------------------
(* The logs that are kept *)

KeptRow(f, i, s) ==
  IF i = 0 THEN <<>>
  ELSE IF i = Len(s) \/ s[i].status = "started" THEN Append(f[i - 1], s[i]) ELSE f[i - 1]

(* A function is defined along a sequence from the value before. *)
LEMMA KeptExists ==
  ASSUME NEW S, NEW s \in Seq(S)
  PROVE  \E f : f = [i \in 0..Len(s) |-> KeptRow(f, i, s)]
<1> DEFINE n == Len(s)
           P(m) == \E f : f = [i \in 0..m |-> KeptRow(f, i, s)]
           T == {m \in 0..n : ~P(m)}
<1>0. n \in Nat
  OBVIOUS
<1> HIDE DEF n
<1>1. P(0)
  <2> DEFINE g == [i \in 0..0 |-> <<>>]
  <2>1. \A i \in 0..0 : KeptRow(g, i, s) = <<>>
    BY DEF KeptRow
  <2>2. g = [i \in 0..0 |-> KeptRow(g, i, s)]
    BY <2>1
  <2> QED BY <2>2
<1>2. ASSUME NEW m \in 1..n, P(m - 1) PROVE P(m)
  <2>1. PICK f : f = [i \in 0..m - 1 |-> KeptRow(f, i, s)]
    BY <1>2
  <2> DEFINE g == [i \in 0..m |-> IF i = m THEN KeptRow(f, m, s) ELSE f[i]]
  <2>2. ASSUME NEW i \in 0..m PROVE g[i] = KeptRow(g, i, s)
    <3>1. i # 0 => i - 1 \in 0..m /\ i - 1 # m /\ i - 1 \in 0..m - 1
      BY <1>0
    <3>2. i # 0 => g[i - 1] = f[i - 1]
      BY <3>1
    <3>3. KeptRow(g, i, s) = KeptRow(f, i, s)
      BY <3>2 DEF KeptRow
    <3>4. i # m => i \in 0..m - 1
      BY <1>0
    <3>5. i # m => f[i] = KeptRow(f, i, s)
      BY <2>1, <3>4
    <3> QED BY <3>3, <3>5
  <2>3. g = [i \in 0..m |-> KeptRow(g, i, s)]
    <3> HIDE DEF g
    <3>1. g = [i \in 0..m |-> g[i]]
      BY DEF g
    <3> QED BY <2>2, <3>1
  <2> QED BY <2>3
<1>3. ASSUME T # {} PROVE FALSE
  <2> HIDE DEF P
  <2>1. T \subseteq Nat
    BY <1>0
  <2>2. PICK m \in T : \A i \in T : ~(<<i, m>> \in OpToRel(<, Nat))
    BY <1>3, <2>1, NatLessThanWellFounded, WFMin
  <2>3. \A i \in T : ~(i < m)
    BY <2>1, <2>2 DEF OpToRel
  <2>4. m \in 0..n /\ ~P(m)
    OBVIOUS
  <2>5. m # 0
    BY <1>1, <2>4
  <2>6. m \in 1..n /\ m - 1 \in 0..n /\ m - 1 < m
    BY <1>0, <2>4, <2>5
  <2>7. P(m - 1)
    BY <2>3, <2>6
  <2> QED BY <1>2, <2>4, <2>6, <2>7
<1>4. n \in 0..n
  BY <1>0
<1>5. P(n)
  BY <1>3, <1>4
<1> QED BY <1>5 DEF n

LEMMA KeptIs ==
  ASSUME logs \in Seq(Log), NEW i \in 0..Len(logs)
  PROVE  kept[i] = KeptRow(kept, i, logs)
<1>1. PICK f : f = [j \in 0..Len(logs) |-> KeptRow(f, j, logs)]
  BY KeptExists
<1>2. kept = [j \in 0..Len(logs) |-> KeptRow(kept, j, logs)]
  BY <1>1 DEF kept, KeptRow
<1> QED BY <1>2

(* The clean-up keeps logs, the latest at the end, and before it only logs merely started. *)
LEMMA CleanedKeeps ==
  ASSUME logs \in Seq(Log)
  PROVE  /\ Cleaned \in Seq(Log)
         /\ \A j \in DOMAIN Cleaned : \E k \in DOMAIN logs : Cleaned[j] = logs[k]
         /\ \A j \in 1..Len(Cleaned) - 1 : Cleaned[j].status = "started"
         /\ Cleaned = <<>> <=> logs = <<>>
         /\ logs # <<>> => Last(Cleaned) = Last(logs)
<1> DEFINE n == Len(logs)
           L == Log
           P(i) == /\ kept[i] \in Seq(L)
                   /\ \A j \in 1..Len(kept[i]) : \E k \in 1..n : kept[i][j] = logs[k]
                   /\ \A j \in 1..Len(kept[i]) :
                        kept[i][j].status = "started" \/ (i = n /\ j = Len(kept[i]))
                   /\ (i = 0 => kept[i] = <<>>)
                   /\ (i = n /\ i > 0 => Len(kept[i]) > 0 /\ kept[i][Len(kept[i])] = logs[n])
           T == {i \in 0..n : ~P(i)}
<1>0. /\ n \in Nat /\ DOMAIN logs = 1..n /\ logs \in Seq(L)
      /\ \A i \in 0..n : kept[i] = KeptRow(kept, i, logs)
  BY KeptIs
<1> HIDE DEF n, L
<1>1. P(0)
  <2>1. 0 \in 0..n
    BY <1>0
  <2>2. kept[0] = <<>>
    BY <1>0, <2>1 DEF KeptRow
  <2> QED BY <2>2
<1>2. ASSUME NEW i \in 1..n, P(i - 1) PROVE P(i)
  <2> DEFINE b == kept[i - 1]
  <2>0. /\ i \in 0..n /\ i # 0 /\ i - 1 # n /\ i > 0 /\ logs[i] \in L /\ i \in 1..n
        /\ b \in Seq(L) /\ Len(b) \in Nat
        /\ \A j \in 1..Len(b) : \E k \in 1..n : b[j] = logs[k]
        /\ \A j \in 1..Len(b) : b[j].status = "started"
    BY <1>0, <1>2
  <2>1. CASE i = n \/ logs[i].status = "started"
    <3>1. kept[i] = Append(b, logs[i])
      BY <1>0, <2>0, <2>1 DEF KeptRow, n
    <3> HIDE DEF b
    <3>2. /\ Append(b, logs[i]) \in Seq(L) /\ Len(Append(b, logs[i])) = Len(b) + 1
          /\ \A j \in 1..Len(b) : Append(b, logs[i])[j] = b[j]
          /\ Append(b, logs[i])[Len(b) + 1] = logs[i]
      BY <2>0, AppendItems
    <3>3. \A j \in 1..Len(b) + 1 : j \in 1..Len(b) \/ j = Len(b) + 1
      BY <2>0
    <3> HIDE DEF P
    <3> DEFINE c == kept[i]
    <3>4. /\ c \in Seq(L) /\ Len(c) = Len(b) + 1
          /\ \A j \in 1..Len(b) : c[j] = b[j]
          /\ c[Len(b) + 1] = logs[i]
      BY <3>1, <3>2
    <3> HIDE DEF c
    <3>5. \A j \in 1..Len(c) : \E k \in 1..n : c[j] = logs[k]
      BY <2>0, <3>3, <3>4
    <3>6. \A j \in 1..Len(c) : c[j].status = "started" \/ (i = n /\ j = Len(c))
      BY <2>0, <2>1, <3>3, <3>4
    <3>7. i = n /\ i > 0 => Len(c) > 0 /\ c[Len(c)] = logs[n]
      BY <2>0, <3>4
    <3> QED BY <2>0, <3>4, <3>5, <3>6, <3>7 DEF P, c
  <2>2. CASE ~(i = n \/ logs[i].status = "started")
    <3>1. kept[i] = b
      BY <1>0, <2>0, <2>2 DEF KeptRow, n
    <3> HIDE DEF b
    <3> QED BY <2>0, <2>2, <3>1
  <2> QED BY <2>1, <2>2
<1>3. ASSUME T # {} PROVE FALSE
  <2> HIDE DEF P
  <2>1. T \subseteq Nat
    BY <1>0
  <2>2. PICK m \in T : \A i \in T : ~(<<i, m>> \in OpToRel(<, Nat))
    BY <1>3, <2>1, NatLessThanWellFounded, WFMin
  <2>3. \A i \in T : ~(i < m)
    BY <2>1, <2>2 DEF OpToRel
  <2>4. m \in 0..n /\ ~P(m)
    OBVIOUS
  <2>5. m # 0
    BY <1>1, <2>4
  <2>6. m \in 1..n /\ m - 1 \in 0..n /\ m - 1 < m
    BY <1>0, <2>4, <2>5
  <2>7. P(m - 1)
    BY <2>3, <2>6
  <2> QED BY <1>2, <2>4, <2>6, <2>7
<1>4. P(n) /\ n \in 0..n
  <2> HIDE DEF P
  <2>1. n \in 0..n
    BY <1>0
  <2> QED BY <1>3, <2>1
<1>5. Cleaned = kept[n]
  BY DEF Cleaned, n
<1> DEFINE c == Cleaned
<1>6. /\ c \in Seq(L)
      /\ \A j \in 1..Len(c) : \E k \in 1..n : c[j] = logs[k]
      /\ \A j \in 1..Len(c) : c[j].status = "started" \/ j = Len(c)
      /\ n = 0 => c = <<>>
      /\ n > 0 => Len(c) > 0 /\ c[Len(c)] = logs[n]
  BY <1>4, <1>5
<1> HIDE DEF c
<1>7. DOMAIN c = 1..Len(c) /\ Len(c) \in Nat /\ (n = 0 <=> logs = <<>>) /\ (Len(c) = 0 <=> c = <<>>)
  BY <1>0, <1>6 DEF n
<1>8. \A j \in 1..Len(c) - 1 : c[j].status = "started"
  <2>1. Len(c) \in Nat
    BY <1>7
  <2>2. \A j \in 1..Len(c) - 1 : j \in 1..Len(c) /\ j # Len(c)
    BY <2>1
  <2> QED BY <1>6, <2>2
<1>9. /\ c = <<>> <=> logs = <<>>
      /\ logs # <<>> => c[Len(c)] = logs[n]
  <2>1. n = 0 \/ n > 0
    BY <1>0
  <2>2. CASE n = 0
    BY <1>6, <1>7, <2>2
  <2>3. CASE n > 0
    <3>1. Len(c) > 0 /\ c[Len(c)] = logs[n]
      BY <1>6, <2>3
    <3>2. Len(c) # 0 /\ n # 0
      BY <2>3, <3>1
    <3> QED BY <1>7, <3>1, <3>2
  <2> QED BY <2>1, <2>2, <2>3
<1>10. \A j \in DOMAIN c : \E k \in DOMAIN logs : c[j] = logs[k]
  BY <1>0, <1>6, <1>7
<1> QED BY <1>6, <1>8, <1>9, <1>10 DEF c, n, L, Last

-----------------------------------------------------------------------------
(* Steps of a sample *)

StepOf(s) == s \in Samples /\ Step(s)

LEMMA HeadQueued ==
  ASSUME RunInv, queue # <<>>
  PROVE  Head(queue) \in Samples /\ pc[Head(queue)] = "queued"
<1>1. queue \in Seq(Samples) /\ Elements(queue) = Queued
  BY DEF RunInv, RunType, SlotInv
<1>2. Head(queue) \in Elements(queue)
  BY <1>1, TailElements
<1> QED BY <1>1, <1>2 DEF Queued

(* How the queue of a cancelled sample becomes shorter *)
LEMMA LeavesQueue ==
  ASSUME RunInv, NEW s \in Samples, LeaveQueue(s)
  PROVE  /\ queue' \in Seq(Samples)
         /\ Distinct(queue')
         /\ Elements(queue') = Queued \ {s}
         /\ Len(queue') = IF pc[s] = "queued" THEN Len(queue) - 1 ELSE Len(queue)
<1>1. queue \in Seq(Samples) /\ Distinct(queue) /\ Elements(queue) = Queued
  BY DEF RunInv, RunType, SlotInv
<1>2. CASE pc[s] = "queued"
  <2>1. PICK i \in DOMAIN queue : queue[i] = s /\ queue' = RemoveAt(queue, i)
    BY <1>2 DEF LeaveQueue
  <2> QED BY <1>1, <1>2, <2>1, TakenOut DEF RemoveAt
<1>3. CASE pc[s] # "queued"
  <2>1. queue' = queue /\ s \notin Queued
    BY <1>3 DEF LeaveQueue, Queued
  <2> QED BY <1>1, <1>3, <2>1
<1> QED BY <1>2, <1>3

(* Of the other samples, nothing changes but the task group they are in. *)
Others(s) ==
  /\ config' = config /\ reused' = reused /\ status' = status /\ causes \subseteq causes'
  /\ \A t \in Samples \ {s} :
       /\ pc'[t] = pc[t] /\ left'[t] = left[t] /\ events'[t] = events[t]
       /\ logged'[t] = logged[t] /\ result'[t] = result[t]
       /\ t \in error' <=> t \in error
       /\ t \in log_error' <=> t \in log_error

LEMMA HandleErrorType ==
  ASSUME RunType, NEW s \in Samples, HandleError(s)
  PROVE  /\ error' = error \cup {s} /\ raising' \subseteq error' /\ error' \subseteq Samples
         /\ error_count' = IF left[s] > 0 THEN error_count ELSE error_count + 1
         /\ error_count' \in Nat
BY DEF RunType, HandleError

(* A sample ends with scores, unless a hook raises and cancels the group. *)
LEMMA CompleteIs ==
  ASSUME RunType, NEW s \in Samples, Complete(s)
  PROVE  /\ pc' = [pc EXCEPT ![s] = "done"]
         /\ pc' \in [Samples -> Places]
         /\ result' \in [Samples -> {"none", "scores", "stopped", "failed"}]
         /\ \A t \in Samples \ {s} : result'[t] = result[t] /\ pc'[t] = pc[t]
         /\ causes \subseteq causes' /\ causes' \in {causes, causes \cup {"hook"}} /\ causes' \subseteq {"sample", "hook", "user"}
         /\ causes' # {} \/ result'[s] = "scores"
         /\ result'[s] \in {result[s], "scores"}
<1>1. pc' = [pc EXCEPT ![s] = "done"]
  BY DEF Complete, Goto, Raise
<1>2. \/ result' = [result EXCEPT ![s] = "scores"] /\ causes' = causes
      \/ result' = result /\ causes' = causes \cup {"hook"}
  BY DEF Complete, Raise
<1>3. pc' \in [Samples -> Places]
  BY <1>1 DEF RunType, Places
<1>4. result \in [Samples -> {"none", "scores", "stopped", "failed"}] /\ causes \subseteq {"sample", "hook", "user"}
  BY DEF RunType
<1> QED BY <1>1, <1>2, <1>3, <1>4

LEMMA StepFrame ==
  ASSUME RunInv, NEW s \in Samples, Step(s)
  PROVE  RunType' /\ Others(s)
<1> USE DEF Others, RunType, Places, Working, Goto, Raise, slotVars, attemptVars, logVars
<1>0. RunType /\ config.retry_on_error \in Nat
  BY SampleRunAssumption DEF RunInv
<1>1. CASE Reuse(s)
  <2>1. s \in reused /\ pc[s] = "new" /\ SampleInv(s)
    BY <1>1 DEF Reuse, RunInv, SamplesInv
  <2>2. logged[s] = 0
    BY <2>1 DEF SampleInv, Fresh
  <2>3. CASE logged' = [logged EXCEPT ![s] = @ + 1] /\ Complete(s)
    <3>1. logged' = [logged EXCEPT ![s] = 1]
      BY <2>2, <2>3
    <3> HIDE DEF Goto, Raise, Places
    <3> QED BY <1>0, <1>1, <2>3, <3>1, CompleteIs DEF Reuse
  <2>4. CASE Raise(s, "hook") /\ UNCHANGED <<logged, result>>
    BY <1>0, <1>1, <2>4 DEF Reuse
  <2> QED BY <1>1, <2>3, <2>4 DEF Reuse
<1>2. CASE StopEarly(s)
  BY <1>0, <1>2 DEF StopEarly
<1>3. CASE Request(s)
  BY <1>0, <1>3 DEF Request
<1>4. CASE Acquire(s)
  BY <1>0, <1>4 DEF Acquire
<1>5. ASSUME NEW place \in Places, NEW next \in Places, NEW handler \in Places, Phase(s, place, next, handler)
      PROVE  RunType' /\ Others(s)
  <2>1. CASE Goto(s, next) /\ UNCHANGED <<attemptVars, error_count>>
    BY <1>0, <1>5, <2>1 DEF Phase, Quiet
  <2>2. CASE Goto(s, handler) /\ HandleError(s)
    BY <1>0, <1>5, <2>2, HandleErrorType DEF Phase, Quiet
  <2> QED BY <1>5, <2>1, <2>2 DEF Phase
<1>6. CASE Start(s) \/ Solve(s) \/ Score(s) \/ Teardown(s)
  BY <1>5, <1>6 DEF Start, Solve, Score, Teardown
<1>7. CASE LogSample(s)
  <2>1. logged[s] = 0
    BY <1>7 DEF LogSample, RunInv, SamplesInv, SampleInv, Fresh
  <2>2. /\ pc' \in [Samples -> Places] /\ \A t \in Samples \ {s} : pc'[t] = pc[t]
        /\ queue' = queue /\ free' \in Nat
        /\ causes \subseteq causes' /\ causes' \subseteq {"sample", "hook", "user"}
    <3>1. queue' = queue /\ free' \in {free, free + 1} /\ causes' \in {causes, causes \cup {"hook"}}
      BY <1>7 DEF LogSample, Release
    <3>2. \E place \in {"leaving", "done"} : pc' = [pc EXCEPT ![s] = place]
      BY <1>7 DEF LogSample
    <3> QED BY <1>0, <3>1, <3>2
  <2>3. \/ logged' = logged /\ log_error' = log_error
        \/ logged' = [logged EXCEPT ![s] = 1] /\ log_error' = log_error \cup ({s} \cap error)
    BY <1>7, <2>1 DEF LogSample
  <2>4. UNCHANGED <<config, reused, left, attemptVars, error_count, events, result, status>>
    BY <1>7 DEF LogSample
  <2> QED BY <1>0, <2>2, <2>3, <2>4, SMTT(30)
<1>8. CASE Retry(s)
  BY <1>0, <1>8 DEF Retry, Release, Retrying
<1>9. CASE Leave(s)
  <2>1. free' \in Nat /\ queue' = queue
    BY <1>0, <1>9 DEF Leave, Release
  <2>2. UNCHANGED <<config, reused, left, attemptVars, error_count, logVars, status>>
    BY <1>9 DEF Leave
  <2>3. CASE Complete(s)
    <3> HIDE DEF Goto, Raise, Places
    <3> QED BY <1>0, <2>1, <2>2, <2>3, CompleteIs
  <2>4. CASE /\ \E cause \in {"sample"} : causes' \in {causes, causes \cup {cause}}
             /\ Goto(s, "done") /\ result' = [result EXCEPT ![s] = "failed"]
    BY <1>0, <2>1, <2>2, <2>4
  <2> QED BY <1>9, <2>3, <2>4 DEF Leave
<1>10. CASE Cancelled(s)
  BY <1>0, <1>10, LeavesQueue DEF Cancelled
<1> QED BY <1>1, <1>2, <1>3, <1>4, <1>6, <1>7, <1>8, <1>9, <1>10 DEF Step

LEMMA OthersInv ==
  ASSUME RunType, NEW s \in Samples, Others(s), NEW t \in Samples \ {s}, SampleInv(t)
  PROVE  SampleInv(t)'
BY DEF Others, SampleInv, Retrying, Ended

LEMMA SamplesStep ==
  ASSUME RunInv, NEW s \in Samples, Step(s)
  PROVE  SamplesInv'
<1> SUFFICES SampleInv(s)'
  BY StepFrame, OthersInv DEF RunInv, SamplesInv
<1> USE DEF SampleInv, Fresh, Ended, Retrying, slotVars, attemptVars, logVars, Goto, Raise
<1>0. /\ RunType /\ RunType' /\ SampleInv(s) /\ config.retry_on_error \in Nat
      /\ left[s] \in Nat /\ left'[s] \in Nat
  <2>1. config.retry_on_error \in Nat /\ config'.retry_on_error \in Nat
    BY StepFrame, SampleRunAssumption DEF RunInv, RunType
  <2> QED BY <2>1, StepFrame, SMTT(30) DEF RunInv, RunType, SamplesInv
<1>1. CASE Reuse(s)
  <2>1. /\ s \in reused /\ pc[s] = "new" /\ logged[s] = 0 /\ s \notin log_error /\ s \notin error
        /\ result[s] = "none" /\ pc'[s] = "done"
        /\ UNCHANGED <<reused, left, error, events, log_error>>
    BY <1>0, <1>1 DEF Reuse, Complete, RunType
  <2>2. CASE logged' = [logged EXCEPT ![s] = @ + 1] /\ Complete(s)
    <3>1. logged'[s] = 1
      BY <1>0, <2>1, <2>2 DEF RunType
    <3> HIDE DEF Goto, Raise
    <3> QED BY <1>0, <2>1, <2>2, <3>1, CompleteIs
  <2>3. CASE Raise(s, "hook") /\ UNCHANGED <<logged, result>>
    BY <1>0, <2>1, <2>3
  <2> QED BY <1>1, <2>2, <2>3 DEF Reuse
<1>2. CASE StopEarly(s)
  BY <1>0, <1>2 DEF StopEarly, RunType
<1>3. CASE Request(s)
  BY <1>0, <1>3 DEF Request, RunType
<1>4. CASE Acquire(s)
  <2>1. pc[s] = "queued"
    BY <1>4, HeadQueued DEF Acquire
  <2> QED BY <1>0, <1>4, <2>1 DEF Acquire, RunType
<1>5. CASE Start(s)
  BY <1>0, <1>5 DEF Start, Phase, Quiet, HandleError, RunType
<1>6. CASE Solve(s)
  BY <1>0, <1>6 DEF Solve, Phase, Quiet, HandleError, RunType
<1>7. CASE Score(s)
  BY <1>0, <1>7 DEF Score, Phase, Quiet, HandleError, RunType
<1>8. CASE Teardown(s)
  BY <1>0, <1>8 DEF Teardown, Phase, Quiet, HandleError, RunType
<1>9. CASE LogSample(s)
  <2>1. /\ pc[s] = "ending" /\ logged[s] = 0 /\ s \notin log_error /\ result[s] = "none" /\ s \notin reused
        /\ UNCHANGED <<reused, left, error, events, result>>
    BY <1>0, <1>9 DEF LogSample
  <2>2. CASE Retrying(s) /\ Goto(s, "leaving") /\ UNCHANGED <<logged, log_error>>
    BY <1>0, <2>1, <2>2 DEF RunType
  <2>3. CASE /\ ~Retrying(s) /\ Goto(s, "leaving")
             /\ logged' = [logged EXCEPT ![s] = @ + 1] /\ log_error' = log_error \cup ({s} \cap error)
    <3>1. logged'[s] = 1 /\ pc'[s] = "leaving" /\ (s \in log_error' <=> s \in error)
      BY <1>0, <2>1, <2>3 DEF RunType
    <3>2. s \in error => left[s] = 0
      BY <1>0, <2>3
    <3> QED BY <1>0, <2>1, <3>1, <3>2
  <2>4. CASE Raise(s, "hook") /\ UNCHANGED <<logged, log_error>>
    BY <1>0, <2>1, <2>4 DEF RunType
  <2> QED BY <1>9, <2>2, <2>3, <2>4 DEF LogSample
<1>10. CASE Retry(s)
  <2>1. /\ pc[s] = "leaving" /\ Retrying(s) /\ pc'[s] = "new" /\ s \notin error' /\ events'[s] = {}
        /\ UNCHANGED <<reused, logged, log_error, result>>
    BY <1>0, <1>10 DEF Retry, RunType
  <2> QED BY <1>0, <2>1
<1>11. CASE Leave(s)
  <2>1. /\ pc[s] = "leaving" /\ ~Retrying(s) /\ pc'[s] = "done" /\ logged[s] = 1
        /\ s \notin reused /\ (s \in log_error <=> s \in error)
        /\ UNCHANGED <<reused, left, error, events, logged, log_error>>
    BY <1>0, <1>11 DEF Leave, Complete, RunType
  <2>2. CASE s \notin error /\ Complete(s)
    <3> HIDE DEF Goto, Raise
    <3> QED BY <1>0, <2>1, <2>2, CompleteIs
  <2>3. CASE s \in error /\ result' = [result EXCEPT ![s] = "failed"]
    <3>1. result'[s] = "failed"
      BY <1>0, <2>3 DEF RunType
    <3> QED BY <1>0, <2>1, <2>3, <3>1
  <2> QED BY <1>0, <1>11, <2>2, <2>3 DEF Leave, RunType
<1>12. CASE Cancelled(s)
  BY <1>0, <1>12 DEF Cancelled, RunType
<1> QED BY <1>1, <1>2, <1>3, <1>4, <1>5, <1>6, <1>7, <1>8, <1>9, <1>10, <1>11, <1>12 DEF Step

-----------------------------------------------------------------------------
(* Slots *)

LEMMA SetsFinite ==
  /\ IsFiniteSet(Queued) /\ IsFiniteSet(AtWork) /\ IsFiniteSet(Once) /\ IsFiniteSet(Twice)
  /\ Cardinality(Queued) \in Nat /\ Cardinality(AtWork) \in Nat
  /\ Cardinality(Once) \in Nat /\ Cardinality(Twice) \in Nat
<1>1. Queued \in SUBSET Samples /\ AtWork \in SUBSET Samples /\ Once \in SUBSET Samples /\ Twice \in SUBSET Samples
  BY DEF Queued, AtWork, Once, Twice
<1> QED BY <1>1, SampleRunAssumption, FS_Subset, FS_CardinalityType

(* The slot that a sample takes or gives back *)
Holds(place) == IF place \in Working THEN 1 ELSE 0

LEMMA FreeMoves ==
  ASSUME RunInv, NEW s \in Samples, Others(s), free' \in Nat,
         free' = free + Holds(pc[s]) - Holds(pc'[s])
  PROVE  free' + Cardinality(AtWork)' = MaxSamples
<1> DEFINE A == AtWork
           B == AtWork'
           x == Holds(pc[s])
           y == Holds(pc'[s])
<1>1. /\ A \ {s} = B \ {s}
      /\ x = IF s \in A THEN 1 ELSE 0
      /\ y = IF s \in B THEN 1 ELSE 0
  BY DEF AtWork, Others, Holds
<1>2. IsFiniteSet(A) /\ free \in Nat /\ free + Cardinality(A) = MaxSamples /\ Cardinality(AtWork)' = Cardinality(B)
  BY SetsFinite DEF RunInv, RunType, SlotInv
<1> HIDE DEF A, B
<1>3. /\ Cardinality(A) \in Nat /\ Cardinality(B) \in Nat
      /\ Cardinality(B) = Cardinality(A) - (IF s \in A THEN 1 ELSE 0) + (IF s \in B THEN 1 ELSE 0)
  BY <1>1, <1>2, OneChanges
<1>4. x \in Nat /\ y \in Nat /\ Cardinality(B) = Cardinality(A) - x + y
  BY <1>1, <1>3
<1>5. free' = free + x - y
  OBVIOUS
<1> HIDE DEF x, y
<1>6. free' + Cardinality(B) = MaxSamples
  <2>1. free' + Cardinality(B) = (free + x - y) + (Cardinality(A) - x + y)
    BY <1>4, <1>5
  <2>2. (free + x - y) + (Cardinality(A) - x + y) = free + Cardinality(A)
    BY <1>2, <1>3, <1>4
  <2> QED BY <1>2, <2>1, <2>2
<1> QED BY <1>2, <1>6

QueueInv == Distinct(queue) /\ Elements(queue) = Queued /\ Len(queue) = Cardinality(Queued)

LEMMA QueueStays ==
  ASSUME RunInv, NEW s \in Samples, Others(s), queue' = queue, pc[s] # "queued", pc'[s] # "queued"
  PROVE  QueueInv'
<1>1. Queued' = Queued
  BY DEF Queued, Others
<1> QED BY <1>1 DEF QueueInv, RunInv, SlotInv

LEMMA QueueGrows ==
  ASSUME RunInv, NEW s \in Samples, Request(s), Others(s)
  PROVE  QueueInv'
<1>1. /\ queue \in Seq(Samples) /\ Distinct(queue) /\ Elements(queue) = Queued /\ Len(queue) = Cardinality(Queued)
      /\ queue' = Append(queue, s) /\ pc[s] = "new" /\ pc'[s] = "queued"
  BY DEF Request, Goto, RunInv, RunType, SlotInv
<1>2. s \notin Queued /\ Queued' = Queued \cup {s}
  BY <1>1 DEF Queued, Others
<1>3. Distinct(queue') /\ Elements(queue') = Queued'
  BY <1>1, <1>2, AppendElements
<1>4. Len(queue') = Len(queue) + 1
  BY <1>1
<1>5. Cardinality(Queued') = Cardinality(Queued) + 1
  BY <1>2, SetsFinite, FS_AddElement
<1> QED BY <1>1, <1>3, <1>4, <1>5 DEF QueueInv

LEMMA QueueShrinks ==
  ASSUME RunInv, NEW s \in Samples, Others(s), pc[s] = "queued", pc'[s] # "queued",
         Distinct(queue'), Elements(queue') = Queued \ {s}, Len(queue') = Len(queue) - 1
  PROVE  QueueInv'
<1>1. s \in Queued /\ Queued' = Queued \ {s}
  BY DEF Queued, Others
<1>2. Cardinality(Queued') = Cardinality(Queued) - 1
  BY <1>1, SetsFinite, FS_RemoveElement
<1> QED BY <1>1, <1>2 DEF QueueInv, RunInv, SlotInv

LEMMA SlotStep ==
  ASSUME RunInv, NEW s \in Samples, Step(s)
  PROVE  SlotInv'
<1>0. /\ Others(s) /\ RunType /\ RunType' /\ SampleInv(s)
      /\ queue \in Seq(Samples) /\ free \in Nat /\ free' \in Nat /\ pc \in [Samples -> Places]
  BY StepFrame DEF RunInv, RunType, SamplesInv
<1>1. SUFFICES /\ QueueInv'
               /\ free' = free + Holds(pc[s]) - Holds(pc'[s])
  BY <1>0, FreeMoves DEF SlotInv, QueueInv
<1> USE DEF Working, Holds, Goto, Raise, slotVars
<1>2. CASE Request(s)
  <2>1. QueueInv'
    BY <1>0, <1>2, QueueGrows
  <2>2. pc[s] = "new" /\ pc'[s] = "queued" /\ free' = free
    BY <1>0, <1>2 DEF Request
  <2> QED BY <1>0, <2>1, <2>2
<1>3. CASE Acquire(s)
  <2>1. pc[s] = "queued" /\ pc'[s] = "starting" /\ queue # <<>> /\ s = Head(queue) /\ queue' = Tail(queue)
        /\ free' = free - 1
    BY <1>0, <1>3, HeadQueued DEF Acquire
  <2>2. Elements(queue) = Queued /\ Distinct(queue)
    BY DEF RunInv, SlotInv
  <2>3. Distinct(queue') /\ Elements(queue') = Queued \ {s}
    BY <1>0, <2>1, <2>2, TailElements
  <2>4. Len(queue') = Len(queue) - 1
    BY <1>0, <2>1
  <2> QED BY <1>0, <2>1, <2>3, <2>4, QueueShrinks
<1>4. CASE Cancelled(s)
  <2>1. pc'[s] = "done" /\ free' = IF pc[s] \in Working THEN free + 1 ELSE free
    BY <1>0, <1>4 DEF Cancelled
  <2>2. QueueInv'
    <3>1. CASE pc[s] = "queued"
      BY <1>0, <1>4, <2>1, <3>1, LeavesQueue, QueueShrinks DEF Cancelled
    <3>2. CASE pc[s] # "queued"
      BY <1>0, <1>4, <2>1, <3>2, QueueStays DEF Cancelled, LeaveQueue
    <3> QED BY <3>1, <3>2
  <2> QED BY <1>0, <2>1, <2>2
<1>5. ASSUME queue' = queue, pc[s] # "queued", pc'[s] # "queued",
             free' = free + Holds(pc[s]) - Holds(pc'[s])
      PROVE  /\ QueueInv'
             /\ free' = free + Holds(pc[s]) - Holds(pc'[s])
  BY <1>0, <1>5, QueueStays
<1>6. CASE Reuse(s)
  BY <1>0, <1>5, <1>6 DEF Reuse, Complete
<1>7. CASE StopEarly(s)
  BY <1>0, <1>5, <1>7 DEF StopEarly
<1>8. CASE Start(s) \/ Solve(s) \/ Score(s) \/ Teardown(s)
  <2>1. /\ queue' = queue /\ free' = free
        /\ pc[s] \in {"starting", "solving", "scoring", "teardown"}
        /\ pc'[s] \in {"solving", "scoring", "teardown", "ending"}
    BY <1>0, <1>8 DEF Start, Solve, Score, Teardown, Phase, Quiet
  <2> QED BY <1>0, <1>5, <2>1
<1>9. CASE LogSample(s)
  <2>1. pc[s] = "ending" /\ queue' = queue
    BY <1>9 DEF LogSample, Release
  <2>2. \/ pc'[s] = "leaving" /\ free' = free
        \/ pc'[s] = "done" /\ free' = free + 1
    BY <1>0, <1>9 DEF LogSample, Release
  <2>3. /\ pc[s] # "queued" /\ pc'[s] # "queued"
        /\ free' = free + Holds(pc[s]) - Holds(pc'[s])
    <3>1. CASE pc'[s] = "leaving" /\ free' = free
      BY <1>0, <2>1, <3>1
    <3>2. CASE pc'[s] = "done" /\ free' = free + 1
      BY <1>0, <2>1, <3>2
    <3> QED BY <2>2, <3>1, <3>2
  <2> QED BY <1>5, <2>1, <2>3
<1>10. CASE Retry(s)
  BY <1>0, <1>5, <1>10 DEF Retry, Release
<1>11. CASE Leave(s)
  BY <1>0, <1>5, <1>11 DEF Leave, Release, Complete
<1> QED BY <1>2, <1>3, <1>4, <1>6, <1>7, <1>8, <1>9, <1>10, <1>11 DEF Step

-----------------------------------------------------------------------------
(* Errors *)

(* The sets of failed samples grow, with the count of errors. *)
LEMMA CountGrows ==
  ASSUME CountInv, error_count \in Nat, error_count' \in Nat, Once \subseteq Once', Twice \subseteq Twice',
         NEW s, Once' \subseteq Once \cup {s},
         \/ error_count' = error_count /\ Once' = Once
         \/ error_count' = error_count + 1 /\ (Once # Once' \/ Twice # Twice'),
         IsFiniteSet(Once'), IsFiniteSet(Twice')
  PROVE  CountInv'
<1> DEFINE A == Once
           B == Twice
           C == Once'
           D == Twice'
<1>1. /\ A \in SUBSET C /\ B \in SUBSET D /\ IsFiniteSet(C) /\ IsFiniteSet(D)
      /\ Cardinality(A) <= error_count /\ error_count <= Cardinality(A) + Cardinality(B)
      /\ \/ error_count' = error_count /\ C = A
         \/ error_count' = error_count + 1 /\ (A # C \/ B # D)
      /\ IsFiniteSet(A) /\ IsFiniteSet(B) /\ C \subseteq A \cup {s}
  BY SetsFinite DEF CountInv
<1> HIDE DEF A, B, C, D
<1>2. /\ Cardinality(A) \in Nat /\ Cardinality(B) \in Nat /\ Cardinality(C) \in Nat /\ Cardinality(D) \in Nat
      /\ Cardinality(A) <= Cardinality(C) /\ (A # C => Cardinality(A) # Cardinality(C))
      /\ Cardinality(B) <= Cardinality(D) /\ (B # D => Cardinality(B) # Cardinality(D))
  BY <1>1, FS_Subset, FS_CardinalityType
<1>3. error_count' <= Cardinality(C) + Cardinality(D)
  BY <1>1, <1>2
<1>4. C = A \/ Cardinality(C) = Cardinality(A) + 1
  <2>1. C = A \/ (s \notin A /\ C = A \cup {s})
    BY <1>1
  <2> QED BY <1>1, <2>1, FS_AddElement
<1>5. Cardinality(C) <= error_count'
  BY <1>1, <1>2, <1>4
<1> QED BY <1>3, <1>5 DEF C, D, CountInv

(* An attempt is over when its sandbox is gone. *)
AttemptOver == {"ending", "leaving", "done"}

LEMMA CountMoves ==
  ASSUME RunInv, NEW s \in Samples, Others(s), error_count' \in Nat,
         Ended(s) => Ended(s)', Ended(s) /\ pc[s] \in AttemptOver => pc'[s] \in AttemptOver,
         \/ error_count' = error_count /\ (Ended(s)' => Ended(s))
         \/ /\ error_count' = error_count + 1 /\ Ended(s)'
            /\ ~Ended(s) \/ (pc[s] \notin AttemptOver /\ pc'[s] \in AttemptOver)
  PROVE  CountInv'
<1>1. Once \subseteq Once' /\ Twice \subseteq Twice' /\ Once' \subseteq Once \cup {s}
  BY DEF Others, Once, Twice, Ended, AttemptOver
<1>2. Once' \in SUBSET Samples /\ Twice' \in SUBSET Samples
  BY DEF Once, Twice
<1>3. IsFiniteSet(Once') /\ IsFiniteSet(Twice')
  BY <1>2, SampleRunAssumption, FS_Subset
<1>4. (~Ended(s) /\ Ended(s)') => Once # Once'
  <2>1. s \in Once <=> Ended(s)
    BY DEF Once
  <2>2. s \in Once' <=> Ended(s)'
    BY DEF Once
  <2> QED BY <2>1, <2>2
<1>5. (Ended(s)' /\ pc[s] \notin AttemptOver /\ pc'[s] \in AttemptOver) => Twice # Twice'
  <2>1. s \in Twice => pc[s] \in AttemptOver
    BY DEF Twice, AttemptOver
  <2>2. (Ended(s)' /\ pc'[s] \in AttemptOver) => s \in Twice'
    BY DEF Twice, AttemptOver
  <2> QED BY <2>1, <2>2
<1>6. CountInv /\ error_count \in Nat
  BY DEF RunInv, RunType, ErrorInv
<1>7. (Ended(s)' => Ended(s)) => Once' = Once
  BY <1>1 DEF Once
<1> QED BY <1>1, <1>3, <1>4, <1>5, <1>6, <1>7, CountGrows

(* Once the threshold is reached, further errors do not take that back. *)
LEMMA ThresholdStays ==
  ASSUME RunType, error_count' = error_count + 1, AtThreshold, UNCHANGED config
  PROVE  AtThreshold'
<1>1. config \in Configs /\ error_count \in Nat /\ Dataset \in Nat
  BY SampleRunAssumption DEF RunType
<1>2. \/ config.fail_on_error.kind \in {"always", "never"}
      \/ config.fail_on_error.kind \in {"share", "count"} /\ config.fail_on_error.n \in Nat
  BY <1>1, SampleRunAssumption
<1>3. /\ Tolerance' = Tolerance
      /\ \/ Tolerance.kind \in {"always", "never"}
         \/ Tolerance.kind \in {"share", "count"} /\ Tolerance.n \in Nat
  BY <1>2 DEF Tolerance, Never
<1> HIDE DEF Tolerance
<1> DEFINE fail == Tolerance
           count == error_count
<1>4. /\ ShouldFail(count, Dataset, fail) /\ count \in Nat
      /\ \/ fail.kind \in {"always", "never"}
         \/ fail.kind \in {"share", "count"} /\ fail.n \in Nat
  BY <1>1, <1>3 DEF AtThreshold
<1>5. ShouldFail(count + 1, Dataset, fail)
  <2> HIDE DEF count, fail
  <2>1. CASE fail.kind = "share"
    <3>1. fail.n \in Nat /\ count * fail.n >= Dataset
      BY <1>4, <2>1 DEF ShouldFail
    <3>2. (count + 1) * fail.n = count * fail.n + fail.n /\ count * fail.n \in Nat
      BY <1>4, <3>1
    <3>3. (count + 1) * fail.n >= Dataset
      BY <1>1, <3>1, <3>2
    <3> QED BY <2>1, <3>3 DEF ShouldFail
  <2>2. CASE fail.kind = "count"
    BY <1>4, <2>2 DEF ShouldFail
  <2>3. CASE fail.kind = "always"
    BY <1>4, <2>3 DEF ShouldFail
  <2>4. CASE fail.kind = "never"
    BY <1>4, <2>4 DEF ShouldFail
  <2> QED BY <1>4, <2>1, <2>2, <2>3, <2>4
<1> QED BY <1>3, <1>5 DEF AtThreshold

LEMMA ErrorStep ==
  ASSUME RunInv, NEW s \in Samples, Step(s)
  PROVE  ErrorInv'
<1> USE DEF AttemptOver, Ended, Retrying, slotVars, attemptVars, logVars, Goto, Raise
<1>0. /\ Others(s) /\ RunType /\ RunType' /\ SampleInv(s) /\ ErrorInv
      /\ error_count \in Nat /\ error_count' \in Nat
      /\ pc \in [Samples -> Places] /\ left[s] \in Nat /\ raising \subseteq error
      /\ config' = config /\ Tolerance' = Tolerance
  <2>1. RunType /\ RunType' /\ Others(s) /\ config.retry_on_error \in Nat
    BY StepFrame, SampleRunAssumption DEF RunInv, RunType
  <2> QED BY <2>1 DEF RunInv, RunType, SamplesInv, Others, Tolerance
<1>1. SUFFICES /\ Ended(s) => Ended(s)'
               /\ Ended(s) /\ pc[s] \in AttemptOver => pc'[s] \in AttemptOver
               /\ \/ error_count' = error_count /\ (Ended(s)' => Ended(s))
                  \/ /\ error_count' = error_count + 1 /\ Ended(s)'
                     /\ ~Ended(s) \/ (pc[s] \notin AttemptOver /\ pc'[s] \in AttemptOver)
               /\ RaiseInv'
  <2> HIDE DEF AttemptOver, Ended
  <2> QED BY <1>0, CountMoves DEF ErrorInv
<1>2. RaiseInv /\ (s \in raising => left[s] = 0)
  BY <1>0 DEF ErrorInv, RaiseInv
(* A step that handles no error at most adds a cause, that of an error to be raised. *)
<1>r. ASSUME error_count' = error_count, raising' = raising, left' = left \/ (s \notin raising /\ Others(s)),
             \/ causes' = causes
             \/ \E c \in {"hook", "sample"} : causes' = causes \cup {c} /\ (c = "sample" => s \in raising)
      PROVE  RaiseInv'
  <2>1. AtThreshold' = AtThreshold
    BY <1>0, <1>r DEF AtThreshold
  <2>2. \A t \in raising' : left'[t] = 0
    BY <1>0, <1>2, <1>r DEF RaiseInv, Others, RunType
  <2>3. "sample" \in causes' => "sample" \in causes \/ raising # {}
    BY <1>r
  <2>4. causes # {} => causes' # {}
    BY <1>r
  <2> QED BY <1>2, <1>r, <2>1, <2>2, <2>3, <2>4 DEF RaiseInv
<1>3. CASE Reuse(s)
  BY <1>0, <1>r, <1>3 DEF Reuse, Complete
<1>4. CASE StopEarly(s)
  BY <1>0, <1>r, <1>4 DEF StopEarly
<1>5. CASE Request(s)
  BY <1>0, <1>r, <1>5 DEF Request
<1>6. CASE Acquire(s)
  <2>1. pc[s] = "queued"
    BY <1>6, HeadQueued DEF Acquire
  <2> QED BY <1>0, <1>r, <1>6, <2>1 DEF Acquire
<1>7. ASSUME HandleError(s), UNCHANGED <<left, causes>>
      PROVE  /\ RaiseInv'
             /\ s \in error'
             /\ error_count' = IF left[s] > 0 THEN error_count ELSE error_count + 1
  <2>1. s \in error' /\ error_count' = IF left[s] > 0 THEN error_count ELSE error_count + 1
    BY <1>7 DEF HandleError
  <2>2. CASE left[s] > 0
    <3>1. raising' = raising /\ error_count' = error_count
      BY <1>2, <1>7, <2>2 DEF HandleError
    <3> QED BY <1>7, <1>r, <2>1, <3>1
  <2>3. CASE ~(left[s] > 0)
    <3>1. /\ error_count' = error_count + 1 /\ left[s] = 0
          /\ raising' = IF AtThreshold' THEN raising \cup {s} ELSE raising \ {s}
      BY <1>0, <1>7, <2>3 DEF HandleError, AtThreshold
    <3>2. \A t \in raising' : left'[t] = 0
      BY <1>2, <1>7, <3>1 DEF RaiseInv
    <3>3. AtThreshold => AtThreshold'
      BY <1>0, <3>1, ThresholdStays
    <3>4. raising' # {} \/ "sample" \in causes' => AtThreshold'
      BY <1>2, <1>7, <3>1, <3>3 DEF RaiseInv
    <3>5. AtThreshold' => raising' # {}
      BY <3>1
    <3> QED BY <2>1, <3>1, <3>2, <3>4, <3>5 DEF RaiseInv
  <2> QED BY <2>2, <2>3
<1>8. CASE Start(s) \/ Solve(s) \/ Score(s)
  <2>1. /\ pc[s] \in {"starting", "solving", "scoring"}
        /\ UNCHANGED <<left, causes>>
        /\ UNCHANGED <<attemptVars, error_count>> \/ HandleError(s)
    BY <1>8 DEF Start, Solve, Score, Phase, Quiet
  <2>2. s \notin error
    BY <1>0, <2>1 DEF SampleInv, Fresh
  <2> QED BY <1>0, <1>r, <1>7, <2>1, <2>2
<1>9. CASE Teardown(s)
  <2>1. /\ pc[s] = "teardown" /\ pc'[s] = "ending"
        /\ UNCHANGED <<left, causes>>
        /\ UNCHANGED <<attemptVars, error_count>> \/ HandleError(s)
    BY <1>0, <1>9 DEF Teardown, Phase, Quiet
  <2> QED BY <1>0, <1>r, <1>7, <2>1
<1>10. CASE LogSample(s)
  <2>1. /\ pc'[s] \in {"leaving", "done"} /\ UNCHANGED <<left, attemptVars, error_count>>
        /\ causes' \in {causes, causes \cup {"hook"}}
    BY <1>0, <1>10 DEF LogSample
  <2> QED BY <1>0, <1>r, <2>1
<1>11. CASE Retry(s)
  <2>1. /\ Retrying(s) /\ raising' = raising \ {s} /\ error' = error \ {s}
        /\ UNCHANGED <<error_count, causes>>
    BY <1>11 DEF Retry
  <2>2. s \notin raising /\ raising' = raising
    BY <1>0, <1>2, <2>1
  <2>3. RaiseInv'
    BY <1>0, <1>r, <2>1, <2>2
  <2> QED BY <1>0, <2>1, <2>3
<1>12. CASE Leave(s)
  <2>1. /\ pc'[s] = "done" /\ UNCHANGED <<left, attemptVars, error_count>>
        /\ \/ causes' = causes
           \/ \E c \in {"hook", "sample"} : causes' = causes \cup {c} /\ (c = "sample" => s \in raising)
    BY <1>0, <1>12 DEF Leave, Complete
  <2> QED BY <1>0, <1>r, <2>1
<1>13. CASE Cancelled(s)
  BY <1>0, <1>r, <1>13 DEF Cancelled
<1> QED BY <1>3, <1>4, <1>5, <1>6, <1>8, <1>9, <1>10, <1>11, <1>12, <1>13 DEF Step

-----------------------------------------------------------------------------
(* The other steps of a task *)

(* A task that has ended makes no more steps of its samples. *)
LEMMA StatusStep ==
  ASSUME RunInv, NEW s \in Samples, Step(s)
  PROVE  status = "started" /\ StatusInv'
<1>1. pc[s] # "done"
  BY HeadQueued DEF Step, Reuse, StopEarly, Request, Acquire, Start, Solve, Score, Teardown, Phase,
     LogSample, Retry, Leave, Cancelled
<1>2. status = "started" /\ status' = status
  BY <1>1, StepFrame DEF RunInv, StatusInv, RunType, Others
<1> QED BY <1>2 DEF StatusInv, StatusTruthful

LEMMA RunStep ==
  ASSUME RunInv, NEW s \in Samples, Step(s)
  PROVE  RunInv'
BY StepFrame, SamplesStep, SlotStep, ErrorStep, StatusStep DEF RunInv

(* What a log tells when all samples have ended and nothing cancelled them *)
LEMMA AllEnded ==
  ASSUME RunInv, causes = {}, \A s \in Samples : pc[s] = "done"
  PROVE  /\ Failed = log_error
         /\ \A s \in Samples : /\ logged[s] = IF result[s] = "stopped" THEN 0 ELSE 1
                               /\ result[s] # "none"
                               /\ s \in log_error <=> result[s] = "failed"
         /\ reused \subseteq Clean
<1>1. \A s \in Samples : SampleInv(s)
  BY DEF RunInv, SamplesInv
<1>2. \A s \in Samples :
        /\ logged[s] = IF result[s] = "stopped" THEN 0 ELSE 1
        /\ result[s] # "none"
        /\ s \in log_error <=> result[s] = "failed"
        /\ s \in reused => result[s] = "scores"
  BY <1>1 DEF SampleInv
<1>3. log_error \subseteq Samples /\ reused \subseteq Samples
  BY DEF RunInv, RunType
<1> QED BY <1>2, <1>3 DEF Failed, Clean

LEMMA FinishStep ==
  ASSUME RunInv, FinishTask
  PROVE  RunInv'
<1> USE DEF slotVars, attemptVars, logVars
<1>1. /\ UNCHANGED <<config, reused, pc, left, slotVars, attemptVars, error_count, logVars, result, causes>>
      /\ \A s \in Samples : pc[s] = "done"
      /\ status' = IF causes = {} THEN FinalStatus ELSE IF causes = {"user"} THEN "cancelled" ELSE "error"
  BY DEF FinishTask
<1>2. RunType'
  BY <1>1 DEF RunInv, RunType, FinalStatus
<1>3. SamplesInv' /\ SlotInv' /\ ErrorInv'
  BY <1>1 DEF RunInv, SamplesInv, SampleInv, Ended, Retrying, SlotInv, Queued, AtWork,
     ErrorInv, CountInv, RaiseInv, AtThreshold, Once, Twice,
     Tolerance
<1>4. StatusInv'
  <2> SUFFICES ASSUME status' = "success" PROVE StatusTruthful'
    BY <1>1 DEF StatusInv, StatusTruthful
  <2>1. causes = {} /\ ~ShouldFail(Cardinality(Failed), Cardinality(Samples), config.fail_on_error)
    BY <1>1 DEF FinalStatus
  <2>2. Failed = log_error
    BY <1>1, <2>1, AllEnded
  <2>3. \A s \in log_error : left[s] = 0
    BY DEF RunInv, RunType, SamplesInv, SampleInv, Ended
  <2> QED BY <1>1, <2>1, <2>2, <2>3 DEF StatusTruthful
<1> QED BY <1>2, <1>3, <1>4 DEF RunInv

LEMMA CancelStep ==
  ASSUME RunInv, UserCancels
  PROVE  RunInv'
<1> USE DEF slotVars, attemptVars, logVars
<1>1. /\ UNCHANGED <<config, reused, pc, left, slotVars, attemptVars, error_count, logVars, result, status>>
      /\ status = "started" /\ causes' = causes \cup {"user"}
  BY DEF UserCancels
<1>2. RunType'
  BY <1>1 DEF RunInv, RunType
<1>3. SamplesInv' /\ SlotInv' /\ ErrorInv' /\ StatusInv'
  BY <1>1 DEF RunInv, SamplesInv, SampleInv, Ended, Retrying, SlotInv, Queued, AtWork,
     ErrorInv, CountInv, RaiseInv, AtThreshold, Once, Twice,
     Tolerance,
     StatusInv, StatusTruthful
<1> QED BY <1>2, <1>3 DEF RunInv

LEMMA Unchanged ==
  ASSUME RunInv, UNCHANGED sampleVars
  PROVE  RunInv'
BY DEF RunInv, sampleVars, slotVars, attemptVars, logVars, RunType, SamplesInv, SampleInv, Ended, Retrying, SlotInv,
   Queued, AtWork, ErrorInv, CountInv, RaiseInv, AtThreshold, Once, Twice,
     Tolerance, StatusInv, StatusTruthful

(* A run begins without a trace of an earlier one but what is taken from it. *)
LEMMA RunBegins == Init => RunInv
<1> SUFFICES ASSUME Init PROVE RunInv
  OBVIOUS
<1> USE DEF Init
<1>0. config.retry_on_error \in Nat /\ MaxSamples \in Nat /\ reused \subseteq Samples
  BY SampleRunAssumption
<1>1. RunType
  BY <1>0 DEF RunType, Places
<1>2. SamplesInv
  BY DEF SamplesInv, SampleInv, Fresh
<1>3. SlotInv
  <2>1. Queued = {} /\ AtWork = {} /\ Elements(queue) = {} /\ Distinct(queue) /\ Len(queue) = 0
    BY DEF Queued, AtWork, Working, Elements, Distinct
  <2> QED BY <1>0, <2>1, FS_EmptySet DEF SlotInv
<1>4. ErrorInv
  <2>1. Once = {} /\ 0 <= Cardinality(Once) + Cardinality(Twice)
    BY SetsFinite DEF Once, Ended
  <2> QED BY <2>1, FS_EmptySet DEF ErrorInv, CountInv, RaiseInv
<1>5. StatusInv
  BY DEF StatusInv, StatusTruthful
<1> QED BY <1>1, <1>2, <1>3, <1>4, <1>5 DEF RunInv

LEMMA RunRestarts ==
  ASSUME RunInv, NEW source \in SUBSET Samples, Restart(source)
  PROVE  RunInv'
<1> USE DEF Restart
<1>0. config \in Configs /\ config.retry_on_error \in Nat /\ MaxSamples \in Nat
  BY SampleRunAssumption DEF RunInv, RunType
<1>1. RunType'
  BY <1>0 DEF RunType, Places
<1>2. SamplesInv'
  BY DEF SamplesInv, SampleInv, Fresh
<1>3. SlotInv'
  <2>1. Queued' = {} /\ AtWork' = {} /\ Elements(queue') = {} /\ Distinct(queue') /\ Len(queue') = 0
    BY DEF Queued, AtWork, Working, Elements, Distinct
  <2> QED BY <1>0, <2>1, FS_EmptySet DEF SlotInv
<1>4. ErrorInv'
  <2>1. Once' = {} /\ Twice' = {}
    BY DEF Once, Twice, Ended
  <2> QED BY <2>1, FS_EmptySet DEF ErrorInv, CountInv, RaiseInv
<1>5. StatusInv'
  BY DEF StatusInv, StatusTruthful
<1> QED BY <1>1, <1>2, <1>3, <1>4, <1>5 DEF RunInv

-----------------------------------------------------------------------------
(* The directory of logs *)

LogsTrue == \A i \in DOMAIN logs : LogTrue(logs[i])

LEMMA SourceIs ==
  ASSUME logs \in Seq(Log)
  PROVE  SampleSource \subseteq Samples
<1>1. ASSUME logs # <<>> PROVE Last(logs) \in Log
  <2> DEFINE L == Log
  <2>1. logs \in Seq(L)
    OBVIOUS
  <2> HIDE DEF L
  <2>2. Last(logs) \in L
    BY <1>1, <2>1 DEF Last
  <2> QED BY <2>2 DEF L
<1> QED BY <1>1 DEF SampleSource, Log

LEMMA LogAdded ==
  ASSUME logs \in Seq(Log), LogsTrue, everLogged \subseteq Samples, config' = config,
         NEW log \in Log, LogTrue(log), AddLog(log)
  PROVE  logs' \in Seq(Log) /\ LogsTrue' /\ everLogged' \subseteq Samples
<1> DEFINE L == Log
<1>1. logs \in Seq(L) /\ log \in L /\ logs' = Append(logs, log)
  BY DEF AddLog
<1>2. everLogged' \subseteq Samples
  BY DEF AddLog, Log
<1> HIDE DEF L
<1>3. /\ logs' \in Seq(L) /\ DOMAIN logs = 1..Len(logs) /\ DOMAIN logs' = 1..Len(logs) + 1 /\ Len(logs) \in Nat
      /\ \A i \in 1..Len(logs) : logs'[i] = logs[i]
      /\ logs'[Len(logs) + 1] = log
  BY <1>1, AppendItems
<1>4. \A i \in 1..Len(logs) + 1 : i \in 1..Len(logs) \/ i = Len(logs) + 1
  BY <1>3
<1>5. \A l : LogTrue(l)' <=> LogTrue(l)
  BY DEF LogTrue
<1>6. \A i \in DOMAIN logs' : LogTrue(logs'[i])
  BY <1>3, <1>4 DEF LogsTrue
<1> QED BY <1>2, <1>3, <1>6 DEF LogsTrue, LogTrue, L

LEMMA LogsCleaned ==
  ASSUME logs \in Seq(Log), LogsTrue, config' = config, logs' = Cleaned
  PROVE  /\ logs' \in Seq(Log) /\ LogsTrue'
         /\ SampleSource' = SampleSource
         /\ logs # <<>> => logs' # <<>> /\ Last(logs') = Last(logs)
         /\ \A i \in 1..Len(logs') - 1 : logs'[i].status = "started"
<1>1. /\ logs' \in Seq(Log)
      /\ \A j \in DOMAIN logs' : \E k \in DOMAIN logs : logs'[j] = logs[k]
      /\ \A j \in 1..Len(logs') - 1 : logs'[j].status = "started"
      /\ logs' = <<>> <=> logs = <<>>
      /\ logs # <<>> => Last(logs') = Last(logs)
  BY CleanedKeeps
<1>2. LogsTrue'
  BY <1>1 DEF LogsTrue, LogTrue
<1>3. SampleSource' = SampleSource
  BY <1>1 DEF SampleSource
<1> QED BY <1>1, <1>2, <1>3

-----------------------------------------------------------------------------
(* Steps of the set *)

LEMMA TaskRunsStep == ASSUME SetInv, TaskRuns PROVE SetInv'
<1>1. PICK s \in Samples : Step(s)
  BY DEF TaskRuns
<1>2. RunInv' /\ Others(s)
  BY <1>1, RunStep, StepFrame DEF SetInv
<1>3. UNCHANGED setVars /\ config' = config /\ reused' = reused
  BY <1>2 DEF TaskRuns, Others
<1> QED BY <1>2, <1>3 DEF SetInv, PassType, PassInv, setVars, SampleSource, LogTrue, OneLogLeft

LEMMA TaskEndsStep == ASSUME SetInv, TaskEnds PROVE SetInv'
<1>1. RunInv' /\ config' = config
  BY FinishStep DEF SetInv, TaskEnds, FinishTask
<1>2. PICK log : /\ AddLog(log) /\ log.status = status' /\ log.done = Clean /\ log.errors = log_error /\ log \in Log
  <2> DEFINE log == [status |-> status', done |-> Clean, errors |-> log_error,
                     results |-> causes = {} /\ \E s \in Samples : result[s] = "scores"]
  <2>1. AddLog(log)
    BY DEF TaskEnds
  <2>2. status' \in {"started", "success", "error", "cancelled"} /\ Clean \subseteq Samples /\ log_error \subseteq Samples
    BY <1>1 DEF SetInv, RunInv, RunType, Clean
  <2>3. (causes = {} /\ \E s \in Samples : result[s] = "scores") \in BOOLEAN
    OBVIOUS
  <2>4. log \in Log
    BY <2>2, <2>3 DEF Log
  <2> QED BY <2>1, <2>4
<1>3. LogTrue(log)
  <2>1. StatusTruthful' /\ log_error' = log_error
    BY <1>1 DEF RunInv, StatusInv, TaskEnds, FinishTask, logVars
  <2> QED BY <1>1, <1>2, <2>1 DEF LogTrue, StatusTruthful, Clean
<1>4. logs' \in Seq(Log) /\ LogsTrue' /\ everLogged' \subseteq Samples
  BY <1>1, <1>2, <1>3, LogAdded DEF SetInv, PassType, PassInv, LogsTrue
<1>5. /\ "task" \in active /\ active' = active \ {"task"} /\ UNCHANGED <<stage, attempts, invocations, other>>
  BY DEF TaskEnds
<1>6. stage \notin Over \cup {"between"}
  BY <1>5 DEF SetInv, PassInv
<1>7. PassType'
  BY <1>4, <1>5 DEF SetInv, PassType
<1>8. PassInv'
  BY <1>4, <1>5, <1>6 DEF PassInv, LogsTrue, OneLogLeft, Over
<1> QED BY <1>1, <1>7, <1>8 DEF SetInv

LEMMA InvokeStep == ASSUME SetInv, Invoke PROVE SetInv'
<1>1. RunInv' /\ config' = config /\ reused' = reused
  BY Unchanged DEF SetInv, Invoke, sampleVars
<1>2. PassType'
  BY EvalSetAssumption DEF SetInv, PassType, Invoke
<1>3. PassInv'
  <2>1. 0 < MaxAttempts
    BY EvalSetAssumption
  <2> QED BY <1>1, <2>1 DEF SetInv, PassInv, Invoke, Over, SampleSource, LogTrue, OneLogLeft
<1> QED BY <1>1, <1>2, <1>3 DEF SetInv

LEMMA PassStep ==
  ASSUME SetInv, stage = "between", NEW tasks \in SUBSET {"task", "other"}, Pass(tasks),
         logs' = logs \/ logs' = Cleaned
  PROVE  SetInv'
<1>1. RunInv' /\ config' = config
  <2>1. CASE "task" \in tasks
    <3>1. SampleSource \in SUBSET Samples
      BY SourceIs DEF SetInv, PassType
    <3> QED BY <2>1, <3>1, RunRestarts DEF SetInv, Pass, Restart
  <2>2. CASE "task" \notin tasks
    BY <2>2, Unchanged DEF SetInv, Pass, sampleVars
  <2> QED BY <2>1, <2>2
<1>2. logs' \in Seq(Log) /\ LogsTrue' /\ SampleSource' = SampleSource
  <2>1. CASE logs' = logs
    BY <1>1, <2>1 DEF SetInv, PassType, PassInv, LogsTrue, LogTrue, SampleSource
  <2>2. CASE logs' = Cleaned
    BY <1>1, <2>2, LogsCleaned DEF SetInv, PassType, PassInv, LogsTrue
  <2> QED BY <2>1, <2>2
<1>3. /\ stage' = "pass" /\ attempts' = attempts + 1 /\ active' = tasks
      /\ UNCHANGED <<invocations, other, everLogged>>
      /\ "task" \in tasks => reused' = SampleSource
  BY DEF Pass, Restart
<1>4. attempts' \in 0..MaxAttempts
  <2>1. attempts < MaxAttempts /\ attempts \in 0..MaxAttempts /\ MaxAttempts \in Nat
    BY EvalSetAssumption DEF SetInv, PassInv, PassType
  <2> QED BY <1>3, <2>1
<1>5. PassType'
  BY <1>2, <1>3, <1>4 DEF SetInv, PassType
<1>6. PassInv'
  BY <1>2, <1>3 DEF PassInv, Over, LogsTrue, OneLogLeft
<1> QED BY <1>1, <1>5, <1>6 DEF SetInv

LEMMA NothingToDoStep == ASSUME SetInv, NothingToDo PROVE SetInv'
<1>1. RunInv' /\ config' = config
  BY Unchanged DEF SetInv, NothingToDo, sampleVars
<1>2. /\ logs # <<>> /\ Last(logs).status = "success" /\ other = "success"
  BY DEF NothingToDo, Pending, Incomplete, TaskComplete
<1>3. /\ logs' \in Seq(Log) /\ LogsTrue'
      /\ logs' # <<>> /\ Last(logs') = Last(logs)
      /\ \A i \in 1..Len(logs') - 1 : logs'[i].status = "started"
  BY <1>1, <1>2, LogsCleaned DEF SetInv, PassType, PassInv, LogsTrue, NothingToDo
<1>4. /\ stage = "between" /\ stage' = "success" /\ UNCHANGED <<attempts, invocations, active, other, everLogged>>
      /\ active = {}
  BY DEF SetInv, PassInv, NothingToDo
<1>5. PassType'
  BY <1>3, <1>4 DEF SetInv, PassType, Over
<1>6. PassInv'
  BY <1>2, <1>3, <1>4 DEF PassInv, LogsTrue, OneLogLeft
<1> QED BY <1>1, <1>5, <1>6 DEF SetInv

LEMMA OtherEndsStep == ASSUME SetInv, OtherEnds PROVE SetInv'
<1>1. RunInv' /\ config' = config
  BY Unchanged DEF SetInv, OtherEnds, sampleVars
<1>2. /\ active = {"other"} /\ active' = {} /\ UNCHANGED <<stage, attempts, invocations, logs, everLogged>>
      /\ other' \in {"success", "failed"}
  BY DEF OtherEnds
<1>3. stage \notin Over \cup {"between"}
  BY <1>2 DEF SetInv, PassInv
<1>4. PassType'
  BY <1>2 DEF SetInv, PassType
<1>5. PassInv'
  BY <1>1, <1>2, <1>3 DEF SetInv, PassInv, LogTrue, OneLogLeft, Over
<1> QED BY <1>1, <1>4, <1>5 DEF SetInv

LEMMA InterruptStep == ASSUME SetInv, Interrupt PROVE SetInv'
<1>1. RunInv' /\ config' = config /\ reused' = reused
  BY CancelStep DEF SetInv, Interrupt, UserCancels
<1>2. stage' = "cancelling" /\ UNCHANGED <<attempts, invocations, active, logs, other, everLogged>>
  BY DEF Interrupt
<1>3. PassType'
  BY <1>2 DEF SetInv, PassType
<1>4. PassInv'
  BY <1>1, <1>2 DEF SetInv, PassInv, SampleSource, LogTrue, OneLogLeft, Over
<1> QED BY <1>1, <1>3, <1>4 DEF SetInv

LEMMA CrashStep == ASSUME SetInv, Crash PROVE SetInv'
<1>1. RunInv' /\ config' = config
  BY RunRestarts DEF SetInv, Crash, Restart
<1>2. logs' \in Seq(Log) /\ LogsTrue' /\ everLogged' \subseteq Samples
  <2>1. CASE UNCHANGED <<logs, everLogged>>
    BY <1>1, <2>1 DEF SetInv, PassType, PassInv, LogsTrue, LogTrue
  <2>2. CASE \E D \in SUBSET Clean :
               AddLog([status |-> "started", results |-> FALSE, done |-> D, errors |-> {}])
    <3>1. PICK D \in SUBSET Clean :
               AddLog([status |-> "started", results |-> FALSE, done |-> D, errors |-> {}])
      BY <2>2
    <3> DEFINE log == [status |-> "started", results |-> FALSE, done |-> D, errors |-> {}]
    <3>2. log \in Log /\ LogTrue(log)
      BY DEF Log, LogTrue, Clean
    <3> HIDE DEF log
    <3>3. AddLog(log)
      BY <3>1 DEF log
    <3> QED BY <1>1, <3>2, <3>3, LogAdded DEF SetInv, PassType, PassInv, LogsTrue
  <2> QED BY <2>1, <2>2 DEF Crash
<1>3. stage' = "idle" /\ active' = {} /\ UNCHANGED <<attempts, invocations>> /\ other' \in {other, "failed", "success"}
  BY DEF Crash
<1>4. PassType'
  BY <1>2, <1>3 DEF SetInv, PassType, Over
<1>5. PassInv'
  BY <1>2, <1>3 DEF PassInv, LogsTrue, OneLogLeft
<1> QED BY <1>1, <1>4, <1>5 DEF SetInv

LEMMA EndPassStep == ASSUME SetInv, EndPass PROVE SetInv'
<1>1. RunInv' /\ config' = config
  BY Unchanged DEF SetInv, EndPass, sampleVars
<1>2. /\ active = {} /\ stage' = Outcome /\ UNCHANGED <<attempts, invocations, active, other, everLogged>>
      /\ logs' = IF stage' \in {"success", "failure"} THEN Cleaned ELSE logs
  BY DEF EndPass
<1>3. logs' \in Seq(Log) /\ LogsTrue'
  BY <1>1, <1>2, LogsCleaned DEF SetInv, PassType, PassInv, LogsTrue, LogTrue
<1>4. stage' = "success" => logs' # <<>> /\ Last(logs').status = "success" /\ other' = "success"
  <2> SUFFICES ASSUME stage' = "success" PROVE logs' # <<>> /\ Last(logs').status = "success" /\ other' = "success"
    OBVIOUS
  <2>1. Succeeded /\ logs' = Cleaned
    BY <1>2 DEF Outcome
  <2> QED BY <1>1, <1>2, <2>1, LogsCleaned DEF Succeeded, SetInv, PassType, PassInv, LogsTrue
<1>5. OneLogLeft'
  BY <1>1, <1>2, LogsCleaned DEF OneLogLeft, SetInv, PassType, PassInv, LogsTrue
<1>6. stage' = "between" => attempts < MaxAttempts
  <2>1. attempts \in 0..MaxAttempts /\ MaxAttempts \in Nat
    BY EvalSetAssumption DEF SetInv, PassType
  <2> QED BY <1>2, <2>1 DEF Outcome
<1>7. PassType'
  BY <1>2, <1>3 DEF SetInv, PassType, Outcome, Over
<1>8. PassInv'
  BY <1>2, <1>3, <1>4, <1>5, <1>6 DEF PassInv, LogsTrue
<1> QED BY <1>1, <1>7, <1>8 DEF SetInv

LEMMA SetStep == SetInv /\ [SetNext]_vars => SetInv'
<1> SUFFICES ASSUME SetInv, [SetNext]_vars PROVE SetInv'
  OBVIOUS
<1>1. CASE FirstPass
  BY <1>1, PassStep DEF FirstPass, Pending
<1>2. CASE RetryPass
  BY <1>2, PassStep DEF RetryPass, Incomplete
<1>3. CASE UNCHANGED vars
  <2>1. RunInv' /\ config' = config /\ reused' = reused
    BY <1>3, Unchanged DEF SetInv, vars, sampleVars
  <2> QED BY <1>3, <2>1 DEF SetInv, PassType, PassInv, vars, setVars, SampleSource, LogTrue, OneLogLeft
<1> QED BY <1>1, <1>2, <1>3, InvokeStep, NothingToDoStep, TaskRunsStep, TaskEndsStep, OtherEndsStep, EndPassStep,
           InterruptStep, CrashStep DEF SetNext, SetRuns

LEMMA SetBegins == SetInit => SetInv
<1> SUFFICES ASSUME SetInit PROVE SetInv
  OBVIOUS
<1>1. RunInv
  BY RunBegins DEF SetInit
<1>2. PassType
  BY EvalSetAssumption DEF SetInit, PassType, Over
<1>3. PassInv
  BY DEF SetInit, PassInv, OneLogLeft
<1> QED BY <1>1, <1>2, <1>3 DEF SetInv

LEMMA Invariant == SetSpec => []SetInv
BY SetBegins, SetStep, PTL DEF SetSpec

-----------------------------------------------------------------------------
(* Theorems *)

(* The state of a set and of its samples stays within its types, and neither errors, retries,
   cancellations, interrupts nor crashes lose a slot or leave a sample in the queue. *)
THEOREM PassConsistentCorrect == SetSpec => []PassConsistent
<1>1. SetInv => PassConsistent
  <2> SUFFICES ASSUME SetInv PROVE PassConsistent
    OBVIOUS
  <2>1. /\ RunType /\ SlotInv /\ ErrorInv /\ PassType
    BY DEF SetInv, RunInv
  <2>2. free \in 0..MaxSamples
    <3>1. free \in Nat /\ Cardinality(AtWork) \in Nat /\ free + Cardinality(AtWork) = MaxSamples /\ MaxSamples \in Nat
      BY <2>1, SetsFinite, SampleRunAssumption DEF RunType, SlotInv
    <3>2. free <= free + Cardinality(AtWork)
      BY <3>1
    <3>3. free <= MaxSamples
      BY <3>1, <3>2
    <3> QED BY <3>1, <3>3
  <2>3. error_count \in 0..(2 * Cardinality(Samples))
    <3> DEFINE a == Cardinality(Once)
               b == Cardinality(Twice)
               n == Cardinality(Samples)
    <3>1. Once \in SUBSET Samples /\ Twice \in SUBSET Samples
      BY DEF Once, Twice
    <3>2. a <= n /\ b <= n /\ a \in Nat /\ b \in Nat /\ n \in Nat
      BY <3>1, SetsFinite, SampleRunAssumption, FS_Subset, FS_CardinalityType
    <3>3. error_count \in Nat /\ error_count <= a + b
      BY <2>1 DEF RunType, ErrorInv, CountInv
    <3> HIDE DEF a, b, n
    <3>4. error_count \in 0..(2 * n)
      BY <3>2, <3>3
    <3> QED BY <3>4 DEF n
  <2>4. TypeOK
    BY <2>1, <2>2, <2>3 DEF RunType, TypeOK
  <2>5. SlotsConserved
    <3>1. \A s \in Samples : pc[s] = "queued" <=> \E i \in DOMAIN queue : queue[i] = s
      BY <2>1 DEF SlotInv, Elements, Queued
    <3> QED BY <2>1, <3>1 DEF SlotInv, SlotsConserved, Queued, AtWork
  <2> QED BY <2>1, <2>4, <2>5 DEF PassConsistent, SetTypeOK, PassType
<1> QED BY <1>1, Invariant, PTL

(* In every finished run each sample that was not stopped early is in the log exactly once,
   with an error exactly if it has no scores, and what an earlier log held complete still is;
   the events of one attempt only are with the logger. *)
THEOREM SamplesLoggedCorrect == SetSpec => []SamplesLogged
<1>1. SetInv => SamplesLogged
  <2> SUFFICES ASSUME SetInv PROVE SamplesLogged
    OBVIOUS
  <2>1. RunInv /\ \A s \in Samples : SampleInv(s)
    BY DEF SetInv, RunInv, SamplesInv
  <2>2. Finished => causes = {} /\ \A s \in Samples : pc[s] = "done"
    BY <2>1 DEF RunInv, StatusInv, Finished
  <2>3. LoggedOnce /\ CarriedOver
    BY <2>1, <2>2, AllEnded DEF LoggedOnce, CarriedOver
  <2>4. EventsOfOneAttempt
    BY <2>1 DEF EventsOfOneAttempt, SampleInv
  <2> QED BY <2>3, <2>4 DEF SamplesLogged
<1> QED BY <1>1, Invariant, PTL

(* A log says success only within the tolerance; errors stop the samples that run exactly from the
   threshold on; and errors of last attempts count, each sample's once or twice, whatever the samples
   do at the same time. *)
THEOREM ErrorsCountedCorrect == SetSpec => []ErrorsCounted
<1>1. SetInv => ErrorsCounted
  <2> SUFFICES ASSUME SetInv PROVE ErrorsCounted
    OBVIOUS
  <2>1. RunType /\ CountInv /\ RaiseInv /\ StatusInv
    BY DEF SetInv, RunInv, ErrorInv
  <2>2. LastAttemptsCounted
    <3> DEFINE a == Cardinality(Once)
               b == Cardinality(Twice)
    <3>1. Twice \in SUBSET Once /\ Once = Erred
      BY <2>1 DEF Once, Twice, Ended, Erred, RunType
    <3>2. a \in Nat /\ b \in Nat /\ b <= a
      BY <3>1, SetsFinite, FS_Subset
    <3>3. error_count \in Nat /\ a <= error_count /\ error_count <= a + b
      BY <2>1 DEF RunType, CountInv
    <3> HIDE DEF a, b
    <3>4. a <= error_count /\ error_count <= 2 * a
      BY <3>2, <3>3
    <3> QED BY <3>1, <3>4 DEF a, LastAttemptsCounted
  <2>3. StoppedAtThreshold
    BY <2>1 DEF StoppedAtThreshold, RaiseInv
  <2> QED BY <2>1, <2>2, <2>3 DEF ErrorsCounted, StatusInv
<1> QED BY <1>1, Invariant, PTL

(* When a set ends with success the latest log of the task is a success within the tolerance,
   and in the end no log but the latest and those of crashes is left. *)
THEOREM DirectoryTrueCorrect == SetSpec => []DirectoryTrue
<1>1. SetInv => DirectoryTrue
  <2> SUFFICES ASSUME SetInv PROVE DirectoryTrue
    OBVIOUS
  <2>1. PassInv /\ logs \in Seq(Log)
    BY DEF SetInv, PassType
  <2>2. logs # <<>> => LogTrue(Last(logs))
    <3> DEFINE L == Log
    <3>1. logs \in Seq(L)
      BY <2>1
    <3> HIDE DEF L
    <3>2. logs # <<>> => Len(logs) \in DOMAIN logs
      BY <3>1
    <3> QED BY <2>1, <3>2 DEF PassInv, Last
  <2>3. SuccessIsWhole
    BY <2>1, <2>2 DEF PassInv, SuccessIsWhole, LogTrue
  <2> QED BY <2>1, <2>3 DEF PassInv, DirectoryTrue
<1> QED BY <1>1, Invariant, PTL

(* A sample that the latest log holds complete is not run again by a retry. *)
THEOREM NotRunAgainCorrect == SetSpec => []NotRunAgain
<1>1. SetInv => NotRunAgain
  <2> SUFFICES ASSUME SetInv, "task" \in active, logs # <<>>, NEW s \in Last(logs).done
               PROVE  pc[s] \notin Working \cup {"queued"} /\ result[s] # "failed"
    BY DEF NotRunAgain
  <2>1. reused = SampleSource /\ reused \subseteq Samples
    BY DEF SetInv, PassInv, RunInv, RunType
  <2>2. s \in reused /\ s \in Samples
    BY <2>1 DEF SampleSource
  <2>3. SampleInv(s)
    BY <2>2 DEF SetInv, RunInv, SamplesInv
  <2> QED BY <2>2, <2>3 DEF SampleInv, Working
<1> QED BY <1>1, Invariant, PTL
=============================================================================
