------------------------------- MODULE Batcher -------------------------------
(***************************************************************************)
(* The Batcher of model/_providers/util/batch.py: concurrent callers queue *)
(* requests, and one background worker groups them into batches, submits   *)
(* them to the provider's batch service, polls the batches in flight and   *)
(* sends every caller its answer through a one-place stream.               *)
(*                                                                         *)
(* The worker and the callers are coroutines: an action is what one does   *)
(* between two awaits.  The checks of the batches in flight run in a task  *)
(* group, so they interleave with each other.                              *)
(***************************************************************************)
EXTENDS Integers, Sequences, FiniteSets

CONSTANTS
  Requests,
  Size,             \* bytes of each request
  MinCount,         \* BatchConfig.size
  MaxCount,         \* BatchConfig.max_size
  MaxBatches,       \* BatchConfig.max_batches
  MaxCheckFailures, \* BatchConfig.max_consecutive_check_failures
  Situations        \* records of callers, max_size, faults, in_eval: one holds for a behaviour

(* create, check, handle: the provider's operation raises (for create and  *)
(* handle, after its retries).  reject: the service refuses a whole batch. *)
(* missing, unknown: the results lack a request's id, hold a foreign one.  *)
(* cancel: a caller gives up, e.g. at a sample's time limit.               *)
AllFaults == {"create", "check", "handle", "reject", "missing", "unknown", "cancel"}

ASSUME BatcherAssumption ==
  /\ IsFiniteSet(Requests)
  /\ "unknown" \notin Requests
  /\ Size \in [Requests -> Nat \ {0}]
  /\ {MinCount, MaxCount, MaxBatches, MaxCheckFailures} \subseteq Nat \ {0}
  /\ Situations \subseteq
       [callers : SUBSET Requests, max_size : Nat \ {0}, faults : SUBSET AllFaults, in_eval : BOOLEAN]

Ids == 1..Cardinality(Requests)  \* a batch has at least one request
Unknown == "unknown"             \* an id that is none of the batch's

VARIABLES
  situation, \* what this behaviour runs in
  call,     \* each caller: new | waiting | response | error | cancelled
  stream,   \* each caller's stream: none, or the answer in its buffer
  intake,   \* _intake_queue
  opened,   \* is there a _next_batch?
  next,     \* the requests of _next_batch
  late,     \* has the time-out of _next_batch passed?
  created,  \* how many batches have been created
  inflight, \* _inflight_batches: the requests of each, {} if not in flight
  failures, \* consecutive_check_failure_count of each batch
  ended,    \* at the service: the batches that are complete
  running,  \* _is_batch_worker_running
  wpc,      \* the worker: off | top | checking | intake | creating | failing | sleeping | dead
  creating, \* the requests of the batch being created (or failed)
  phase,    \* per batch: idle | polling | handling | results | failing | failing_results | failing_again
  todo      \* per batch: what is still to be sent

callerVars == <<call, stream>>
nextVars == <<opened, next, late>>
batchVars == <<created, inflight, failures>>
workerVars == <<running, wpc, creating>>
checkVars == <<phase, todo>>
vars == <<situation, callerVars, intake, nextVars, batchVars, ended, workerVars, checkVars>>

MaxSize == situation.max_size   \* bytes of a batch (95% of the provider's limit)
Faults == situation.faults      \* what may go wrong, see AllFaults
InEval == situation.in_eval     \* does the worker run in the task group of an eval?

TypeOK ==
  /\ situation \in Situations
  /\ call \in [Requests -> {"new", "waiting", "response", "error", "cancelled"}]
  /\ stream \in [Requests -> {"none", "response", "error"}]
  /\ intake \in Seq(Requests)
  /\ opened \in BOOLEAN /\ late \in BOOLEAN /\ running \in BOOLEAN
  /\ next \subseteq Requests /\ creating \subseteq Requests
  /\ created \in {0} \cup Ids
  /\ inflight \in [Ids -> SUBSET Requests]
  /\ failures \in [Ids -> 0..MaxCheckFailures]
  /\ ended \subseteq Ids
  /\ wpc \in {"off", "top", "checking", "intake", "creating", "failing", "sleeping", "dead"}
  /\ phase \in [Ids -> {"idle", "polling", "handling", "results", "failing",
                        "failing_results", "failing_again"}]
  /\ todo \in [Ids -> SUBSET (Requests \cup {Unknown})]

Init ==
  /\ situation \in Situations
  /\ call = [r \in Requests |-> "new"]
  /\ stream = [r \in Requests |-> "none"]
  /\ intake = <<>>
  /\ opened = FALSE /\ next = {} /\ late = FALSE
  /\ created = 0
  /\ inflight = [b \in Ids |-> {}]
  /\ failures = [b \in Ids |-> 0]
  /\ ended = {}
  /\ running = FALSE /\ wpc = "off" /\ creating = {}
  /\ phase = [b \in Ids |-> "idle"]
  /\ todo = [b \in Ids |-> {}]

InFlight == {b \in Ids : inflight[b] # {}}

-----------------------------------------------------------------------------
(* The callers *)

(* generate_for_request(): queue the request and see that a worker runs.   *)
Generate(r) ==
  /\ call[r] = "new" /\ r \in situation.callers
  /\ ~(InEval /\ wpc = "dead")      \* the eval has failed
  /\ call' = [call EXCEPT ![r] = "waiting"]
  /\ intake' = Append(intake, r)
  /\ running' = TRUE
  /\ wpc' = IF running THEN wpc ELSE "top"
  /\ UNCHANGED <<situation, stream, nextVars, batchVars, ended, creating, checkVars>>

(* The receive returns, or the exception received is raised. *)
Return(r) ==
  /\ call[r] = "waiting" /\ stream[r] # "none"
  /\ call' = [call EXCEPT ![r] = stream[r]]
  /\ stream' = [stream EXCEPT ![r] = "none"]
  /\ UNCHANGED <<situation, intake, nextVars, batchVars, ended, workerVars, checkVars>>

CallerCancelled(r) ==
  /\ "cancel" \in Faults
  /\ call[r] = "waiting"
  /\ call' = [call EXCEPT ![r] = "cancelled"]
  /\ UNCHANGED <<situation, stream, intake, nextVars, batchVars, ended, workerVars, checkVars>>

-----------------------------------------------------------------------------
(* The worker's loop *)

Work_NextIgnored == InFlight # {} \/ intake # <<>> \* mutant: _next_batch is not looked at

(* The condition of the loop *)
Work == InFlight # {} \/ intake # <<>> \/ next # {}

LoopExit ==
  /\ wpc = "top" /\ ~Work
  /\ running' = FALSE /\ wpc' = "off"
  /\ UNCHANGED <<situation, callerVars, intake, nextVars, batchVars, ended, creating, checkVars>>

(* _check_inflight_batches(): start a check of every batch in flight. *)
CheckAll ==
  /\ wpc = "top" /\ Work
  /\ wpc' = "checking"
  /\ phase' = [b \in Ids |-> IF b \in InFlight THEN "polling" ELSE "idle"]
  /\ UNCHANGED <<situation, callerVars, intake, nextVars, batchVars, ended, running, creating, todo>>

(* The task group of the checks has ended. *)
Checked ==
  /\ wpc = "checking"
  /\ \A b \in Ids : phase[b] = "idle"
  /\ wpc' = "intake"
  /\ UNCHANGED <<situation, callerVars, intake, nextVars, batchVars, ended, running, creating, checkVars>>

WakeUp ==
  /\ wpc = "sleeping"
  /\ wpc' = "top"
  /\ UNCHANGED <<situation, callerVars, intake, nextVars, batchVars, ended, running, creating, checkVars>>

(* An exception escapes from the worker: its checks are cancelled, running *)
(* is left as it is; in an eval, the whole task group is cancelled.        *)
Escape ==
  /\ wpc' = "dead"
  /\ creating' = {}
  /\ phase' = [b \in Ids |-> "idle"]
  /\ todo' = [b \in Ids |-> {}]
  /\ call' = [r \in Requests |-> IF InEval /\ call[r] = "waiting" THEN "cancelled" ELSE call[r]]
  /\ UNCHANGED <<situation, intake, opened, late, created, failures, ended, running>>

-----------------------------------------------------------------------------
(* The intake queue: _process_intake_queue() and _assess_intake_queue() *)

(* The sum of the sizes of the requests in R: all their bytes, counted *)
Bytes(R) == Cardinality(UNION {{r} \X (1..Size[r]) : r \in R})
First(k) == {intake[i] : i \in 1..k}

(* Can the first k requests of the queue join the next batch? *)
Fits(k) ==
  /\ k = 0 \/ Cardinality(next) + k <= MaxCount
  /\ k = 0 \/ Bytes(next) + Bytes(First(k)) <= MaxSize

AddCount == CHOOSE k \in 0..Len(intake) : Fits(k) /\ (k < Len(intake) => ~Fits(k + 1))

BatchFull ==
  \/ Cardinality(next) + AddCount >= MaxCount
  \/ AddCount < Len(intake)
  \/ Bytes(next) >= MaxSize

ShouldSend_NoTimeout == \* mutant: the time-out does not send
  BatchFull \/ Cardinality(next) + AddCount >= MinCount

ShouldSend ==
  \/ BatchFull
  \/ Cardinality(next) + AddCount >= MinCount
  \/ late /\ Cardinality(next) + AddCount > 0

HasRoom_One(n) == n <= MaxBatches \* mutant: off by one

HasRoom(n) == n < MaxBatches

IntakeAfter_Kept == intake \* mutant: the requests added stay in the queue

IntakeAfter == SubSeq(intake, AddCount + 1, Len(intake))

(* A single request larger than a batch can be: ValueError *)
Oversized == intake # <<>> /\ next = {} /\ Size[Head(intake)] > MaxSize

IntakeRaises ==
  /\ wpc = "intake" /\ Oversized
  /\ Escape
  /\ UNCHANGED <<situation, stream, next, inflight>>

(* Take what fits; the batch is neither full nor due, or has to wait until *)
(* another one has ended.                                                  *)
IntakeHold ==
  /\ wpc = "intake" /\ ~Oversized
  /\ ~(ShouldSend /\ HasRoom(Cardinality(InFlight)))
  /\ opened' = TRUE
  /\ next' = next \cup First(AddCount)
  /\ intake' = IntakeAfter
  /\ wpc' = "sleeping"
  /\ UNCHANGED <<situation, callerVars, late, batchVars, ended, running, creating, checkVars>>

(* Take what fits and start to create the batch. *)
IntakeSend ==
  /\ wpc = "intake" /\ ~Oversized
  /\ ShouldSend /\ HasRoom(Cardinality(InFlight))
  /\ opened' = FALSE /\ next' = {} /\ late' = FALSE
  /\ creating' = next \cup First(AddCount)
  /\ intake' = IntakeAfter
  /\ wpc' = "creating"
  /\ UNCHANGED <<situation, callerVars, batchVars, ended, running, checkVars>>

(* Time passes: the send delay of the next batch is over. *)
Timeout ==
  /\ opened /\ ~late
  /\ late' = TRUE
  /\ UNCHANGED <<situation, callerVars, intake, opened, next, batchVars, ended, workerVars, checkVars>>

(* _create_batch() returned an id: the batch is in flight. *)
Created ==
  /\ wpc = "creating"
  /\ created' = created + 1
  /\ inflight' = [inflight EXCEPT ![created + 1] = creating]
  /\ creating' = {}
  /\ wpc' = "intake"
  /\ UNCHANGED <<situation, callerVars, intake, nextVars, failures, ended, running, checkVars>>

CreateFails ==
  /\ "create" \in Faults
  /\ wpc = "creating"
  /\ wpc' = "failing"
  /\ UNCHANGED <<situation, callerVars, intake, nextVars, batchVars, ended, running, creating, checkVars>>

(* A send to a stream whose buffer is taken waits. *)
Send(r, answer) ==
  /\ stream[r] = "none"
  /\ stream' = [stream EXCEPT ![r] = answer]

(* _fail_all_requests() of the batch that could not be created *)
CreateFailSend(r) ==
  /\ wpc = "failing" /\ r \in creating
  /\ Send(r, "error")
  /\ creating' = creating \ {r}
  /\ UNCHANGED <<situation, call, intake, nextVars, batchVars, ended, running, wpc, checkVars>>

(* ... after which the exception is raised again. *)
CreateRaises ==
  /\ wpc = "failing" /\ creating = {}
  /\ Escape
  /\ UNCHANGED <<situation, stream, next, inflight>>

-----------------------------------------------------------------------------
(* The check of one batch *)

(* The service completes a batch. *)
ServiceEnds(b) ==
  /\ b <= created /\ b \notin ended
  /\ ended' = ended \cup {b}
  /\ UNCHANGED <<situation, callerVars, intake, nextVars, batchVars, workerVars, checkVars>>


GiveUp(n) == n >= MaxCheckFailures

(* _check_batch() raises; after too many times in a row, all is lost. *)
CheckFails(b) ==
  /\ "check" \in Faults
  /\ phase[b] = "polling"
  /\ failures' = [failures EXCEPT ![b] = @ + 1]
  /\ IF GiveUp(failures[b] + 1)
     THEN /\ phase' = [phase EXCEPT ![b] = "failing"]
          /\ todo' = [todo EXCEPT ![b] = inflight[b]]
     ELSE /\ phase' = [phase EXCEPT ![b] = "idle"]
          /\ UNCHANGED todo
  /\ UNCHANGED <<situation, callerVars, intake, nextVars, created, inflight, ended, workerVars>>

CheckReturns(b) ==
  /\ phase[b] = "polling"
  /\ failures' = [failures EXCEPT ![b] = 0]
  /\ UNCHANGED <<situation, callerVars, intake, nextVars, created, inflight, ended, workerVars>>

NotEnded(b) ==
  /\ b \notin ended
  /\ CheckReturns(b)
  /\ phase' = [phase EXCEPT ![b] = "idle"]
  /\ UNCHANGED todo

(* OpenAI: the whole batch was rejected; _check_batch() resolves it, every *)
(* request with the batch's error, and reports no completion.              *)
Rejected(b) ==
  /\ "reject" \in Faults
  /\ b \notin ended
  /\ CheckReturns(b)
  /\ phase' = [phase EXCEPT ![b] = "failing"]
  /\ todo' = [todo EXCEPT ![b] = inflight[b]]

Completed(b) ==
  /\ b \in ended
  /\ CheckReturns(b)
  /\ phase' = [phase EXCEPT ![b] = "handling"]
  /\ UNCHANGED todo

(* _handle_batch_result() raises: "obtaining results" *)
HandleFails(b) ==
  /\ "handle" \in Faults
  /\ phase[b] = "handling"
  /\ phase' = [phase EXCEPT ![b] = "failing"]
  /\ todo' = [todo EXCEPT ![b] = inflight[b]]
  /\ UNCHANGED <<situation, callerVars, intake, nextVars, batchVars, ended, workerVars>>

(* The ids the results may hold *)
ResultIds(b) ==
  {ids \in SUBSET (inflight[b] \cup {Unknown}) :
     /\ "missing" \in Faults \/ inflight[b] \subseteq ids
     /\ "unknown" \in Faults \/ Unknown \notin ids}

HandleReturns(b) ==
  /\ phase[b] = "handling"
  /\ \E ids \in ResultIds(b) : todo' = [todo EXCEPT ![b] = ids]
  /\ phase' = [phase EXCEPT ![b] = "results"]
  /\ UNCHANGED <<situation, callerVars, intake, nextVars, batchVars, ended, workerVars>>

(* _resolve_inflight_batch() and _fail_all_requests(): one send *)
SendOne(b, r) ==
  /\ phase[b] \in {"results", "failing", "failing_results", "failing_again"}
  /\ r \in todo[b] \ {Unknown}
  /\ Send(r, IF phase[b] = "results" THEN "response" ELSE "error")
  /\ todo' = [todo EXCEPT ![b] = @ \ {r}]
  /\ UNCHANGED <<situation, call, intake, nextVars, batchVars, ended, workerVars, phase>>

(* The id of a result is not one of the batch: KeyError, "sending results" *)
SendUnknown(b) ==
  /\ phase[b] = "results" /\ Unknown \in todo[b]
  /\ phase' = [phase EXCEPT ![b] = "failing_results"]
  /\ todo' = [todo EXCEPT ![b] = inflight[b]]
  /\ UNCHANGED <<situation, callerVars, intake, nextVars, batchVars, ended, workerVars>>

InflightAfter_Kept(b) == inflight \* mutant: a resolved batch stays in flight

InflightAfter(b) == [inflight EXCEPT ![b] = {}]

(* Everything is sent: the batch is no longer in flight. *)
Cleanup(b) ==
  /\ phase[b] \in {"results", "failing"} /\ todo[b] = {}
  /\ inflight' = InflightAfter(b)
  /\ phase' = [phase EXCEPT ![b] = "idle"]
  /\ UNCHANGED <<situation, callerVars, intake, nextVars, created, failures, ended, workerVars, todo>>

(* The handler of "sending results" has removed the batch, and the finally *)
(* clause removes it again: KeyError, which the caller's handler takes for *)
(* "obtaining results", and fails all requests once more.                  *)
CleanupTwice(b) ==
  /\ phase[b] = "failing_results" /\ todo[b] = {}
  /\ inflight' = InflightAfter(b)
  /\ phase' = [phase EXCEPT ![b] = "failing_again"]
  /\ todo' = [todo EXCEPT ![b] = inflight[b]]
  /\ UNCHANGED <<situation, callerVars, intake, nextVars, created, failures, ended, workerVars>>

(* ... to remove the batch a third time: this KeyError escapes. *)
CleanupRaises(b) ==
  /\ phase[b] = "failing_again" /\ todo[b] = {}
  /\ Escape
  /\ UNCHANGED <<situation, stream, next, inflight>>

-----------------------------------------------------------------------------
Caller(r) == Generate(r) \/ Return(r) \/ CallerCancelled(r)

Loop == \/ LoopExit \/ CheckAll \/ Checked \/ WakeUp
        \/ IntakeRaises \/ IntakeHold \/ IntakeSend
        \/ Created \/ CreateFails \/ (\E r \in Requests : CreateFailSend(r)) \/ CreateRaises

Check(b) == \/ CheckFails(b) \/ NotEnded(b) \/ Rejected(b) \/ Completed(b)
            \/ HandleFails(b) \/ HandleReturns(b)
            \/ (\E r \in Requests : SendOne(b, r)) \/ SendUnknown(b)
            \/ Cleanup(b) \/ CleanupTwice(b) \/ CleanupRaises(b)

Worker == Loop \/ \E b \in Ids : Check(b)

Next == \/ \E r \in Requests : Caller(r)
        \/ \E b \in Ids : ServiceEnds(b)
        \/ Timeout
        \/ Worker

Spec == Init /\ [][Next]_vars

(* The event loop runs the worker and the callers that can go on, time     *)
(* passes, and the service completes every batch; nobody has to call.      *)
FairSpec ==
  /\ Spec
  /\ WF_vars(Worker) /\ WF_vars(Timeout)
  /\ \A r \in Requests : WF_vars(Return(r))
  /\ \A b \in Ids : WF_vars(ServiceEnds(b))

-----------------------------------------------------------------------------
(* Properties *)

Unsent(b) == IF phase[b] \in {"results", "failing"} THEN todo[b] ELSE inflight[b]
Places(r) ==
  Cardinality({i \in DOMAIN intake : intake[i] = r})
    + Cardinality({b \in Ids : r \in Unsent(b)})
    + (IF r \in next THEN 1 ELSE 0) + (IF r \in creating THEN 1 ELSE 0)

(* A request whose caller waits for its answer is in one place, the queue, *)
(* the next batch, the batch being created or one batch in flight: it is   *)
(* neither lost nor sent to the service twice, whenever the caller came    *)
(* (unless a foreign id has the answers of a batch sent again, or the      *)
(* results lack its id).                                                   *)
WaitingAccounted ==
  Faults \cap {"unknown", "missing"} = {} /\ wpc # "dead" =>
    \A r \in Requests : call[r] = "waiting" =>
      Places(r) = IF stream[r] = "none" THEN 1 ELSE 0

(* Whatever goes wrong, no request is dropped on the way: one without an   *)
(* answer whose caller waits is still somewhere, even when an exception    *)
(* has escaped from the worker (but none, if the results lack its id).     *)
NoRequestDropped ==
  "missing" \notin Faults => \A r \in Requests :
    call[r] = "waiting" /\ stream[r] = "none" =>
      Places(r) > 0 \/ \E b \in Ids : r \in todo[b]

(* At every await of the worker and of the callers, each request that      *)
(* still lacks an answer is in one known place, and in no other.            *)
RequestsAccounted == TypeOK /\ WaitingAccounted /\ NoRequestDropped

(* The worker never has to wait in a send, where the answer of nobody else *)
(* could get past it: all it is about to send to are without an answer     *)
(* (again unless there is a foreign id).                                   *)
NeverStuck ==
  "unknown" \notin Faults =>
    \A r \in Requests :
      (r \in creating \/ \E b \in Ids : r \in Unsent(b)) =>
         stream[r] = "none" /\ call[r] \in {"waiting", "cancelled"}

(* No wake-up is lost: as long as a request is anywhere on its way, the    *)
(* worker that has to take it further runs, and the flag says so.          *)
WorkerWatches ==
  (\E r \in Requests : Places(r) > 0) =>
    running /\ (wpc # "off")

(* At most MaxBatches batches are at the service, the one being created    *)
(* included, and none exceeds the limits on requests and bytes.            *)
WithinLimits ==
  /\ Cardinality(InFlight) + (IF wpc = "creating" THEN 1 ELSE 0) <= MaxBatches
  /\ \A R \in {inflight[b] : b \in Ids} \cup {next, creating} :
       Cardinality(R) <= MaxCount /\ Bytes(R) <= MaxSize

(* "we need to ensure exceptions do not escape" (_resolve_inflight_batch): nothing else than  *)
(* a failed creation, a request too large or a foreign id ever ends the worker.               *)
NothingEscapes ==
  wpc = "dead" =>
    \/ Faults \cap {"create", "unknown"} # {}
    \/ \E r \in Requests : Size[r] > MaxSize

(* Requests on their way have a worker, and only those faults end it.       *)
WorkerKept == WorkerWatches /\ NothingEscapes

(* In an eval every call ends, whatever the batches go through. *)
EveryCallEnds == \A r \in Requests : InEval /\ call[r] = "waiting" ~> call[r] # "waiting"

(* The batches are invisible to the callers, as long as the results hold   *)
(* no foreign id: after one the requests of the batch are answered again.   *)
Promises == INSTANCE RequestPromises WITH answer <- stream
KeepsPromises == Promises!Init /\ [][Promises!Next \/ "unknown" \in Faults]_Promises!vars
=============================================================================
