----------------------------- MODULE WorkingTime -----------------------------
(***************************************************************************)
(* The clock of a sample, util/_limit.py with _util/working.py: agents of  *)
(* one sample generate concurrently, each call holding a connection from a *)
(* semaphore shared with other samples.  What a call spends waiting (for   *)
(* the connection, in retries) is reported to the sample and its working   *)
(* limits; a monitor stops the sample when its working time is used up.    *)
(* Tokens are counted on a tree of limits, where an agent may have a limit *)
(* of its own below the sample's.                                          *)
(*                                                                         *)
(* Time is counted in seconds, the interval of the monitor.                *)
(***************************************************************************)
EXTENDS Integers, Sequences, FiniteSets, SequencesExt

CONSTANTS
  Agents,      \* coroutines of the sample that call generate()
  Scoped,      \* those that run under limits of their own
  Nested,      \* those that run in a tool call or a handoff
  Sample,      \* the node of the sample in the trees of limits
  Other,       \* a call of some other sample, in the queue for a connection
  Slots,       \* max_connections
  WorkLimit,   \* the sample's working_limit
  TokenLimit,  \* of each node
  MaxNow,      \* bounds the clock
  MaxAttempts, \* max_retries, which counts the first attempt
  MaxReplayed  \* bounds the request times of outputs taken from the cache

Nodes == {Sample} \cup Scoped

ASSUME WorkingTimeAssumption ==
  /\ IsFiniteSet(Agents) /\ Scoped \subseteq Agents /\ Nested \subseteq Agents
  /\ Sample \notin Agents /\ Other \notin Agents
  /\ {WorkLimit, MaxNow, MaxReplayed} \subseteq Nat
  /\ {Slots, MaxAttempts} \subseteq Nat \ {0}
  /\ TokenLimit \in [Nodes -> Nat]

VARIABLES
  now,
  pc,         \* each agent: ready | queued | calling | sleeping | limited (by tokens) | done
  call,       \* its call: begin, begin of the attempt, attempts, reported waiting
  wake,       \* when its sleep before a retry ends
  queue,      \* waiters of the connection semaphore
  free,       \* its value
  others,     \* connections in use by other samples
  waits,      \* concurrent_wait_count
  wait_start, \* concurrent_wait_start
  waiting,    \* waiting_time of the sample
  node_wait,  \* _waiting_time of each working limit
  tokens,     \* usage of each token limit
  check_at,   \* the next check of the monitor
  stopped,    \* no, or the limit that ended the sample: working | token
  contended,  \* history: seconds in which some agent waited for a connection
  unproductive, \* history: time of finished calls outside the request that succeeded
  replayed    \* history: request times of outputs taken from the cache

agentVars == <<pc, call, wake>>
semaphoreVars == <<queue, free, others>>
timingVars == <<waits, wait_start, waiting, node_wait>>
history == <<contended, unproductive, replayed>>
vars == <<now, agentVars, semaphoreVars, timingVars, tokens, check_at, stopped, history>>

NoCall == [begin |-> 0, attempt |-> 0, attempts |-> 0, reported |-> 0]
Call == [begin : 0..MaxNow, attempt : 0..MaxNow, attempts : 0..MaxAttempts, reported : Nat]

TypeOK ==
  /\ now \in 0..MaxNow /\ check_at \in Nat
  /\ pc \in [Agents -> {"ready", "queued", "calling", "sleeping", "limited", "done"}]
  /\ call \in [Agents -> Call] /\ wake \in [Agents -> 0..MaxNow]
  /\ queue \in Seq(Agents \cup {Other})
  /\ free \in 0..Slots /\ others \in 0..Slots
  /\ waits \in 0..Cardinality(Agents) /\ wait_start \in 0..MaxNow
  /\ waiting \in Int /\ node_wait \in [Nodes -> Int]
  /\ tokens \in [Nodes -> Nat]
  /\ stopped \in {"no", "working", "token"}
  /\ contended \in Nat /\ unproductive \in Int /\ replayed \in Nat

Init ==
  /\ now = 0 /\ check_at = 1
  /\ pc = [a \in Agents |-> "ready"]
  /\ call = [a \in Agents |-> NoCall]
  /\ wake = [a \in Agents |-> 0]
  /\ queue = <<>> /\ others \in 0..Slots /\ free = Slots - others
  /\ waits = 0 /\ wait_start = 0 /\ waiting = 0
  /\ node_wait = [n \in Nodes |-> 0]
  /\ tokens = [n \in Nodes |-> 0]
  /\ stopped = "no"
  /\ contended = 0 /\ unproductive = 0 /\ replayed = 0

Running == stopped = "no"
Path(a) == {Sample} \cup ({a} \cap Scoped)

-----------------------------------------------------------------------------
(* Waiting time *)

NodeWaitAfter_Leaf(a, time) == \* mutant: a scope does not pass it on to its parent
  [node_wait EXCEPT ![IF a \in Scoped THEN a ELSE Sample] = @ + time]

(* record_waiting_time() from the limit of agent a up to the sample's *)
NodeWaitAfter(a, time) ==
  [n \in Nodes |-> IF n \in Path(a) THEN node_wait[n] + time ELSE node_wait[n]]

(* report_sample_waiting_time(), called by agent a *)
ReportWaiting(a, time) ==
  /\ waiting' = waiting + time
  /\ node_wait' = NodeWaitAfter(a, time)

BeginWait_Last(a) == \* mutant: each waiter restarts the clock of the wait
  /\ waits' = waits + 1
  /\ wait_start' = now
  /\ UNCHANGED <<waiting, node_wait>>

(* sample_waiting_for(): the first waiter of the sample starts the clock *)
BeginWait(a) ==
  /\ waits' = waits + 1
  /\ wait_start' = IF waits = 0 THEN now ELSE wait_start
  /\ UNCHANGED <<waiting, node_wait>>

(* _end_sample_wait(): the last one reports, on its own limits *)
EndWait(a) ==
  /\ waits' = waits - 1
  /\ IF waits = 1 THEN ReportWaiting(a, now - wait_start)
                  ELSE UNCHANGED <<waiting, node_wait>>
  /\ wait_start' = IF waits = 1 THEN 0 ELSE wait_start

-----------------------------------------------------------------------------
(* The connection semaphore: waiters are served in order of arrival *)

Goto(a, at) == pc' = [pc EXCEPT ![a] = at]

(* An agent joins the queue, even if a connection is free. *)
RequestConnection(a) ==
  /\ Running /\ pc[a] = "ready"
  /\ Goto(a, "queued")
  /\ queue' = Append(queue, a)
  /\ BeginWait(a)
  /\ UNCHANGED <<now, call, wake, free, others, tokens, check_at, stopped, history>>

Connect(a) ==
  /\ Running /\ queue # <<>> /\ Head(queue) = a /\ free > 0
  /\ queue' = Tail(queue) /\ free' = free - 1
  /\ EndWait(a)
  /\ Goto(a, "calling")
  /\ call' = [call EXCEPT ![a] = [begin |-> now, attempt |-> now, attempts |-> 1, reported |-> 0]]
  /\ UNCHANGED <<now, wake, others, tokens, check_at, stopped, history>>

OtherRequests ==
  /\ Running /\ ~\E i \in DOMAIN queue : queue[i] = Other
  /\ others < Slots
  /\ queue' = Append(queue, Other)
  /\ UNCHANGED <<now, agentVars, free, others, timingVars, tokens, check_at, stopped, history>>

OtherConnects ==
  /\ Running /\ queue # <<>> /\ Head(queue) = Other /\ free > 0
  /\ queue' = Tail(queue) /\ free' = free - 1 /\ others' = others + 1
  /\ UNCHANGED <<now, agentVars, timingVars, tokens, check_at, stopped, history>>

OtherReleases ==
  /\ Running /\ others > 0
  /\ others' = others - 1 /\ free' = free + 1
  /\ UNCHANGED <<now, agentVars, queue, timingVars, tokens, check_at, stopped, history>>

-----------------------------------------------------------------------------
(* A call of generate(), which holds a connection, retries included *)

(* The attempt fails; the sleep that follows is reported before it begins. *)
AttemptFails(a) ==
  /\ Running /\ pc[a] = "calling" /\ call[a].attempts < MaxAttempts
  /\ \E sleep \in 1..(MaxNow - now) :
       /\ wake' = [wake EXCEPT ![a] = now + sleep]
       /\ call' = [call EXCEPT ![a].reported = @ + sleep]
       /\ ReportWaiting(a, sleep)
  /\ Goto(a, "sleeping")
  /\ UNCHANGED <<now, semaphoreVars, waits, wait_start, tokens, check_at, stopped, history>>

Retry(a) ==
  /\ Running /\ pc[a] = "sleeping" /\ now = wake[a]
  /\ Goto(a, "calling")
  /\ call' = [call EXCEPT ![a].attempt = now, ![a].attempts = @ + 1]
  /\ wake' = [wake EXCEPT ![a] = 0]
  /\ UNCHANGED <<now, semaphoreVars, timingVars, tokens, check_at, stopped, history>>

Unreported_All(a) == now - call[a].begin \* mutant: forgets what was reported at retries

(* What the whole call took and has not reported yet *)
Unreported(a) == now - call[a].begin - call[a].reported

EndCall_Connected(a, at) == \* mutant: the connection is not released
  /\ Goto(a, at)
  /\ call' = [call EXCEPT ![a] = NoCall]
  /\ wake' = [wake EXCEPT ![a] = 0]
  /\ UNCHANGED semaphoreVars

(* The call ends, and with it the hold on the connection. *)
EndCall(a, at) ==
  /\ Goto(a, at)
  /\ call' = [call EXCEPT ![a] = NoCall]
  /\ wake' = [wake EXCEPT ![a] = 0]
  /\ free' = free + 1
  /\ UNCHANGED <<queue, others>>

TokensAfter(a) == [n \in Nodes |-> IF n \in Path(a) THEN tokens[n] + 1 ELSE tokens[n]]
Exceeded(a) == {n \in Path(a) : TokensAfter(a)[n] > TokenLimit[n]}

Source_Leaf(a) == IF a \in Exceeded(a) THEN a ELSE Sample \* mutant: checks from leaf to root

(* check(): the limit closest to the root is the one that raises *)
Source(a) == IF Sample \in Exceeded(a) THEN Sample ELSE a

(* The request succeeds, and took some of the time of its attempt. *)
Succeed(a) ==
  /\ Running /\ pc[a] = "calling"
  /\ tokens' = TokensAfter(a)
  /\ Exceeded(a) = {}
  /\ \E time \in 0..(now - call[a].attempt) :
       /\ ReportWaiting(a, Unreported(a) - time)
       /\ unproductive' = unproductive + now - call[a].begin - time
  /\ EndCall(a, "ready")
  /\ UNCHANGED <<now, waits, wait_start, check_at, stopped, contended, replayed>>

(* An attempt is answered from the cache at once, with an output that      *)
(* keeps the time of the request that once produced it.                    *)
CacheHit(a) ==
  /\ Running /\ pc[a] = "calling" /\ call[a].attempt = now
  /\ \E time \in 1..(MaxReplayed - replayed) :
       /\ ReportWaiting(a, Unreported(a) - time)
       /\ unproductive' = unproductive + now - call[a].begin - time
       /\ replayed' = replayed + time
  /\ EndCall(a, "ready")
  /\ UNCHANGED <<now, waits, wait_start, tokens, check_at, stopped, contended>>

(* A limit error ends the agent without a final report.  The scope that    *)
(* set the limit may catch it, and a tool call or a handoff turns an error *)
(* of any source into a message to the agent above: the sample's own error *)
(* ends the sample only where no such call lies between.                   *)
TokenLimitExceeded(a) ==
  /\ Running /\ pc[a] = "calling"
  /\ tokens' = TokensAfter(a)
  /\ Exceeded(a) # {}
  /\ stopped' = IF Source(a) = Sample /\ a \notin Nested THEN "token" ELSE stopped
  /\ unproductive' = unproductive + call[a].reported
  /\ EndCall(a, "limited")
  /\ UNCHANGED <<now, timingVars, check_at, contended, replayed>>

\* mutant: a cancelled waiter keeps its place in the queue
Leave_Queued(a) == UNCHANGED queue

(* A cancelled waiter leaves the queue wherever it is. *)
Leave(a) == \E i \in DOMAIN queue : queue[i] = a /\ queue' = RemoveAt(queue, i)

(* An agent ends between calls, or is cancelled in one, e.g. by time_limit() *)
CancelWaiting(a) ==
  /\ Running /\ pc[a] = "queued"
  /\ Leave(a)
  /\ EndWait(a)
  /\ Goto(a, "done")
  /\ UNCHANGED <<now, call, wake, free, others, tokens, check_at, stopped, history>>

CancelCall(a) ==
  /\ Running /\ pc[a] \in {"calling", "sleeping"}
  /\ unproductive' = unproductive + call[a].reported
  /\ EndCall(a, "done")
  /\ UNCHANGED <<now, timingVars, tokens, check_at, stopped, contended, replayed>>

Finish(a) ==
  /\ Running /\ pc[a] = "ready"
  /\ Goto(a, "done")
  /\ UNCHANGED <<now, call, wake, semaphoreVars, timingVars, tokens, check_at, stopped, history>>

-----------------------------------------------------------------------------
(* The monitor and the clock *)

(* The monitor looks for an active model event in a context variable; its  *)
(* task got a copy of the context before the first call, where it is None. *)
ActiveModelEvent == FALSE

Usage == now - node_wait[Sample]

\* mutant: the monitor returns after its first check
NextCheck_Never == MaxNow + 1

NextCheck == check_at + 1

Monitor ==
  /\ Running /\ now = check_at
  /\ IF Usage > WorkLimit /\ ~ActiveModelEvent
     THEN stopped' = "working" /\ UNCHANGED check_at
     ELSE check_at' = NextCheck /\ UNCHANGED stopped
  /\ UNCHANGED <<now, agentVars, semaphoreVars, timingVars, tokens, history>>

(* Timers that are due run before more time passes. *)
Tick ==
  /\ Running /\ now < MaxNow /\ now < check_at
  /\ \A a \in Agents : pc[a] = "sleeping" => now < wake[a]
  /\ now' = now + 1
  /\ contended' = IF \E a \in Agents : pc[a] = "queued" THEN contended + 1 ELSE contended
  /\ UNCHANGED <<agentVars, semaphoreVars, timingVars, tokens, check_at, stopped,
                 unproductive, replayed>>

Agent(a) == \/ RequestConnection(a) \/ Connect(a) \/ CancelWaiting(a)
            \/ AttemptFails(a) \/ Retry(a) \/ CacheHit(a) \/ Succeed(a)
            \/ TokenLimitExceeded(a) \/ CancelCall(a) \/ Finish(a)

Others == OtherRequests \/ OtherConnects \/ OtherReleases

Next == (\E a \in Agents : Agent(a)) \/ Others \/ Monitor \/ Tick

Spec == Init /\ [][Next]_vars

-----------------------------------------------------------------------------
(* Properties *)

Waiting == {a \in Agents : pc[a] = "queued"}
InCall == {a \in Agents : pc[a] \in {"calling", "sleeping"}}
OngoingWait == IF waits > 0 THEN now - wait_start ELSE 0
ReportedInCalls == Cardinality(UNION {{a} \X (1..call[a].reported) : a \in InCall}) \* their sum

(* "Only wall-clock time when at least one task is waiting is reported":   *)
(* however the waits of its agents overlap, end or are cancelled, the      *)
(* sample's waiting time is the length of their union, plus what the calls *)
(* themselves spent outside the request that succeeded, once each.         *)
WaitsCountedOnce ==
  /\ waits = Cardinality(Waiting)
  /\ waiting + OngoingWait = contended + unproductive + ReportedInCalls

(* The waiting time used for the limit of the sample is the one its log    *)
(* records: every report reaches both, whichever agent makes it and        *)
(* however deep its own limits are.                                        *)
SampleClocksAgree == node_wait[Sample] = waiting

(* The time that the limit spares a sample for is what its agents waited,  *)
(* whoever of them reported it.                                            *)
WaitingAccounted == WaitsCountedOnce /\ SampleClocksAgree

(* A sample does not work for longer than its limit and one interval of    *)
(* the monitor, other than by the times of requests that the cache         *)
(* replays, which are taken for work.                                      *)
OverrunBounded == Running => now - waiting - replayed <= WorkLimit + 1

Limited == {a \in Nested : pc[a] = "limited"}

(* Whatever catches the errors, a sample that has not been ended goes      *)
(* beyond its token limit by one request at most for each agent in a tool  *)
(* call or a handoff, which that request ends.  The first request beyond   *)
(* the limit outside of them ends the sample, and an agent that hits its   *)
(* own limit in the same request cannot hide this by catching its error.   *)
SampleLimitNotHidden ==
  stopped # "token" => tokens[Sample] - TokenLimit[Sample] <= Cardinality(Limited)

(* Connections are neither lost nor duplicated by retries, limits and      *)
(* cancellations, and a free one is never held up by somebody who is no    *)
(* longer waiting at the head of the queue.                                *)
ConnectionsConserved ==
  /\ free + others + Cardinality(InCall) = Slots
  /\ \A i \in DOMAIN queue : queue[i] \in Waiting \cup {Other}
  /\ \A a \in Waiting : Cardinality({i \in DOMAIN queue : queue[i] = a}) = 1

(* What the agents share is consistent whenever one of them is suspended.  *)
SharedConsistent == TypeOK /\ ConnectionsConserved

(* Working time is "the wall clock time minus any waiting time e.g. [...]  *)
(* waiting on a semaphore": the working limit does not stop a sample that  *)
(* has worked less.                                                        *)
StoppedOnlyForWork ==
  stopped = "working" => now - waiting - OngoingWait > WorkLimit
=============================================================================
