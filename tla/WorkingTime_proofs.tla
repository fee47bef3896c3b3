-------------------------- MODULE WorkingTime_proofs --------------------------
(* Theorems about WorkingTime, for any number of agents, scopes and        *)
(* connections, and any limits.                                            *)
EXTENDS WorkingTime, SequenceFacts, TLAPS

-----------------------------------------------------------------------------
(* The inductive invariant *)

(* TypeOK without the ranges that follow from the rest *)
TypeInv ==
  /\ now \in 0..MaxNow /\ check_at \in Nat
  /\ pc \in [Agents -> {"ready", "queued", "calling", "sleeping", "limited", "done"}]
  /\ call \in [Agents -> Call] /\ wake \in [Agents -> 0..MaxNow]
  /\ queue \in Seq(Agents \cup {Other})
  /\ free \in Nat /\ others \in 0..Slots
  /\ waits \in Nat /\ wait_start \in 0..MaxNow
  /\ waiting \in Int /\ node_wait \in [Nodes -> Int]
  /\ tokens \in [Nodes -> Nat]
  /\ stopped \in {"no", "working", "token"}
  /\ contended \in Nat /\ unproductive \in Int /\ replayed \in Nat

(* What a call has reported lies between its begin and its attempt, or the next one if it sleeps. *)
CallInv(a) ==
  /\ pc[a] = "calling" => /\ call[a].begin <= call[a].attempt /\ call[a].attempt <= now
                          /\ call[a].reported <= call[a].attempt - call[a].begin
  /\ pc[a] = "sleeping" => /\ call[a].attempts < MaxAttempts
                           /\ now <= wake[a] /\ call[a].begin <= wake[a]
                           /\ call[a].reported <= wake[a] - call[a].begin

QueueInv == Distinct(queue) /\ Elements(queue) \ {Other} = Waiting

SlotInv == QueueInv /\ free + others + Cardinality(InCall) = Slots

WaitInv ==
  /\ waits = Cardinality(Waiting)
  /\ wait_start <= now
  /\ waiting = contended + unproductive + ReportedInCalls - OngoingWait
  /\ node_wait[Sample] = waiting

(* The last check found the sample within its limit, and no report since has taken back what
   that check counted as waiting. *)
MonitorInv ==
  Running => /\ now <= check_at /\ check_at <= now + 1
             /\ now - waiting - replayed <= (IF now < check_at THEN WorkLimit ELSE WorkLimit + 1)

Inv ==
  /\ TypeInv /\ (\A a \in Agents : CallInv(a))
  /\ SlotInv /\ WaitInv /\ MonitorInv /\ SampleLimitNotHidden

-----------------------------------------------------------------------------
(* Frames *)

LEMMA Bounds ==
  /\ MaxNow \in Nat /\ WorkLimit \in Nat /\ MaxReplayed \in Nat
  /\ Slots \in Nat /\ MaxAttempts \in Nat /\ Slots > 0 /\ MaxAttempts > 0
  /\ Sample \in Nodes /\ IsFiniteSet(Agents) /\ Other \notin Agents /\ Sample \notin Agents
BY WorkingTimeAssumption DEF Nodes

(* A step of one agent leaves the calls of the others alone. *)
Frame(a) ==
  /\ now' = now /\ others' = others /\ check_at' = check_at /\ contended' = contended
  /\ \A b \in Agents \ {a} : pc'[b] = pc[b] /\ call'[b] = call[b] /\ wake'[b] = wake[b]

LEMMA AgentFrame ==
  ASSUME TypeInv, NEW a \in Agents, Agent(a)
  PROVE  Running /\ Frame(a)
<1> USE DEF TypeInv, Frame, Goto, semaphoreVars, timingVars, history, agentVars
<1>1. CASE RequestConnection(a)
  BY <1>1 DEF RequestConnection
<1>2. CASE Connect(a)
  BY <1>2 DEF Connect
<1>3. CASE CancelWaiting(a)
  BY <1>3 DEF CancelWaiting
<1>4. CASE AttemptFails(a)
  BY <1>4 DEF AttemptFails
<1>5. CASE Retry(a)
  BY <1>5 DEF Retry
<1>6. CASE CacheHit(a)
  BY <1>6 DEF CacheHit, EndCall
<1>7. CASE Succeed(a)
  BY <1>7 DEF Succeed, EndCall
<1>8. CASE TokenLimitExceeded(a)
  BY <1>8 DEF TokenLimitExceeded, EndCall
<1>9. CASE CancelCall(a)
  BY <1>9 DEF CancelCall, EndCall
<1>10. CASE Finish(a)
  BY <1>10 DEF Finish
<1> QED BY <1>1, <1>2, <1>3, <1>4, <1>5, <1>6, <1>7, <1>8, <1>9, <1>10 DEF Agent

LEMMA Fields ==
  ASSUME TypeInv, NEW a \in Agents
  PROVE  /\ now \in Nat /\ wake[a] \in Nat /\ wake[a] <= MaxNow
         /\ call[a] \in Call /\ call[a].begin \in Nat /\ call[a].attempt \in Nat
         /\ call[a].attempts \in 0..MaxAttempts /\ call[a].attempts \in Nat /\ call[a].reported \in Nat
BY Bounds DEF TypeInv, Call

(* The clocks of the sample after a report *)
LEMMA Reports ==
  ASSUME TypeInv, node_wait[Sample] = waiting, NEW a \in Agents, NEW time \in Int, ReportWaiting(a, time)
  PROVE  /\ waiting' = waiting + time /\ waiting' \in Int
         /\ node_wait' \in [Nodes -> Int] /\ node_wait'[Sample] = waiting'
BY Bounds DEF TypeInv, ReportWaiting, NodeWaitAfter, Path

LEMMA WaitersFinite ==
  /\ IsFiniteSet(Waiting) /\ IsFiniteSet(InCall)
  /\ Cardinality(Waiting) \in Nat /\ Cardinality(InCall) \in Nat
<1>1. Waiting \in SUBSET Agents /\ InCall \in SUBSET Agents
  BY DEF Waiting, InCall
<1> QED BY <1>1, Bounds, FS_Subset, FS_CardinalityType

LEMMA WaitEnds ==
  ASSUME TypeInv, WaitInv, NEW a \in Agents, EndWait(a), pc[a] = "queued"
  PROVE  /\ waits' = waits - 1 /\ waits' \in Nat /\ wait_start' \in 0..MaxNow /\ wait_start' <= now
         /\ waiting' \in Int /\ waiting' >= waiting
         /\ node_wait' \in [Nodes -> Int] /\ node_wait'[Sample] = waiting'
         /\ waiting' = waiting + OngoingWait - (IF waits' > 0 THEN now - wait_start' ELSE 0)
<1>1. /\ now \in Nat /\ wait_start \in Nat /\ wait_start <= now /\ waits \in Nat /\ waiting \in Int
      /\ wait_start \in 0..MaxNow /\ node_wait \in [Nodes -> Int] /\ node_wait[Sample] = waiting
  BY Bounds DEF TypeInv, WaitInv
<1>2. waits > 0
  <2>1. a \in Waiting /\ waits = Cardinality(Waiting)
    BY DEF Waiting, WaitInv
  <2>2. Cardinality(Waiting) # 0
    BY <2>1, WaitersFinite, FS_EmptySet
  <2> QED BY <1>1, <2>1, <2>2
<1>3. CASE waits = 1
  <2>1. ReportWaiting(a, now - wait_start) /\ now - wait_start \in Int /\ now - wait_start >= 0
    BY <1>1, <1>3 DEF EndWait
  <2>2. waits' = 0 /\ wait_start' = 0
    BY <1>3 DEF EndWait
  <2>3. waiting' = waiting + (now - wait_start) /\ waiting' \in Int
        /\ node_wait' \in [Nodes -> Int] /\ node_wait'[Sample] = waiting'
    BY <1>1, <2>1, Reports
  <2> QED BY <1>1, <1>3, <2>1, <2>2, <2>3, Bounds DEF OngoingWait
<1>4. CASE waits > 1
  <2>1. waits' = waits - 1 /\ wait_start' = wait_start /\ UNCHANGED <<waiting, node_wait>>
    BY <1>1, <1>4 DEF EndWait
  <2> QED BY <1>1, <1>4, <2>1 DEF OngoingWait
<1> QED BY <1>1, <1>2, <1>3, <1>4

-----------------------------------------------------------------------------
(* Types and calls *)

LEMMA HeadWaits ==
  ASSUME TypeInv, SlotInv, queue # <<>>
  PROVE  /\ Head(queue) \in Waiting \cup {Other}
         /\ Distinct(Tail(queue)) /\ Elements(Tail(queue)) = Elements(queue) \ {Head(queue)}
<1> DEFINE S == Agents \cup {Other}
<1>1. queue \in Seq(S) /\ Distinct(queue) /\ Elements(queue) \ {Other} = Waiting
  BY DEF TypeInv, SlotInv, QueueInv
<1> HIDE DEF S
<1>2. /\ Elements(queue) = Elements(Tail(queue)) \cup {Head(queue)}
      /\ Distinct(Tail(queue)) /\ Head(queue) \notin Elements(Tail(queue))
  BY <1>1, TailElements
<1> QED BY <1>1, <1>2

LEMMA Leaves ==
  ASSUME TypeInv, SlotInv, NEW a \in Agents, Leave(a)
  PROVE  /\ queue' \in Seq(Agents \cup {Other}) /\ Distinct(queue')
         /\ Elements(queue') = Elements(queue) \ {a}
<1> DEFINE S == Agents \cup {Other}
<1>1. queue \in Seq(S) /\ Distinct(queue)
  BY DEF TypeInv, SlotInv, QueueInv
<1>2. PICK i \in DOMAIN queue : queue[i] = a /\ queue' = RemoveAt(queue, i)
  BY DEF Leave
<1> HIDE DEF S
<1>3. queue' \in Seq(S) /\ Distinct(queue') /\ Elements(queue') = Elements(queue) \ {a}
  BY <1>1, <1>2, TakenOut DEF RemoveAt
<1> QED BY <1>3 DEF S

LEMMA CallEnds ==
  ASSUME TypeInv, NEW a \in Agents, NEW at \in {"ready", "limited", "done"}, EndCall(a, at)
  PROVE  /\ pc' \in [Agents -> {"ready", "queued", "calling", "sleeping", "limited", "done"}] /\ pc'[a] = at
         /\ call' \in [Agents -> Call] /\ wake' \in [Agents -> 0..MaxNow]
         /\ free' = free + 1 /\ queue' = queue /\ others' = others /\ free' \in Nat
<1>1. NoCall \in Call /\ 0 \in 0..MaxNow
  BY Bounds DEF NoCall, Call
<1> QED BY <1>1 DEF EndCall, Goto, TypeInv

LEMMA TokensType ==
  ASSUME TypeInv, NEW a \in Agents
  PROVE  TokensAfter(a) \in [Nodes -> Nat]
BY DEF TypeInv, TokensAfter

LEMMA AgentType ==
  ASSUME Inv, NEW a \in Agents, Agent(a)
  PROVE  TypeInv' /\ CallInv(a)'
<1> USE DEF semaphoreVars, timingVars, history
<1>0. /\ TypeInv /\ SlotInv /\ WaitInv /\ CallInv(a) /\ node_wait[Sample] = waiting
      /\ now \in Nat /\ now <= MaxNow /\ wake[a] \in Nat /\ wake[a] <= MaxNow
      /\ call[a] \in Call /\ call[a].begin \in Nat /\ call[a].attempt \in Nat
      /\ call[a].attempts \in Nat /\ call[a].attempts <= MaxAttempts /\ call[a].reported \in Nat
      /\ MaxNow \in Nat /\ MaxAttempts \in Nat /\ MaxAttempts > 0
  <2>1. TypeInv /\ SlotInv /\ WaitInv /\ CallInv(a)
    BY DEF Inv
  <2>2. node_wait[Sample] = waiting /\ now <= MaxNow
    BY <2>1, Bounds DEF WaitInv, TypeInv
  <2> QED BY <2>1, <2>2, Fields, Bounds
<1>p. ASSUME NEW at \in {"ready", "queued", "calling", "sleeping", "limited", "done"}, Goto(a, at)
      PROVE  pc' \in [Agents -> {"ready", "queued", "calling", "sleeping", "limited", "done"}] /\ pc'[a] = at
  BY <1>0, <1>p DEF Goto, TypeInv
<1>1. CASE RequestConnection(a)
  <2>1. pc'[a] = "queued" /\ pc' \in [Agents -> {"ready", "queued", "calling", "sleeping", "limited", "done"}]
    BY <1>1, <1>p DEF RequestConnection
  <2>2. waits' \in Nat /\ wait_start' \in 0..MaxNow
    BY <1>0, <1>1 DEF RequestConnection, BeginWait, TypeInv
  <2>3. queue' \in Seq(Agents \cup {Other})
    BY <1>0, <1>1 DEF RequestConnection, TypeInv
  <2> QED BY <1>0, <1>1, <2>1, <2>2, <2>3 DEF RequestConnection, BeginWait, TypeInv, CallInv
<1>2. CASE Connect(a)
  <2>1. pc'[a] = "calling" /\ pc' \in [Agents -> {"ready", "queued", "calling", "sleeping", "limited", "done"}]
    BY <1>2, <1>p DEF Connect
  <2>2. pc[a] = "queued"
    <3>1. a \in Waiting \cup {Other}
      BY <1>0, <1>2, HeadWaits DEF Connect
    <3> QED BY <3>1, Bounds DEF Waiting
  <2> DEFINE new == [begin |-> now, attempt |-> now, attempts |-> 1, reported |-> 0]
  <2>3. new \in Call
    BY <1>0 DEF Call
  <2>4. call' = [call EXCEPT ![a] = new]
    BY <1>2 DEF Connect
  <2>5. call' \in [Agents -> Call] /\ call'[a] = new
    BY <1>0, <2>3, <2>4 DEF TypeInv
  <2>6. queue' \in Seq(Agents \cup {Other}) /\ free' \in Nat
    BY <1>0, <1>2 DEF Connect, TypeInv
  <2>7. /\ waits' \in Nat /\ wait_start' \in 0..MaxNow /\ waiting' \in Int /\ node_wait' \in [Nodes -> Int]
    BY <1>0, <1>2, <2>2, WaitEnds DEF Connect
  <2>8. UNCHANGED <<now, wake, others, tokens, check_at, stopped, history>>
    BY <1>2 DEF Connect
  <2>9. CallInv(a)'
    BY <1>0, <2>1, <2>5, <2>8 DEF CallInv
  <2> QED BY <1>0, <2>1, <2>5, <2>6, <2>7, <2>8, <2>9 DEF TypeInv
<1>3. CASE CancelWaiting(a)
  <2>1. pc'[a] = "done" /\ pc' \in [Agents -> {"ready", "queued", "calling", "sleeping", "limited", "done"}]
    BY <1>3, <1>p DEF CancelWaiting
  <2>2. /\ waits' \in Nat /\ wait_start' \in 0..MaxNow /\ waiting' \in Int /\ node_wait' \in [Nodes -> Int]
    BY <1>0, <1>3, WaitEnds DEF CancelWaiting
  <2>3. queue' \in Seq(Agents \cup {Other})
    BY <1>0, <1>3, Leaves DEF CancelWaiting
  <2> QED BY <1>0, <1>3, <2>1, <2>2, <2>3 DEF CancelWaiting, TypeInv, CallInv
<1>4. CASE AttemptFails(a)
  <2>1. pc'[a] = "sleeping" /\ pc' \in [Agents -> {"ready", "queued", "calling", "sleeping", "limited", "done"}]
    BY <1>4, <1>p DEF AttemptFails
  <2>2. PICK sleep \in 1..(MaxNow - now) :
          /\ wake' = [wake EXCEPT ![a] = now + sleep]
          /\ call' = [call EXCEPT ![a].reported = @ + sleep]
          /\ ReportWaiting(a, sleep)
    BY <1>4 DEF AttemptFails
  <2>3. sleep \in Int /\ sleep > 0 /\ now + sleep \in 0..MaxNow /\ call[a].reported + sleep \in Nat
    BY <1>0
  <2>4. waiting' \in Int /\ node_wait' \in [Nodes -> Int]
    BY <1>0, <2>2, <2>3, Reports
  <2>5. wake' \in [Agents -> 0..MaxNow] /\ wake'[a] = now + sleep
    BY <1>0, <2>2, <2>3 DEF TypeInv
  <2>6. call' = [call EXCEPT ![a] = [call[a] EXCEPT !.reported = call[a].reported + sleep]]
    BY <2>2
  <2>7. [call[a] EXCEPT !.reported = call[a].reported + sleep] \in Call
    BY <1>0, <2>3 DEF Call
  <2>8. /\ call' \in [Agents -> Call] /\ call'[a].begin = call[a].begin
        /\ call'[a].attempts = call[a].attempts /\ call'[a].reported = call[a].reported + sleep
    BY <1>0, <2>6, <2>7 DEF TypeInv, Call
  <2>9. /\ pc[a] = "calling" /\ call[a].attempts < MaxAttempts
        /\ UNCHANGED <<now, semaphoreVars, waits, wait_start, tokens, check_at, stopped, history>>
    BY <1>4 DEF AttemptFails
  <2>10. CallInv(a)'
    BY <1>0, <2>1, <2>3, <2>5, <2>8, <2>9 DEF CallInv
  <2> QED BY <1>0, <2>1, <2>4, <2>5, <2>8, <2>9, <2>10 DEF TypeInv
<1>5. CASE Retry(a)
  <2>1. pc'[a] = "calling" /\ pc' \in [Agents -> {"ready", "queued", "calling", "sleeping", "limited", "done"}]
    BY <1>5, <1>p DEF Retry
  <2>2. /\ pc[a] = "sleeping" /\ now = wake[a] /\ call[a].attempts < MaxAttempts
        /\ call' = [call EXCEPT ![a] = [call[a] EXCEPT !.attempt = now, !.attempts = call[a].attempts + 1]]
        /\ wake' = [wake EXCEPT ![a] = 0]
        /\ UNCHANGED <<now, semaphoreVars, timingVars, tokens, check_at, stopped, history>>
    BY <1>0, <1>5 DEF Retry, CallInv
  <2>3. call[a].attempts + 1 \in 0..MaxAttempts /\ now \in 0..MaxNow
    BY <1>0, <2>2
  <2>4. [call[a] EXCEPT !.attempt = now, !.attempts = call[a].attempts + 1] \in Call
    BY <1>0, <2>3 DEF Call
  <2>5. /\ call' \in [Agents -> Call] /\ call'[a].begin = call[a].begin
        /\ call'[a].attempt = now /\ call'[a].reported = call[a].reported
    BY <1>0, <2>2, <2>4 DEF TypeInv, Call
  <2>6. wake' \in [Agents -> 0..MaxNow]
    BY <1>0, <2>2 DEF TypeInv
  <2>7. CallInv(a)'
    BY <1>0, <2>1, <2>2, <2>5 DEF CallInv
  <2> QED BY <1>0, <2>1, <2>2, <2>5, <2>6, <2>7 DEF TypeInv
<1>6. CASE CacheHit(a)
  <2>1. PICK time \in 1..(MaxReplayed - replayed) :
          /\ ReportWaiting(a, Unreported(a) - time)
          /\ unproductive' = unproductive + now - call[a].begin - time
          /\ replayed' = replayed + time
    BY <1>6 DEF CacheHit
  <2>0. time \in Nat /\ replayed \in Nat /\ unproductive \in Int
    BY <1>0, Bounds DEF TypeInv
  <2>2. Unreported(a) - time \in Int
    BY <1>0, <2>0 DEF Unreported
  <2>3. waiting' \in Int /\ node_wait' \in [Nodes -> Int]
    BY <1>0, <2>1, <2>2, Reports
  <2>4. unproductive' \in Int /\ replayed' \in Nat
    BY <1>0, <2>0, <2>1
  <2> QED BY <1>0, <1>6, <2>3, <2>4, CallEnds DEF CacheHit, TypeInv, CallInv
<1>7. CASE Succeed(a)
  <2>1. PICK time \in 0..(now - call[a].attempt) :
          /\ ReportWaiting(a, Unreported(a) - time)
          /\ unproductive' = unproductive + now - call[a].begin - time
    BY <1>7 DEF Succeed
  <2>0. time \in Nat
    BY <1>0
  <2>u. unproductive \in Int
    BY <1>0 DEF TypeInv
  <2>2. Unreported(a) - time \in Int
    BY <1>0, <2>0 DEF Unreported
  <2>3. waiting' \in Int /\ node_wait' \in [Nodes -> Int]
    BY <1>0, <2>1, <2>2, Reports
  <2>4. unproductive' \in Int /\ tokens' \in [Nodes -> Nat]
    BY <1>0, <1>7, <2>0, <2>u, <2>1, TokensType DEF Succeed
  <2> QED BY <1>0, <1>7, <2>3, <2>4, CallEnds DEF Succeed, TypeInv, CallInv
<1>8. CASE TokenLimitExceeded(a)
  <2>1. tokens' \in [Nodes -> Nat]
    BY <1>0, <1>8, TokensType DEF TokenLimitExceeded
  <2>2. unproductive' \in Int
    BY <1>0, <1>8 DEF TokenLimitExceeded, TypeInv
  <2>3. stopped' \in {"no", "working", "token"}
    BY <1>0, <1>8 DEF TokenLimitExceeded, TypeInv
  <2> QED BY <1>0, <1>8, <2>1, <2>2, <2>3, CallEnds DEF TokenLimitExceeded, TypeInv, CallInv
<1>9. CASE CancelCall(a)
  <2>1. unproductive' \in Int
    BY <1>0, <1>9 DEF CancelCall, TypeInv
  <2> QED BY <1>0, <1>9, <2>1, CallEnds DEF CancelCall, TypeInv, CallInv
<1>10. CASE Finish(a)
  <2>1. pc'[a] = "done" /\ pc' \in [Agents -> {"ready", "queued", "calling", "sleeping", "limited", "done"}]
    BY <1>10, <1>p DEF Finish
  <2> QED BY <1>0, <1>10, <2>1 DEF Finish, TypeInv, CallInv
<1> QED BY <1>1, <1>2, <1>3, <1>4, <1>5, <1>6, <1>7, <1>8, <1>9, <1>10 DEF Agent

-----------------------------------------------------------------------------
(* What an agent contributes, and how its steps change the sums *)

Queued(a) == IF pc[a] = "queued" THEN 1 ELSE 0
Held(a) == IF pc[a] \in {"calling", "sleeping"} THEN 1 ELSE 0
Part(a) == IF pc[a] \in {"calling", "sleeping"} THEN call[a].reported ELSE 0

(* The queue, with the places of agents that join and leave it *)
QueueStep(a) ==
  /\ Distinct(queue')
  /\ Elements(queue') \ {Other} =
       ((Elements(queue) \ {Other}) \ {a}) \cup (IF pc'[a] = "queued" THEN {a} ELSE {})

(* The clocks, with the share of one agent in each of them *)
ClockStep(a) ==
  /\ waits' = waits - Queued(a) + Queued(a)'
  /\ wait_start' <= now
  /\ waiting' = waiting + OngoingWait - OngoingWait' + (unproductive' - unproductive) + (Part(a)' - Part(a))
  /\ node_wait'[Sample] = waiting'
  /\ waiting' >= waiting + replayed - replayed'

(* Actions between the wait for a connection and the end of the call *)
LEMMA Unqueued ==
  ASSUME Inv, NEW a \in Agents, pc[a] # "queued", pc'[a] # "queued", UNCHANGED <<queue, waits, wait_start>>
  PROVE  /\ QueueStep(a) /\ waits' = waits - Queued(a) + Queued(a)' /\ wait_start' <= now
         /\ now' = now => OngoingWait' = OngoingWait
<1>1. Distinct(queue) /\ Elements(queue) \ {Other} = Waiting /\ a \notin Waiting /\ waits \in Nat /\ wait_start <= now
  BY DEF Inv, TypeInv, SlotInv, QueueInv, WaitInv, Waiting
<1>2. QueueStep(a)
  BY <1>1 DEF QueueStep
<1>3. Queued(a) = 0 /\ Queued(a)' = 0
  BY DEF Queued
<1> QED BY <1>1, <1>2, <1>3 DEF OngoingWait

LEMMA ClockTypes ==
  ASSUME Inv, NEW a \in Agents
  PROVE  /\ now \in Nat /\ waits \in Nat /\ wait_start \in Nat /\ waiting \in Int /\ unproductive \in Int
         /\ contended \in Nat /\ replayed \in Nat /\ free \in Nat /\ OngoingWait \in Int
         /\ Part(a) \in Nat /\ Held(a) \in {0, 1} /\ Queued(a) \in {0, 1}
         /\ node_wait[Sample] = waiting /\ TypeInv /\ SlotInv /\ WaitInv /\ CallInv(a)
<1>1. TypeInv /\ SlotInv /\ WaitInv /\ CallInv(a) /\ now \in Nat /\ call[a].reported \in Nat
  BY Fields DEF Inv
<1>2. /\ waits \in Nat /\ wait_start \in Nat /\ waiting \in Int /\ unproductive \in Int
      /\ contended \in Nat /\ replayed \in Nat /\ free \in Nat /\ node_wait[Sample] = waiting
  BY <1>1 DEF TypeInv, WaitInv
<1> QED BY <1>1, <1>2 DEF OngoingWait, Part, Held, Queued

LEMMA Goes ==
  ASSUME TypeInv, NEW a \in Agents, NEW at, Goto(a, at)
  PROVE  pc'[a] = at
BY DEF TypeInv, Goto

LEMMA AgentQueue ==
  ASSUME Inv, NEW a \in Agents, Agent(a)
  PROVE  QueueStep(a) /\ free' = free + Held(a) - Held(a)'
<1> USE DEF semaphoreVars, timingVars
<1>0. TypeInv /\ SlotInv /\ free \in Nat /\ a # Other
  BY ClockTypes, Bounds
<1>q. Distinct(queue) /\ Elements(queue) \ {Other} = Waiting /\ queue \in Seq(Agents \cup {Other})
  BY <1>0 DEF SlotInv, QueueInv, TypeInv
<1>1. CASE RequestConnection(a)
  <2>1. pc[a] = "ready" /\ pc'[a] = "queued" /\ queue' = Append(queue, a) /\ free' = free
    BY <1>0, <1>1, Goes DEF RequestConnection
  <2>2. a \notin Elements(queue)
    BY <1>0, <1>q, <2>1 DEF Waiting
  <2>3. Elements(queue') = Elements(queue) \cup {a} /\ Distinct(queue')
    <3> DEFINE S == Agents \cup {Other}
    <3>1. queue \in Seq(S) /\ a \in S
      BY <1>q
    <3> HIDE DEF S
    <3> QED BY <1>q, <2>1, <2>2, <3>1, AppendElements
  <2> QED BY <1>0, <2>1, <2>2, <2>3 DEF QueueStep, Held
<1>2. CASE Connect(a)
  <2>1. queue # <<>> /\ Head(queue) = a /\ queue' = Tail(queue) /\ free' = free - 1 /\ pc'[a] = "calling"
    BY <1>0, <1>2, Goes DEF Connect
  <2>2. pc[a] = "queued" /\ Distinct(queue') /\ Elements(queue') = Elements(queue) \ {a}
    BY <1>0, <2>1, HeadWaits DEF Waiting
  <2> QED BY <1>0, <2>1, <2>2 DEF QueueStep, Held
<1>3. CASE CancelWaiting(a)
  <2>1. pc[a] = "queued" /\ Leave(a) /\ free' = free /\ pc'[a] = "done"
    BY <1>0, <1>3, Goes DEF CancelWaiting
  <2>2. Distinct(queue') /\ Elements(queue') = Elements(queue) \ {a}
    BY <1>0, <2>1, Leaves
  <2> QED BY <1>0, <2>1, <2>2 DEF QueueStep, Held
<1>4. CASE AttemptFails(a)
  <2>1. pc[a] = "calling" /\ pc'[a] = "sleeping" /\ UNCHANGED <<queue, free, waits, wait_start>>
    BY <1>0, <1>4, Goes DEF AttemptFails
  <2> QED BY <1>0, <2>1, Unqueued DEF Held
<1>5. CASE Retry(a)
  <2>1. pc[a] = "sleeping" /\ pc'[a] = "calling" /\ UNCHANGED <<queue, free, waits, wait_start>>
    BY <1>0, <1>5, Goes DEF Retry
  <2> QED BY <1>0, <2>1, Unqueued DEF Held
<1>6. CASE CacheHit(a)
  <2>1. pc[a] = "calling" /\ pc'[a] = "ready" /\ UNCHANGED <<queue, waits, wait_start>> /\ free' = free + 1
    BY <1>0, <1>6, CallEnds DEF CacheHit
  <2> QED BY <1>0, <2>1, Unqueued DEF Held
<1>7. CASE Succeed(a)
  <2>1. pc[a] = "calling" /\ pc'[a] = "ready" /\ UNCHANGED <<queue, waits, wait_start>> /\ free' = free + 1
    BY <1>0, <1>7, CallEnds DEF Succeed
  <2> QED BY <1>0, <2>1, Unqueued DEF Held
<1>8. CASE TokenLimitExceeded(a)
  <2>1. pc[a] = "calling" /\ pc'[a] = "limited" /\ UNCHANGED <<queue, waits, wait_start>> /\ free' = free + 1
    BY <1>0, <1>8, CallEnds DEF TokenLimitExceeded
  <2> QED BY <1>0, <2>1, Unqueued DEF Held
<1>9. CASE CancelCall(a)
  <2>1. pc[a] \in {"calling", "sleeping"} /\ pc'[a] = "done" /\ UNCHANGED <<queue, waits, wait_start>> /\ free' = free + 1
    BY <1>0, <1>9, CallEnds DEF CancelCall
  <2> QED BY <1>0, <2>1, Unqueued DEF Held
<1>10. CASE Finish(a)
  <2>1. pc[a] = "ready" /\ pc'[a] = "done" /\ UNCHANGED <<queue, free, waits, wait_start>>
    BY <1>0, <1>10, Goes DEF Finish
  <2> QED BY <1>0, <2>1, Unqueued DEF Held
<1> QED BY <1>1, <1>2, <1>3, <1>4, <1>5, <1>6, <1>7, <1>8, <1>9, <1>10 DEF Agent

LEMMA AgentClocks ==
  ASSUME Inv, NEW a \in Agents, Agent(a)
  PROVE  ClockStep(a)
<1> USE DEF semaphoreVars, timingVars, history
<1>0. /\ now \in Nat /\ waits \in Nat /\ wait_start \in Nat /\ waiting \in Int /\ unproductive \in Int
      /\ replayed \in Nat /\ OngoingWait \in Int /\ node_wait[Sample] = waiting
      /\ TypeInv /\ WaitInv /\ CallInv(a) /\ wait_start <= now
  BY ClockTypes DEF WaitInv
<1>c. call[a].begin \in Nat /\ call[a].attempt \in Nat /\ call[a].reported \in Nat
  BY <1>0, Fields
<1>1. CASE RequestConnection(a)
  <2>1. /\ pc[a] = "ready" /\ pc'[a] = "queued" /\ waits' = waits + 1
        /\ wait_start' = (IF waits = 0 THEN now ELSE wait_start)
        /\ UNCHANGED <<now, waiting, node_wait, unproductive, replayed>>
    BY <1>0, <1>1, Goes DEF RequestConnection, BeginWait
  <2>2. OngoingWait' = OngoingWait /\ wait_start' <= now
    BY <1>0, <2>1 DEF OngoingWait
  <2>3. Part(a) = 0 /\ Part(a)' = 0 /\ Queued(a) = 0 /\ Queued(a)' = 1
    BY <2>1 DEF Part, Queued
  <2> QED BY <1>0, <2>1, <2>2, <2>3 DEF ClockStep
<1>2. CASE Connect(a)
  <2>1. /\ EndWait(a) /\ UNCHANGED <<now, unproductive, replayed>>
        /\ call' = [call EXCEPT ![a] = [begin |-> now, attempt |-> now, attempts |-> 1, reported |-> 0]]
    BY <1>2 DEF Connect
  <2>2. pc[a] = "queued" /\ pc'[a] = "calling"
    <3>1. SlotInv /\ a # Other
      BY ClockTypes, Bounds
    <3> QED BY <1>0, <1>2, <3>1, HeadWaits, Goes DEF Connect, Waiting
  <2>3. /\ waits' = waits - 1 /\ waits' \in Nat /\ wait_start' \in 0..MaxNow /\ wait_start' <= now
        /\ waiting' >= waiting /\ waiting' \in Int /\ node_wait'[Sample] = waiting'
        /\ waiting' = waiting + OngoingWait - (IF waits' > 0 THEN now - wait_start' ELSE 0)
    BY <1>0, <2>1, <2>2, WaitEnds, SMTT(30)
  <2>4. OngoingWait' = IF waits' > 0 THEN now - wait_start' ELSE 0
    BY <2>1 DEF OngoingWait
  <2>5. Part(a) = 0 /\ Part(a)' = 0 /\ Queued(a) = 1 /\ Queued(a)' = 0
    BY <1>0, <2>1, <2>2 DEF Part, Queued, TypeInv
  <2>6. waiting \in Int /\ waiting' \in Int /\ unproductive \in Int /\ replayed \in Nat
        /\ OngoingWait \in Int /\ OngoingWait' \in Int /\ unproductive' = unproductive /\ replayed' = replayed
    BY <1>0, <2>1, <2>3, <2>4
  <2>7. waiting' = waiting + OngoingWait - OngoingWait' + unproductive' - unproductive + Part(a)' - Part(a)
    <3>1. waiting' = waiting + OngoingWait - OngoingWait'
      BY <2>3, <2>4
    <3> QED BY <2>5, <2>6, <3>1
  <2>8. waiting' >= waiting + replayed - replayed'
    BY <2>3, <2>6
  <2>9. waits' = waits - Queued(a) + Queued(a)'
    <3>1. waits \in Nat /\ waits' = waits - 1
      BY <1>0, <2>3
    <3> QED BY <2>5, <3>1
  <2> QED BY <2>3, <2>7, <2>8, <2>9 DEF ClockStep
<1>3. CASE CancelWaiting(a)
  <2>1. pc[a] = "queued" /\ pc'[a] = "done" /\ EndWait(a) /\ UNCHANGED <<now, unproductive, replayed>>
    BY <1>0, <1>3, Goes DEF CancelWaiting
  <2>3. /\ waits' = waits - 1 /\ waits' \in Nat /\ wait_start' \in 0..MaxNow /\ wait_start' <= now
        /\ waiting' >= waiting /\ waiting' \in Int /\ node_wait'[Sample] = waiting'
        /\ waiting' = waiting + OngoingWait - (IF waits' > 0 THEN now - wait_start' ELSE 0)
    BY <1>0, <2>1, WaitEnds, SMTT(30)
  <2>4. OngoingWait' = IF waits' > 0 THEN now - wait_start' ELSE 0
    BY <2>1 DEF OngoingWait
  <2>5. Part(a) = 0 /\ Part(a)' = 0 /\ Queued(a) = 1 /\ Queued(a)' = 0
    BY <2>1 DEF Part, Queued
  <2>6. waiting \in Int /\ waiting' \in Int /\ unproductive \in Int /\ replayed \in Nat
        /\ OngoingWait \in Int /\ OngoingWait' \in Int /\ unproductive' = unproductive /\ replayed' = replayed
    BY <1>0, <2>1, <2>3, <2>4
  <2>7. waiting' = waiting + OngoingWait - OngoingWait' + unproductive' - unproductive + Part(a)' - Part(a)
    <3>1. waiting' = waiting + OngoingWait - OngoingWait'
      BY <2>3, <2>4
    <3> QED BY <2>5, <2>6, <3>1
  <2>8. waiting' >= waiting + replayed - replayed'
    BY <2>3, <2>6
  <2>9. waits' = waits - Queued(a) + Queued(a)'
    <3>1. waits \in Nat /\ waits' = waits - 1
      BY <1>0, <2>3
    <3> QED BY <2>5, <3>1
  <2> QED BY <2>3, <2>7, <2>8, <2>9 DEF ClockStep
<1>4. CASE AttemptFails(a)
  <2>1. /\ pc[a] = "calling" /\ pc'[a] = "sleeping"
        /\ UNCHANGED <<now, queue, waits, wait_start, unproductive, replayed>>
    BY <1>0, <1>4, Goes DEF AttemptFails
  <2>2. PICK sleep \in 1..(MaxNow - now) :
          call' = [call EXCEPT ![a].reported = @ + sleep] /\ ReportWaiting(a, sleep)
    BY <1>4 DEF AttemptFails
  <2>3. sleep \in Int /\ sleep > 0
    BY <1>0, Bounds
  <2>4. waiting' = waiting + sleep /\ node_wait'[Sample] = waiting'
    BY <1>0, <2>2, <2>3, Reports
  <2>5. call'[a].reported = call[a].reported + sleep
    BY <1>0, <2>2 DEF TypeInv, Call
  <2>6. Part(a) = call[a].reported /\ Part(a)' = call[a].reported + sleep
    BY <2>1, <2>5 DEF Part
  <2>7. OngoingWait' = OngoingWait /\ waits' = waits - Queued(a) + Queued(a)' /\ wait_start' <= now
    BY <2>1, Unqueued
  <2> QED BY <1>0, <1>c, <2>1, <2>3, <2>4, <2>6, <2>7 DEF ClockStep
<1>5. CASE Retry(a)
  <2>1. /\ pc[a] = "sleeping" /\ pc'[a] = "calling"
        /\ UNCHANGED <<now, queue, waits, wait_start, waiting, node_wait, unproductive, replayed>>
        /\ call' = [call EXCEPT ![a].attempt = now, ![a].attempts = @ + 1]
    BY <1>0, <1>5, Goes DEF Retry
  <2>2. call'[a].reported = call[a].reported
    BY <1>0, <2>1 DEF TypeInv, Call
  <2>3. Part(a) = call[a].reported /\ Part(a)' = call[a].reported
    BY <2>1, <2>2 DEF Part
  <2>4. OngoingWait' = OngoingWait /\ waits' = waits - Queued(a) + Queued(a)' /\ wait_start' <= now
    BY <2>1, Unqueued
  <2> QED BY <1>0, <1>c, <2>1, <2>3, <2>4 DEF ClockStep
<1>6. CASE CacheHit(a)
  <2>1. /\ pc[a] = "calling" /\ pc'[a] = "ready" /\ UNCHANGED <<now, queue, waits, wait_start>>
    BY <1>0, <1>6, CallEnds DEF CacheHit
  <2>2. PICK time \in 1..(MaxReplayed - replayed) :
          /\ ReportWaiting(a, Unreported(a) - time)
          /\ unproductive' = unproductive + now - call[a].begin - time
          /\ replayed' = replayed + time
    BY <1>6 DEF CacheHit
  <2>3. time \in Nat
    BY <1>0, Bounds
  <2>4. Unreported(a) = now - call[a].begin - call[a].reported /\ Unreported(a) \in Int /\ Unreported(a) >= 0
    BY <1>0, <1>c, <2>1 DEF Unreported, CallInv
  <2>5. Unreported(a) - time \in Int
    BY <2>3, <2>4
  <2>6. waiting' = waiting + (Unreported(a) - time) /\ node_wait'[Sample] = waiting'
    BY <1>0, <2>2, <2>5, Reports
  <2>7. Part(a) = call[a].reported /\ Part(a)' = 0
    BY <2>1 DEF Part
  <2>8. OngoingWait' = OngoingWait /\ waits' = waits - Queued(a) + Queued(a)' /\ wait_start' <= now
    BY <2>1, Unqueued
  <2> QED BY <1>0, <1>c, <2>2, <2>3, <2>4, <2>6, <2>7, <2>8 DEF ClockStep
<1>7. CASE Succeed(a)
  <2>1. /\ pc[a] = "calling" /\ pc'[a] = "ready" /\ UNCHANGED <<now, queue, waits, wait_start, replayed>>
    BY <1>0, <1>7, CallEnds DEF Succeed
  <2>2. PICK time \in 0..(now - call[a].attempt) :
          /\ ReportWaiting(a, Unreported(a) - time)
          /\ unproductive' = unproductive + now - call[a].begin - time
    BY <1>7 DEF Succeed
  <2>3. time \in Nat /\ time <= now - call[a].attempt
    BY <1>0, <1>c
  <2>4. Unreported(a) = now - call[a].begin - call[a].reported /\ Unreported(a) \in Int /\ Unreported(a) >= time
    BY <1>0, <1>c, <2>1, <2>3 DEF Unreported, CallInv
  <2>5. Unreported(a) - time \in Int
    BY <2>3, <2>4
  <2>6. waiting' = waiting + (Unreported(a) - time) /\ node_wait'[Sample] = waiting'
    BY <1>0, <2>2, <2>5, Reports
  <2>7. Part(a) = call[a].reported /\ Part(a)' = 0
    BY <2>1 DEF Part
  <2>8. OngoingWait' = OngoingWait /\ waits' = waits - Queued(a) + Queued(a)' /\ wait_start' <= now
    BY <2>1, Unqueued
  <2> QED BY <1>0, <1>c, <2>1, <2>2, <2>3, <2>4, <2>6, <2>7, <2>8 DEF ClockStep
<1>8. CASE TokenLimitExceeded(a) \/ CancelCall(a)
  <2>1. /\ pc[a] \in {"calling", "sleeping"} /\ pc'[a] \in {"limited", "done"}
        /\ UNCHANGED <<now, queue, waits, wait_start, waiting, node_wait, replayed>>
        /\ unproductive' = unproductive + call[a].reported
    <3>1. CASE TokenLimitExceeded(a)
      BY <1>0, <3>1, CallEnds DEF TokenLimitExceeded
    <3>2. CASE CancelCall(a)
      BY <1>0, <3>2, CallEnds DEF CancelCall
    <3> QED BY <1>8, <3>1, <3>2
  <2>2. Part(a) = call[a].reported /\ Part(a)' = 0
    BY <2>1 DEF Part
  <2>3. OngoingWait' = OngoingWait /\ waits' = waits - Queued(a) + Queued(a)' /\ wait_start' <= now
    BY <2>1, Unqueued
  <2> QED BY <1>0, <1>c, <2>1, <2>2, <2>3 DEF ClockStep
<1>9. CASE Finish(a)
  <2>1. /\ pc[a] = "ready" /\ pc'[a] = "done"
        /\ UNCHANGED <<now, queue, waits, wait_start, waiting, node_wait, unproductive, replayed>>
    BY <1>0, <1>9, Goes DEF Finish
  <2>2. Part(a) = 0 /\ Part(a)' = 0
    BY <2>1 DEF Part
  <2>3. OngoingWait' = OngoingWait /\ waits' = waits - Queued(a) + Queued(a)' /\ wait_start' <= now
    BY <2>1, Unqueued
  <2> QED BY <1>0, <2>1, <2>2, <2>3 DEF ClockStep
<1> QED BY <1>1, <1>2, <1>3, <1>4, <1>5, <1>6, <1>7, <1>8, <1>9 DEF Agent

(* The agents that a limit has ended in tool calls and handoffs are finitely many. *)
LEMMA LimitedFinite ==
  IsFiniteSet(Limited) /\ Cardinality(Limited) \in Nat
<1>1. Limited \in SUBSET Agents
  BY WorkingTimeAssumption DEF Limited
<1> QED BY <1>1, Bounds, FS_Subset, FS_CardinalityType

(* A step that records no tokens and leaves the agents ended by a limit where they are *)
LEMMA TokensKept ==
  ASSUME SampleLimitNotHidden, tokens' = tokens, stopped = "token" => stopped' = "token", Limited' = Limited
  PROVE  SampleLimitNotHidden'
BY DEF SampleLimitNotHidden

(* The request that exceeds the limit of the sample ends it, or the agent that made the request. *)
LEMMA AgentTokens ==
  ASSUME Inv, NEW a \in Agents, Agent(a)
  PROVE  SampleLimitNotHidden'
<1> USE DEF timingVars, history
<1>0. /\ TypeInv /\ SampleLimitNotHidden /\ Running /\ Frame(a) /\ Nested \subseteq Agents
  BY AgentFrame, WorkingTimeAssumption DEF Inv
<1>1. Sample \in Path(a) /\ Sample \in Nodes /\ tokens[Sample] \in Nat /\ TokenLimit[Sample] \in Nat
  BY <1>0, Bounds, WorkingTimeAssumption DEF Path, TypeInv
<1>2. /\ TokensAfter(a)[Sample] = tokens[Sample] + 1
      /\ TokensAfter(a)[Sample] > TokenLimit[Sample] => Sample \in Exceeded(a)
  BY <1>1 DEF Exceeded, TokensAfter
<1>3. CASE Succeed(a)
  <2>1. tokens'[Sample] <= TokenLimit[Sample] /\ tokens'[Sample] \in Nat
    BY <1>1, <1>2, <1>3 DEF Succeed
  <2>2. Limited' \in SUBSET Agents
    BY <1>0 DEF Limited
  <2>3. Cardinality(Limited') \in Nat
    BY <2>2, Bounds, FS_Subset, FS_CardinalityType
  <2> QED BY <1>1, <2>1, <2>3 DEF SampleLimitNotHidden
<1>4. CASE TokenLimitExceeded(a)
  <2>1. /\ pc[a] = "calling" /\ pc' = [pc EXCEPT ![a] = "limited"] /\ pc'[a] = "limited"
        /\ tokens' = TokensAfter(a) /\ tokens'[Sample] = tokens[Sample] + 1
        /\ stopped' = (IF Source(a) = Sample /\ a \notin Nested THEN "token" ELSE stopped)
    BY <1>0, <1>2, <1>4 DEF TokenLimitExceeded, EndCall, Goto, TypeInv
  <2>2. CASE a \in Nested
    <3>1. a \notin Limited /\ Limited' = Limited \cup {a}
      BY <1>0, <2>1, <2>2 DEF Limited, Frame
    <3>2. Cardinality(Limited') = Cardinality(Limited) + 1 /\ Cardinality(Limited) \in Nat
      BY <3>1, LimitedFinite, FS_AddElement
    <3>3. stopped' = stopped /\ stopped # "token"
      BY <1>0, <2>1, <2>2 DEF Running
    <3>4. tokens[Sample] - TokenLimit[Sample] <= Cardinality(Limited)
      BY <1>0, <3>3 DEF SampleLimitNotHidden
    <3> QED BY <1>1, <2>1, <3>2, <3>4 DEF SampleLimitNotHidden
  <2>3. CASE a \notin Nested
    <3>1. Limited' = Limited
      BY <1>0, <2>1, <2>3 DEF Limited, Frame
    <3>2. CASE TokensAfter(a)[Sample] > TokenLimit[Sample]
      <4>1. Source(a) = Sample
        BY <1>2, <3>2 DEF Source
      <4> QED BY <2>1, <2>3, <4>1 DEF SampleLimitNotHidden
    <3>3. CASE ~(TokensAfter(a)[Sample] > TokenLimit[Sample])
      <4>1. tokens'[Sample] - TokenLimit[Sample] <= 0
        BY <1>1, <1>2, <2>1, <3>3
      <4>2. Cardinality(Limited') \in Nat
        BY <3>1, LimitedFinite
      <4> QED BY <1>1, <1>2, <2>1, <4>1, <4>2 DEF SampleLimitNotHidden
    <3> QED BY <3>2, <3>3
  <2> QED BY <2>2, <2>3
<1>5. ASSUME ~Succeed(a), ~TokenLimitExceeded(a) PROVE SampleLimitNotHidden'
  <2>1. UNCHANGED <<tokens, stopped>>
    BY <1>5 DEF Agent, RequestConnection, Connect, CancelWaiting, AttemptFails, Retry, CacheHit, CancelCall, Finish
  <2>2. pc'[a] # "limited"
    BY <1>0, <1>5, Goes DEF Agent, RequestConnection, Connect, CancelWaiting, AttemptFails, Retry, CacheHit,
                            CancelCall, Finish, EndCall
  <2>3. pc[a] # "limited"
    <3>1. CASE Connect(a)
      <4>1. a \in Waiting \cup {Other}
        BY <1>0, <3>1, HeadWaits DEF Connect, Inv
      <4> QED BY <4>1, Bounds DEF Waiting
    <3>2. CASE ~Connect(a)
      BY <1>5, <3>2 DEF Agent, RequestConnection, CancelWaiting, AttemptFails, Retry, CacheHit, CancelCall, Finish
    <3> QED BY <3>1, <3>2
  <2>4. Limited' = Limited
    BY <1>0, <2>2, <2>3 DEF Limited, Frame
  <2> QED BY <1>0, <2>1, <2>4, TokensKept
<1> QED BY <1>3, <1>4, <1>5

LEMMA ReportedType ==
  ASSUME TypeInv
  PROVE  ReportedInCalls \in Nat
<1> DEFINE f == [b \in Agents |-> call[b].reported]
<1>1. \A b \in InCall : f[b] = call[b].reported /\ f[b] \in Nat
  BY DEF InCall, TypeInv, Call
<1> HIDE DEF f
<1>2. {{b} \X (1..call[b].reported) : b \in InCall} = {{b} \X (1..f[b]) : b \in InCall}
  BY <1>1
<1>3. Total(InCall, f) \in Nat
  BY <1>1, WaitersFinite, TotalFinite
<1> QED BY <1>2, <1>3 DEF Total, ReportedInCalls

LEMMA AgentWaiting ==
  ASSUME Inv, TypeInv', NEW a \in Agents, Agent(a)
  PROVE  SlotInv' /\ WaitInv'
<1>0. /\ TypeInv /\ SlotInv /\ WaitInv /\ Frame(a) /\ QueueStep(a) /\ ClockStep(a)
      /\ free' = free + Held(a) - Held(a)'
  BY AgentFrame, AgentQueue, AgentClocks DEF Inv
<1>1. Waiting \ {a} = Waiting' \ {a} /\ InCall \ {a} = InCall' \ {a}
  BY <1>0 DEF Frame, Waiting, InCall
<1>2. QueueInv'
  <2>1. Waiting' = (Waiting \ {a}) \cup (IF pc'[a] = "queued" THEN {a} ELSE {})
    BY <1>1 DEF Waiting
  <2> QED BY <1>0, <2>1 DEF QueueStep, QueueInv, SlotInv
<1>3. /\ Cardinality(Waiting') = Cardinality(Waiting) - Queued(a) + Queued(a)'
      /\ Cardinality(InCall') = Cardinality(InCall) - Held(a) + Held(a)'
      /\ Cardinality(Waiting) \in Nat /\ Cardinality(InCall) \in Nat /\ IsFiniteSet(InCall)
  <2>1. /\ (a \in Waiting <=> pc[a] = "queued") /\ (a \in Waiting' <=> pc'[a] = "queued")
        /\ (a \in InCall <=> pc[a] \in {"calling", "sleeping"})
        /\ (a \in InCall' <=> pc'[a] \in {"calling", "sleeping"})
    BY DEF Waiting, InCall
  <2>2. Cardinality(Waiting') = Cardinality(Waiting) - Queued(a) + Queued(a)'
    <3>1. Cardinality(Waiting') = Cardinality(Waiting) - (IF a \in Waiting THEN 1 ELSE 0)
                                    + (IF a \in Waiting' THEN 1 ELSE 0)
      BY <1>1, WaitersFinite, OneChanges
    <3> QED BY <2>1, <3>1 DEF Queued
  <2>3. Cardinality(InCall') = Cardinality(InCall) - Held(a) + Held(a)'
    <3>1. Cardinality(InCall') = Cardinality(InCall) - (IF a \in InCall THEN 1 ELSE 0)
                                    + (IF a \in InCall' THEN 1 ELSE 0)
      BY <1>1, WaitersFinite, OneChanges
    <3> QED BY <2>1, <3>1 DEF Held
  <2> QED BY <2>2, <2>3, WaitersFinite
<1>4. ReportedInCalls \in Nat /\ ReportedInCalls' \in Nat /\ ReportedInCalls' = ReportedInCalls - Part(a) + Part(a)'
  <2> DEFINE f == [b \in Agents |-> call[b].reported]
             g == [b \in Agents |-> call'[b].reported]
  <2>1. /\ \A b \in InCall : b \in Agents /\ f[b] = call[b].reported /\ f[b] \in Nat
        /\ \A b \in InCall' : b \in Agents /\ g[b] = call'[b].reported /\ g[b] \in Nat
        /\ \A b \in InCall \ {a} : f[b] = g[b]
        /\ f[a] = call[a].reported /\ g[a] = call'[a].reported
    BY <1>0 DEF InCall, TypeInv, Call, Frame
  <2> HIDE DEF f, g
  <2>2. /\ Total(InCall, f) \in Nat /\ Total(InCall', g) \in Nat
        /\ Total(InCall', g) = Total(InCall, f) - (IF a \in InCall THEN f[a] ELSE 0) + (IF a \in InCall' THEN g[a] ELSE 0)
    <3>1. (\A b \in InCall : f[b] \in Nat) /\ (\A b \in InCall' : g[b] \in Nat)
          /\ (\A b \in InCall \ {a} : f[b] = g[b])
      BY <2>1
    <3>2. IsFiniteSet(InCall) /\ InCall \ {a} = InCall' \ {a}
      BY <1>1, <1>3
    <3> QED BY <3>1, <3>2, TotalChanges
  <2>3. ReportedInCalls = Total(InCall, f) /\ ReportedInCalls' = Total(InCall', g)
    <3>1. \A b \in InCall : {b} \X (1..call[b].reported) = {b} \X (1..f[b])
      BY <2>1
    <3>2. \A b \in InCall' : {b} \X (1..call'[b].reported) = {b} \X (1..g[b])
      BY <2>1
    <3>3. {{b} \X (1..call[b].reported) : b \in InCall} = {{b} \X (1..f[b]) : b \in InCall}
      BY <3>1
    <3>4. {{b} \X (1..call'[b].reported) : b \in InCall'} = {{b} \X (1..g[b]) : b \in InCall'}
      BY <3>2
    <3> QED BY <3>3, <3>4 DEF ReportedInCalls, Total
  <2>4. /\ (a \in InCall <=> pc[a] \in {"calling", "sleeping"})
        /\ (a \in InCall' <=> pc'[a] \in {"calling", "sleeping"})
    BY DEF InCall
  <2> QED BY <2>1, <2>2, <2>3, <2>4 DEF Part
<1>5. SlotInv'
  <2>1. /\ free + others + Cardinality(InCall) = Slots /\ free \in Nat /\ others \in Nat /\ others' = others
        /\ Held(a) \in Nat /\ Held(a)' \in Nat
    BY <1>0, Bounds DEF SlotInv, TypeInv, Frame, Held
  <2> QED BY <1>0, <1>2, <1>3, <2>1 DEF SlotInv
<1>6. WaitInv'
  <2>1. /\ waits = Cardinality(Waiting) /\ waiting = contended + unproductive + ReportedInCalls - OngoingWait
        /\ contended' = contended /\ now' = now /\ contended \in Nat
        /\ waits' = waits - Queued(a) + Queued(a)' /\ wait_start' <= now
        /\ waiting' = waiting + OngoingWait - OngoingWait' + (unproductive' - unproductive) + (Part(a)' - Part(a))
        /\ node_wait'[Sample] = waiting'
    BY <1>0 DEF WaitInv, ClockStep, Frame, TypeInv
  <2>2. /\ waiting \in Int /\ unproductive \in Int /\ waiting' \in Int /\ unproductive' \in Int
        /\ OngoingWait \in Int /\ OngoingWait' \in Int /\ Part(a) \in Int /\ Part(a)' \in Int
    <3>1. /\ now \in Int /\ wait_start \in Int /\ now' \in Int /\ wait_start' \in Int
          /\ waiting \in Int /\ unproductive \in Int /\ waiting' \in Int /\ unproductive' \in Int
      BY Bounds, <1>0 DEF TypeInv
    <3>2. call[a].reported \in Nat /\ call'[a].reported \in Nat
      BY <1>0 DEF TypeInv, Call
    <3> QED BY <3>1, <3>2 DEF OngoingWait, Part
  <2>3. waits' = Cardinality(Waiting')
    BY <1>3, <2>1
  <2>4. waiting' = contended' + unproductive' + ReportedInCalls' - OngoingWait'
    <3>1. contended \in Int /\ ReportedInCalls \in Int /\ ReportedInCalls' \in Int
      BY <1>4, <2>1
    <3>2. waiting' = contended + unproductive' + ReportedInCalls' - OngoingWait'
      BY <1>4, <2>1, <2>2, <3>1
    <3> QED BY <2>1, <3>2
  <2> QED BY <2>1, <2>3, <2>4 DEF WaitInv
<1> QED BY <1>5, <1>6

(* Work is counted by the clock less the waiting and what the cache replays. *)
LEMMA StillWithin ==
  ASSUME NEW t \in Int, NEW w \in Int, NEW r \in Int, NEW w1 \in Int, NEW r1 \in Int, NEW limit \in Int,
         t - w - r <= limit, w1 >= w + r - r1
  PROVE  t - w1 - r1 <= limit
OBVIOUS

LEMMA AgentStep ==
  ASSUME Inv, NEW a \in Agents, Agent(a)
  PROVE  Inv'
<1>0. /\ TypeInv /\ MonitorInv /\ (\A b \in Agents : CallInv(b)) /\ Running /\ Frame(a) /\ ClockStep(a)
      /\ TypeInv' /\ CallInv(a)' /\ SampleLimitNotHidden'
  BY AgentFrame, AgentClocks, AgentType, AgentTokens DEF Inv
<1>1. SlotInv' /\ WaitInv'
  BY <1>0, AgentWaiting
<1>2. ASSUME NEW b \in Agents PROVE CallInv(b)'
  <2>1. CASE b = a
    BY <1>0, <2>1
  <2>2. CASE b # a
    <3>1. pc'[b] = pc[b] /\ call'[b] = call[b] /\ wake'[b] = wake[b] /\ now' = now /\ CallInv(b)
      BY <1>0, <2>2 DEF Frame
    <3> QED BY <3>1 DEF CallInv
  <2> QED BY <2>1, <2>2
<1>3. MonitorInv'
  <2>1. /\ now' = now /\ check_at' = check_at /\ now <= check_at /\ check_at <= now + 1
        /\ now - waiting - replayed <= (IF now < check_at THEN WorkLimit ELSE WorkLimit + 1)
    BY <1>0 DEF Frame, MonitorInv
  <2>2. /\ now \in Int /\ waiting \in Int /\ replayed \in Int /\ waiting' \in Int /\ replayed' \in Int
        /\ WorkLimit \in Int
    BY <1>0, Bounds DEF TypeInv
  <2>3. waiting' >= waiting + replayed - replayed'
    BY <1>0 DEF ClockStep
  <2>4. CASE now < check_at
    <3>1. now - waiting - replayed <= WorkLimit
      BY <2>1, <2>4
    <3>2. now - waiting' - replayed' <= WorkLimit
      BY <2>2, <2>3, <3>1, StillWithin
    <3> QED BY <2>1, <2>4, <3>2 DEF MonitorInv
  <2>5. CASE ~(now < check_at)
    <3>1. now - waiting - replayed <= WorkLimit + 1 /\ WorkLimit + 1 \in Int
      BY <2>1, <2>2, <2>5
    <3>2. now - waiting' - replayed' <= WorkLimit + 1
      BY <2>2, <2>3, <3>1, StillWithin
    <3> QED BY <2>1, <2>5, <3>2 DEF MonitorInv
  <2> QED BY <2>4, <2>5
<1> QED BY <1>0, <1>1, <1>2, <1>3 DEF Inv

-----------------------------------------------------------------------------
(* Other samples, the monitor and the clock *)

LEMMA OtherStep ==
  ASSUME Inv, Others
  PROVE  Inv'
<1> DEFINE S == Agents \cup {Other}
<1>0. /\ TypeInv /\ SlotInv /\ WaitInv /\ MonitorInv /\ (\A b \in Agents : CallInv(b)) /\ SampleLimitNotHidden
      /\ Distinct(queue) /\ Elements(queue) \ {Other} = Waiting /\ queue \in Seq(S)
      /\ free \in Nat /\ others \in Nat /\ others <= Slots /\ Slots \in Nat
      /\ free + others + Cardinality(InCall) = Slots /\ Cardinality(InCall) \in Nat
  BY Bounds, WaitersFinite DEF Inv, TypeInv, SlotInv, QueueInv
<1>1. UNCHANGED <<now, agentVars, timingVars, tokens, check_at, stopped, history>>
  BY DEF Others, OtherRequests, OtherConnects, OtherReleases
<1>2. /\ queue' \in Seq(S) /\ Distinct(queue') /\ Elements(queue') \ {Other} = Elements(queue) \ {Other}
      /\ free' \in Nat /\ others' \in 0..Slots /\ free' + others' + Cardinality(InCall) = Slots
  <2>1. CASE OtherRequests
    <3>1. queue' = Append(queue, Other) /\ free' = free /\ others' = others
          /\ ~\E i \in DOMAIN queue : queue[i] = Other
      BY <2>1 DEF OtherRequests
    <3>2. Other \notin Elements(queue) /\ Other \in S
      BY <3>1 DEF Elements
    <3> HIDE DEF S
    <3>3. queue' \in Seq(S) /\ Distinct(queue') /\ Elements(queue') = Elements(queue) \cup {Other}
      BY <1>0, <3>1, <3>2, AppendElements
    <3> QED BY <1>0, <3>1, <3>3
  <2>2. CASE OtherConnects
    <3>1. queue # <<>> /\ Head(queue) = Other /\ free > 0
          /\ queue' = Tail(queue) /\ free' = free - 1 /\ others' = others + 1
      BY <2>2 DEF OtherConnects
    <3>2. Distinct(queue') /\ Elements(queue') = Elements(queue) \ {Other}
      BY <1>0, <3>1, HeadWaits
    <3>3. queue' \in Seq(S)
      BY <1>0, <3>1
    <3>4. free' \in Nat /\ others' \in 0..Slots /\ free' + others' + Cardinality(InCall) = Slots
      BY <1>0, <3>1
    <3> QED BY <3>2, <3>3, <3>4
  <2>3. CASE OtherReleases
    <3>1. others > 0 /\ others' = others - 1 /\ free' = free + 1 /\ queue' = queue
      BY <2>3 DEF OtherReleases
    <3> QED BY <1>0, <3>1
  <2> QED BY <2>1, <2>2, <2>3 DEF Others
<1> USE <1>1 DEF agentVars, timingVars, history
<1>3. TypeInv'
  BY <1>0, <1>2 DEF TypeInv
<1>4. Waiting' = Waiting /\ InCall' = InCall
  BY DEF Waiting, InCall
<1>5. SlotInv'
  BY <1>0, <1>2, <1>4 DEF SlotInv, QueueInv
<1>6. WaitInv'
  BY <1>0, <1>4 DEF WaitInv, OngoingWait, ReportedInCalls
<1>7. MonitorInv' /\ SampleLimitNotHidden'
  BY <1>0 DEF MonitorInv, SampleLimitNotHidden, Limited, Running
<1>8. \A b \in Agents : CallInv(b)'
  BY <1>0 DEF CallInv
<1> QED BY <1>3, <1>5, <1>6, <1>7, <1>8 DEF Inv

LEMMA MonitorStep ==
  ASSUME Inv, Monitor
  PROVE  Inv'
<1>0. /\ TypeInv /\ SlotInv /\ WaitInv /\ MonitorInv /\ (\A b \in Agents : CallInv(b)) /\ SampleLimitNotHidden
      /\ now \in Nat /\ check_at \in Nat /\ waiting \in Int /\ replayed \in Nat /\ node_wait[Sample] = waiting
  BY Bounds DEF Inv, TypeInv, WaitInv
<1>1. /\ Running /\ now = check_at /\ UNCHANGED <<now, agentVars, semaphoreVars, timingVars, tokens, history>>
      /\ \/ stopped' = "working" /\ check_at' = check_at
         \/ now - waiting <= WorkLimit /\ check_at' = check_at + 1 /\ stopped' = stopped
  BY <1>0, Bounds DEF Monitor, NextCheck, Usage, ActiveModelEvent
<1> USE DEF agentVars, semaphoreVars, timingVars, history
<1>2. TypeInv'
  BY <1>0, <1>1 DEF TypeInv
<1>3. Waiting' = Waiting /\ InCall' = InCall
  BY <1>1 DEF Waiting, InCall
<1>4. SlotInv'
  BY <1>0, <1>1, <1>3 DEF SlotInv, QueueInv
<1>5. WaitInv'
  BY <1>0, <1>1, <1>3 DEF WaitInv, OngoingWait, ReportedInCalls
<1>6. MonitorInv'
  BY <1>0, <1>1, Bounds DEF MonitorInv, Running
<1>7. SampleLimitNotHidden'
  BY <1>0, <1>1, TokensKept DEF Limited, Running
<1>8. \A b \in Agents : CallInv(b)'
  BY <1>0, <1>1 DEF CallInv
<1> QED BY <1>2, <1>4, <1>5, <1>6, <1>7, <1>8 DEF Inv

LEMMA TickStep ==
  ASSUME Inv, Tick
  PROVE  Inv'
<1>0. /\ TypeInv /\ SlotInv /\ WaitInv /\ MonitorInv /\ (\A b \in Agents : CallInv(b)) /\ SampleLimitNotHidden
      /\ now \in Nat /\ check_at \in Nat /\ waiting \in Int /\ replayed \in Nat /\ wait_start \in Nat
      /\ contended \in Nat /\ unproductive \in Int /\ wait_start <= now /\ waits \in Nat
      /\ waiting = contended + unproductive + ReportedInCalls - OngoingWait
      /\ waits = Cardinality(Waiting) /\ MaxNow \in Nat
  BY Bounds DEF Inv, TypeInv, WaitInv
<1>1. /\ Running /\ now < MaxNow /\ now < check_at /\ now' = now + 1
      /\ \A a \in Agents : pc[a] = "sleeping" => now < wake[a]
      /\ contended' = (IF \E a \in Agents : pc[a] = "queued" THEN contended + 1 ELSE contended)
      /\ UNCHANGED <<agentVars, semaphoreVars, timingVars, tokens, check_at, stopped, unproductive, replayed>>
  BY DEF Tick
<1> USE DEF agentVars, semaphoreVars, timingVars
<1>2. TypeInv'
  <2>1. now' \in 0..MaxNow /\ contended' \in Nat
    BY <1>0, <1>1
  <2> QED BY <1>0, <1>1, <2>1 DEF TypeInv
<1>3. Waiting' = Waiting /\ InCall' = InCall
  BY <1>1 DEF Waiting, InCall
<1>4. SlotInv'
  BY <1>0, <1>1, <1>3 DEF SlotInv, QueueInv
<1>5. waits > 0 <=> \E a \in Agents : pc[a] = "queued"
  <2>1. Waiting = {} <=> Cardinality(Waiting) = 0
    BY WaitersFinite, FS_EmptySet
  <2> QED BY <1>0, <2>1 DEF Waiting
<1>6. WaitInv'
  <2>1. \/ contended' = contended + 1 /\ OngoingWait' = OngoingWait + 1
        \/ contended' = contended /\ OngoingWait' = OngoingWait
    <3>1. CASE waits > 0
      BY <1>0, <1>1, <1>5, <3>1 DEF OngoingWait
    <3>2. CASE ~(waits > 0)
      BY <1>0, <1>1, <1>5, <3>2 DEF OngoingWait
    <3> QED BY <3>1, <3>2
  <2>2. ReportedInCalls' = ReportedInCalls
    BY <1>1, <1>3 DEF ReportedInCalls
  <2>3. OngoingWait \in Int /\ OngoingWait' \in Int /\ ReportedInCalls \in Int /\ contended' \in Int
    <3>1. now \in Int /\ now' \in Int /\ wait_start \in Int /\ wait_start' = wait_start
      BY <1>0, <1>1
    <3>3. ReportedInCalls \in Nat
      BY <1>0, ReportedType
    <3>4. contended' \in Nat
      BY <1>2 DEF TypeInv
    <3> QED BY <3>1, <3>3, <3>4 DEF OngoingWait
  <2>4. waiting' = contended' + unproductive' + ReportedInCalls' - OngoingWait'
    <3>1. CASE contended' = contended + 1 /\ OngoingWait' = OngoingWait + 1
      BY <1>0, <1>1, <2>2, <2>3, <3>1
    <3>2. CASE contended' = contended /\ OngoingWait' = OngoingWait
      BY <1>0, <1>1, <2>2, <3>2
    <3> QED BY <2>1, <3>1, <3>2
  <2>5. waits' = Cardinality(Waiting') /\ wait_start' <= now' /\ node_wait'[Sample] = waiting'
    BY <1>0, <1>1, <1>3 DEF WaitInv
  <2> QED BY <2>4, <2>5 DEF WaitInv
<1>7. MonitorInv'
  BY <1>0, <1>1, Bounds DEF MonitorInv, Running
<1>8. SampleLimitNotHidden'
  BY <1>0, <1>1, TokensKept DEF Limited, Running
<1>9. ASSUME NEW b \in Agents PROVE CallInv(b)'
  <2>1. /\ pc'[b] = pc[b] /\ call'[b] = call[b] /\ wake'[b] = wake[b] /\ CallInv(b)
        /\ wake[b] \in Nat /\ call[b].attempt \in Nat
    BY <1>0, <1>1, Fields
  <2> QED BY <1>0, <1>1, <2>1 DEF CallInv
<1> QED BY <1>2, <1>4, <1>6, <1>7, <1>8, <1>9 DEF Inv

-----------------------------------------------------------------------------
(* Theorems *)

LEMMA InitInv == Init => Inv
<1> SUFFICES ASSUME Init PROVE Inv
  OBVIOUS
<1>1. /\ now = 0 /\ check_at = 1 /\ pc = [a \in Agents |-> "ready"] /\ call = [a \in Agents |-> NoCall]
      /\ wake = [a \in Agents |-> 0] /\ queue = <<>> /\ others \in 0..Slots /\ free = Slots - others
      /\ waits = 0 /\ wait_start = 0 /\ waiting = 0 /\ node_wait = [n \in Nodes |-> 0]
      /\ tokens = [n \in Nodes |-> 0] /\ stopped = "no"
      /\ contended = 0 /\ unproductive = 0 /\ replayed = 0
  BY DEF Init
<1>2. TypeInv
  <2>1. NoCall \in Call /\ 0 \in 0..MaxNow
    BY Bounds DEF NoCall, Call
  <2>2. free \in Nat
    BY <1>1, Bounds
  <2> QED BY <1>1, <2>1, <2>2 DEF TypeInv
<1>3. Waiting = {} /\ InCall = {}
  BY <1>1 DEF Waiting, InCall
<1>4. SlotInv
  <2>1. Elements(queue) = {} /\ Distinct(queue)
    BY <1>1 DEF Elements, Distinct
  <2>2. Cardinality(InCall) = 0
    BY <1>3, FS_EmptySet
  <2> QED BY <1>1, <1>3, <2>1, <2>2, Bounds DEF SlotInv, QueueInv
<1>5. WaitInv
  <2>1. ReportedInCalls = 0
    <3>1. UNION {{a} \X (1..call[a].reported) : a \in {}} = {}
      OBVIOUS
    <3> QED BY <1>3, <3>1, FS_EmptySet DEF ReportedInCalls
  <2>2. Cardinality(Waiting) = 0
    BY <1>3, FS_EmptySet
  <2> QED BY <1>1, <2>1, <2>2, Bounds DEF WaitInv, OngoingWait
<1>6. MonitorInv
  BY <1>1, Bounds DEF MonitorInv
<1>7. SampleLimitNotHidden
  <2>1. TokenLimit[Sample] \in Nat /\ tokens[Sample] = 0 /\ Cardinality(Limited) \in Nat
    BY <1>1, WorkingTimeAssumption, Bounds, LimitedFinite
  <2> QED BY <2>1 DEF SampleLimitNotHidden
<1>8. \A a \in Agents : CallInv(a)
  BY <1>1 DEF CallInv
<1> QED BY <1>2, <1>4, <1>5, <1>6, <1>7, <1>8 DEF Inv

LEMMA StepInv == Inv /\ [Next]_vars => Inv'
<1> SUFFICES ASSUME Inv, [Next]_vars PROVE Inv'
  OBVIOUS
<1>1. ASSUME NEW a \in Agents, Agent(a) PROVE Inv'
  BY <1>1, AgentStep
<1>2. CASE Others
  BY <1>2, OtherStep
<1>3. CASE Monitor
  BY <1>3, MonitorStep
<1>4. CASE Tick
  BY <1>4, TickStep
<1>5. CASE UNCHANGED vars
  BY <1>5 DEF vars, agentVars, semaphoreVars, timingVars, history, Inv, TypeInv, CallInv, SlotInv, QueueInv,
              WaitInv, OngoingWait, ReportedInCalls, MonitorInv, SampleLimitNotHidden, Limited, Waiting, InCall, Running
<1> QED BY <1>1, <1>2, <1>3, <1>4, <1>5 DEF Next

LEMMA Invariant == Spec => []Inv
BY InitInv, StepInv, PTL DEF Spec

(* However the waits of the agents overlap, end or are cancelled, the waiting time of the sample is
   the length of their union and what its calls spent outside requests, once each, and the clock of
   its working limit shows the same. *)
THEOREM WaitingAccountedCorrect == Spec => []WaitingAccounted
<1>1. Inv => WaitingAccounted
  <2> SUFFICES ASSUME Inv PROVE WaitingAccounted
    OBVIOUS
  <2>1. WaitInv /\ TypeInv
    BY DEF Inv
  <2>2. /\ waiting \in Int /\ contended \in Int /\ unproductive \in Int /\ ReportedInCalls \in Int /\ OngoingWait \in Int
    BY <2>1, ReportedType, Bounds DEF TypeInv, OngoingWait
  <2>3. waiting + OngoingWait = contended + unproductive + ReportedInCalls
    BY <2>1, <2>2 DEF WaitInv
  <2> QED BY <2>1, <2>3 DEF WaitingAccounted, WaitsCountedOnce, SampleClocksAgree, WaitInv
<1> QED BY <1>1, Invariant, PTL

(* The monitor lets no sample work for longer than its limit and one interval, whatever its agents
   report meanwhile, cached outputs aside. *)
THEOREM OverrunBoundedCorrect == Spec => []OverrunBounded
<1>1. Inv => OverrunBounded
  <2> SUFFICES ASSUME Inv, Running PROVE now - waiting - replayed <= WorkLimit + 1
    BY DEF OverrunBounded
  <2>1. /\ now - waiting - replayed <= (IF now < check_at THEN WorkLimit ELSE WorkLimit + 1)
        /\ now \in Int /\ waiting \in Int /\ replayed \in Int /\ WorkLimit \in Int
    BY Bounds DEF Inv, TypeInv, MonitorInv
  <2> QED BY <2>1
<1> QED BY <1>1, Invariant, PTL

(* Tool calls and handoffs let a sample go beyond its token limit by one request for each of them at
   most, and no error that is caught hides the limit from the requests outside of them. *)
THEOREM SampleLimitNotHiddenCorrect == Spec => []SampleLimitNotHidden
<1>1. Inv => SampleLimitNotHidden
  BY DEF Inv
<1> QED BY <1>1, Invariant, PTL

(* Retries, limits and cancellations neither lose nor duplicate a connection, and each waiter has
   one place in the queue, which holds nobody else. *)
THEOREM SharedConsistentCorrect == Spec => []SharedConsistent
<1>1. Inv => SharedConsistent
  <2> SUFFICES ASSUME Inv PROVE SharedConsistent
    OBVIOUS
  <2>1. /\ TypeInv /\ Distinct(queue) /\ Elements(queue) \ {Other} = Waiting /\ waits = Cardinality(Waiting)
        /\ free + others + Cardinality(InCall) = Slots
    BY DEF Inv, SlotInv, QueueInv, WaitInv
  <2>2. /\ free \in Nat /\ others \in Nat /\ Cardinality(InCall) \in Nat /\ Slots \in Nat
        /\ Cardinality(Waiting) \in Nat
    BY <2>1, WaitersFinite, Bounds DEF TypeInv
  <2>3. waits \in 0..Cardinality(Agents)
    <3>1. Waiting \in SUBSET Agents
      BY DEF Waiting
    <3>2. Cardinality(Waiting) <= Cardinality(Agents) /\ Cardinality(Agents) \in Nat
      BY <3>1, Bounds, FS_Subset, FS_CardinalityType
    <3> QED BY <2>1, <2>2, <3>2
  <2>4. TypeOK
    <3>1. free \in 0..Slots
      BY <2>1, <2>2
    <3> QED BY <2>1, <2>3, <3>1 DEF TypeInv, TypeOK
  <2>5. \A i \in DOMAIN queue : queue[i] \in Waiting \cup {Other}
    BY <2>1 DEF Elements
  <2>6. ASSUME NEW a \in Waiting PROVE Cardinality({i \in DOMAIN queue : queue[i] = a}) = 1
    <3>1. a \in Elements(queue)
      BY <2>1
    <3>2. PICK i \in DOMAIN queue : queue[i] = a
      BY <3>1 DEF Elements
    <3>3. {j \in DOMAIN queue : queue[j] = a} = {i}
      BY <2>1, <3>2 DEF Distinct
    <3> QED BY <3>3, FS_Singleton
  <2> QED BY <2>1, <2>4, <2>5, <2>6 DEF SharedConsistent, ConnectionsConserved
<1> QED BY <1>1, Invariant, PTL
=============================================================================
