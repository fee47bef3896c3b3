--------------------------- MODULE Requests_proofs ---------------------------
(* Theorems about the two components that answer requests on behalf of     *)
(* others: Batcher, for any requests and sizes, any limits on the batches, *)
(* and anything that may go wrong, with its refinement of RequestPromises; *)
(* and SandboxService, for any set of calls and any number of failed       *)
(* commands, with its refinement of RemoteCall.                            *)
EXTENDS Batcher, SandboxService, SequenceFacts, TLAPS

-----------------------------------------------------------------------------
(***************************************************************************)
(* Batcher                                                                 *)
(***************************************************************************)

(* Bytes *)

BytesOf(R) == UNION {{r} \X (1..Size[r]) : r \in R}

LEMMA BytesFinite ==
  ASSUME NEW R \in SUBSET Requests
  PROVE  IsFiniteSet(BytesOf(R)) /\ Bytes(R) \in Nat
<1>1. IsFiniteSet(R)
  BY FS_Subset, BatcherAssumption
<1>2. \A r \in R : Size[r] \in Nat
  BY BatcherAssumption
<1> QED BY <1>1, <1>2, TotalFinite DEF Bytes, BytesOf, Total

LEMMA BytesEmpty == Bytes({}) = 0
BY TotalEmpty DEF Bytes, Total

LEMMA BytesOne ==
  ASSUME NEW r \in Requests
  PROVE  Bytes({r}) = Size[r]
<1>1. UNION {{q} \X (1..Size[q]) : q \in {r}} = {r} \X (1..Size[r])
  OBVIOUS
<1>2. Size[r] \in Nat
  BY BatcherAssumption
<1> QED BY <1>1, <1>2, TotalOfOne DEF Bytes

LEMMA BytesSubset ==
  ASSUME NEW R \in SUBSET Requests, NEW Q \in SUBSET R
  PROVE  Bytes(Q) <= Bytes(R)
<1>1. BytesOf(Q) \subseteq BytesOf(R)
  BY DEF BytesOf
<1> QED BY <1>1, BytesFinite, FS_Subset DEF Bytes, BytesOf

LEMMA BytesUnion ==
  ASSUME NEW R \in SUBSET Requests, NEW Q \in SUBSET Requests
  PROVE  Bytes(R \cup Q) <= Bytes(R) + Bytes(Q)
<1>1. BytesOf(R \cup Q) = BytesOf(R) \cup BytesOf(Q)
  BY DEF BytesOf
<1>2. IsFiniteSet(BytesOf(R)) /\ IsFiniteSet(BytesOf(Q))
  BY BytesFinite
<1>3. Cardinality(BytesOf(R) \cup BytesOf(Q)) <= Cardinality(BytesOf(R)) + Cardinality(BytesOf(Q))
  <2> DEFINE B == BytesOf(R)
             C == BytesOf(Q)
  <2> HIDE DEF B, C
  <2>1. IsFiniteSet(B) /\ IsFiniteSet(C)
    BY <1>2 DEF B, C
  <2>2. IsFiniteSet(B \cap C)
    BY <2>1, FS_Intersection
  <2>3. /\ Cardinality(B) \in Nat /\ Cardinality(C) \in Nat /\ Cardinality(B \cap C) \in Nat
        /\ Cardinality(B \cup C) = Cardinality(B) + Cardinality(C) - Cardinality(B \cap C)
    BY <2>1, <2>2, FS_CardinalityType, FS_Union
  <2>4. Cardinality(B \cup C) <= Cardinality(B) + Cardinality(C)
    BY <2>3
  <2> QED BY <2>4 DEF B, C
<1> QED BY <1>1, <1>3 DEF Bytes, BytesOf

-----------------------------------------------------------------------------
(* The inductive invariant *)

Queued == Elements(intake)

(* A request is in one place at most, and in none before its call. *)
PlaceInv ==
  /\ Distinct(intake)
  /\ Queued \cap (next \cup creating) = {} /\ next \cap creating = {}
  /\ \A b \in Ids : inflight[b] \cap (Queued \cup next \cup creating) = {}
  /\ \A b, c \in Ids : b # c => inflight[b] \cap inflight[c] = {}
  /\ \A r \in Requests : call[r] = "new" =>
       /\ stream[r] = "none"
       /\ r \notin Queued \cup next \cup creating
       /\ \A b \in Ids : r \notin inflight[b] \cup todo[b]

(* Each batch takes a request at least from those that are in none yet. *)
Fresh == {r \in Requests : call[r] = "new"} \cup Queued \cup next \cup creating
EnoughIds == created + Cardinality(Fresh) <= Cardinality(Requests)

(* Where the worker is, and what it has at hand there *)
WorkInv ==
  /\ running <=> wpc # "off"
  /\ wpc = "off" => ~Work
  /\ wpc # "checking" => \A b \in Ids : phase[b] = "idle"
  /\ wpc = "creating" => creating # {}
  /\ wpc \notin {"creating", "failing"} => creating = {}

(* What a check of a batch has at hand *)
Sending == {"results", "failing", "failing_results"}
BatchInv(b) ==
  /\ b > created => inflight[b] = {} /\ failures[b] = 0 /\ phase[b] = "idle"
  /\ phase[b] = "polling" => inflight[b] # {}
  /\ wpc # "dead" /\ inflight[b] # {} /\ phase[b] \in {"idle", "polling"} =>
       failures[b] < MaxCheckFailures
  /\ phase[b] \in Sending => todo[b] \subseteq inflight[b] \cup {Unknown}
  /\ phase[b] \in Sending \ {"results"} => Unknown \notin todo[b]
  /\ phase[b] = "failing_again" => inflight[b] = {}
  /\ "unknown" \notin Faults => /\ phase[b] \notin {"failing_results", "failing_again"}
                                /\ phase[b] \in Sending => Unknown \notin todo[b]
CheckInv == \A b \in Ids : BatchInv(b)

(* A request that no answer was sent to, and that one may be sent to *)
Owed(r) == stream[r] = "none" /\ call[r] \in {"waiting", "cancelled"}

OnWay(r) == r \in Queued \cup next \cup creating \/ \E b \in Ids : r \in Unsent(b)

AnswerInv == "unknown" \notin Faults => \A r \in Requests : OnWay(r) => Owed(r)

(* What is still to be sent of batch b: the handlers of a foreign id keep  *)
(* the whole batch in flight while they answer it.                         *)
Left(b) == IF phase[b] \in Sending THEN todo[b] ELSE inflight[b]

Kept(r) == r \in Queued \cup next \cup creating \/ \E b \in Ids : r \in Left(b)

DropInv ==
  "missing" \notin Faults =>
    \A r \in Requests : call[r] = "waiting" /\ stream[r] = "none" => Kept(r)

EscapeInv ==
  /\ wpc = "failing" => "create" \in Faults
  /\ NothingEscapes

Inv == /\ TypeOK /\ PlaceInv /\ EnoughIds /\ WorkInv /\ CheckInv
       /\ AnswerInv /\ DropInv /\ EscapeInv

-----------------------------------------------------------------------------
(* What the worker takes from the queue *)

LEMMA Situated ==
  ASSUME TypeOK
  PROVE  MaxSize \in Nat \ {0} /\ Faults \subseteq AllFaults /\ InEval \in BOOLEAN
BY BatcherAssumption DEF TypeOK, MaxSize, Faults, InEval

LEMMA AddCountCorrect ==
  ASSUME TypeOK
  PROVE  /\ AddCount \in 0..Len(intake) /\ Fits(AddCount)
         /\ AddCount < Len(intake) => ~Fits(AddCount + 1)
<1> DEFINE good == {k \in 0..Len(intake) : Fits(k)}
<1>1. Len(intake) \in Nat
  BY DEF TypeOK
<1>2. good \in SUBSET (0..Len(intake)) /\ 0 \in good
  BY <1>1 DEF Fits
<1>3. \E k \in good : k < Len(intake) => k + 1 \notin good
  BY <1>1, <1>2, LastCount
<1>4. \E k \in 0..Len(intake) : Fits(k) /\ (k < Len(intake) => ~Fits(k + 1))
  BY <1>1, <1>3
<1> QED BY <1>4 DEF AddCount

LEMMA Taken ==
  ASSUME TypeOK
  PROVE  /\ IntakeAfter \in Seq(Requests) /\ First(AddCount) \subseteq Requests
         /\ Queued = First(AddCount) \cup Elements(IntakeAfter)
         /\ Distinct(intake) =>
              Distinct(IntakeAfter) /\ First(AddCount) \cap Elements(IntakeAfter) = {}
BY AddCountCorrect, CutElements DEF TypeOK, Queued, First, IntakeAfter

(* A batch that is sent has a request. *)
LEMMA SendsSome ==
  ASSUME TypeOK, ~Oversized, ShouldSend
  PROVE  next \cup First(AddCount) # {}
<1> SUFFICES ASSUME next = {}, First(AddCount) = {} PROVE FALSE
  OBVIOUS
<1>1. /\ Cardinality(next) = 0 /\ Bytes(next) = 0 /\ MaxSize \in Nat \ {0}
      /\ MaxCount \in Nat \ {0} /\ MinCount \in Nat \ {0}
  BY FS_EmptySet, BytesEmpty, Situated, BatcherAssumption
<1>2. AddCount = 0
  <2>1. AddCount \in Nat /\ (AddCount # 0 => 1 \in 1..AddCount)
    BY AddCountCorrect DEF TypeOK
  <2> QED BY <2>1 DEF First
<1>3. 0 < Len(intake)
  BY <1>1, <1>2 DEF ShouldSend, BatchFull, TypeOK
<1>4. ~Fits(1)
  BY <1>2, <1>3, AddCountCorrect
<1>5. Head(intake) = intake[1] /\ Head(intake) \in Requests /\ intake # <<>>
  BY <1>3 DEF TypeOK
<1>6. First(1) = {Head(intake)}
  BY <1>5 DEF First
<1>7. Bytes(First(1)) = Size[Head(intake)] /\ Size[Head(intake)] \in Nat
  BY <1>5, <1>6, BytesOne, BatcherAssumption
<1>8. Size[Head(intake)] > MaxSize
  BY <1>1, <1>4, <1>7 DEF Fits
<1> QED BY <1>5, <1>8 DEF Oversized

-----------------------------------------------------------------------------
(* Types *)

LEMMA SetsFinite ==
  ASSUME TypeOK
  PROVE  /\ IsFiniteSet(Fresh) /\ Fresh \subseteq Requests
         /\ Cardinality(Fresh) \in Nat /\ Cardinality(Requests) \in Nat
<1>1. Fresh \subseteq Requests
  BY DEF TypeOK, Fresh, Queued, Elements
<1> QED BY <1>1, BatcherAssumption, FS_Subset, FS_CardinalityType

LEMMA AnotherId ==
  ASSUME TypeOK, EnoughIds, creating # {}
  PROVE  created + 1 \in Ids
<1>1. Cardinality(Fresh) # 0
  BY SetsFinite, FS_EmptySet DEF Fresh
<1>2. created \in Nat
  BY DEF TypeOK, Ids
<1> QED BY <1>1, <1>2, SetsFinite DEF EnoughIds, Ids

LEMMA EscapeType ==
  ASSUME TypeOK, Escape, UNCHANGED <<stream, next, inflight>>
  PROVE  TypeOK'
BY DEF TypeOK, Escape

LEMMA TypeStep == Inv /\ [Next]_vars => TypeOK'
<1> SUFFICES ASSUME Inv, [Next]_vars PROVE TypeOK'
  OBVIOUS
<1> USE DEF callerVars, nextVars, batchVars, workerVars, checkVars
<1>0. TypeOK
  BY DEF Inv
<1>1. ASSUME NEW r \in Requests, Caller(r) PROVE TypeOK'
  <2>1. CASE Generate(r)
    BY <1>0, <2>1 DEF Generate, TypeOK
  <2>2. CASE Return(r)
    BY <1>0, <2>2 DEF Return, TypeOK
  <2>3. CASE CallerCancelled(r)
    BY <1>0, <2>3 DEF CallerCancelled, TypeOK
  <2> QED BY <1>1, <2>1, <2>2, <2>3 DEF Caller
<1>2. CASE LoopExit \/ CheckAll \/ Checked \/ WakeUp \/ CreateFails
  BY <1>0, <1>2 DEF LoopExit, CheckAll, Checked, WakeUp, CreateFails, TypeOK
<1>3. CASE IntakeRaises \/ CreateRaises
  BY <1>0, <1>3, EscapeType DEF IntakeRaises, CreateRaises
<1>4. CASE IntakeHold \/ IntakeSend
  BY <1>0, <1>4, Taken DEF IntakeHold, IntakeSend, TypeOK
<1>5. CASE Created
  <2>1. created + 1 \in Ids
    BY <1>5, AnotherId DEF Created, Inv, WorkInv
  <2> QED BY <1>0, <1>5, <2>1 DEF Created, TypeOK
<1>6. ASSUME NEW r \in Requests, CreateFailSend(r) PROVE TypeOK'
  BY <1>0, <1>6 DEF CreateFailSend, Send, TypeOK
<1>7. ASSUME NEW b \in Ids, CheckFails(b) PROVE TypeOK'
  <2>1. failures[b] < MaxCheckFailures /\ failures[b] \in Nat /\ MaxCheckFailures \in Nat
    <3>1. inflight[b] # {} /\ wpc # "dead"
      BY <1>7 DEF CheckFails, Inv, CheckInv, BatchInv, WorkInv
    <3> QED BY <1>0, <1>7, <3>1, BatcherAssumption DEF CheckFails, Inv, CheckInv, BatchInv, TypeOK
  <2>2. failures[b] + 1 \in 0..MaxCheckFailures
    BY <2>1
  <2>3. failures' = [failures EXCEPT ![b] = failures[b] + 1]
    BY <1>7 DEF CheckFails
  <2>4. failures' \in [Ids -> 0..MaxCheckFailures]
    <3>1. failures \in [Ids -> 0..MaxCheckFailures]
      BY <1>0 DEF TypeOK
    <3> QED BY <2>2, <2>3, <3>1
  <2>5. todo' = todo \/ todo' = [todo EXCEPT ![b] = inflight[b]]
    BY <1>7 DEF CheckFails
  <2>6. todo' \in [Ids -> SUBSET (Requests \cup {Unknown})]
    BY <1>0, <2>5 DEF TypeOK
  <2>7. phase' \in [Ids -> {"idle", "polling", "handling", "results", "failing",
                             "failing_results", "failing_again"}]
    <3>1. \E place \in {"idle", "failing"} : phase' = [phase EXCEPT ![b] = place]
      BY <1>7 DEF CheckFails
    <3> QED BY <1>0, <3>1 DEF TypeOK
  <2> QED BY <1>0, <1>7, <2>4, <2>6, <2>7 DEF CheckFails, TypeOK
<1>8. ASSUME NEW b \in Ids, NotEnded(b) \/ Rejected(b) \/ Completed(b) PROVE TypeOK'
  <2>1. 0 \in 0..MaxCheckFailures
    BY BatcherAssumption
  <2>2. /\ failures' \in [Ids -> 0..MaxCheckFailures]
        /\ UNCHANGED <<situation, callerVars, intake, nextVars, created, inflight, ended, workerVars>>
    <3>1. CheckReturns(b)
      BY <1>8 DEF NotEnded, Rejected, Completed
    <3>2. failures \in [Ids -> 0..MaxCheckFailures]
      BY <1>0 DEF TypeOK
    <3> QED BY <2>1, <3>1, <3>2 DEF CheckReturns
  <2>3. \E pc \in {"idle", "failing", "handling"} : phase' = [phase EXCEPT ![b] = pc]
    BY <1>8 DEF NotEnded, Rejected, Completed
  <2>4. todo' = todo \/ todo' = [todo EXCEPT ![b] = inflight[b]]
    BY <1>8 DEF NotEnded, Rejected, Completed
  <2>5. phase' \in [Ids -> {"idle", "polling", "handling", "results", "failing",
                             "failing_results", "failing_again"}]
    BY <1>0, <2>3 DEF TypeOK
  <2>6. todo' \in [Ids -> SUBSET (Requests \cup {Unknown})]
    BY <1>0, <2>4 DEF TypeOK
  <2> QED BY <1>0, <2>2, <2>5, <2>6 DEF TypeOK
<1>9. ASSUME NEW b \in Ids, HandleFails(b) \/ HandleReturns(b) \/ SendUnknown(b) PROVE TypeOK'
  <2>1. UNCHANGED <<situation, callerVars, intake, nextVars, batchVars, ended, workerVars>>
    BY <1>9 DEF HandleFails, HandleReturns, SendUnknown
  <2>2. \E pc \in {"failing", "results", "failing_results"} : phase' = [phase EXCEPT ![b] = pc]
    BY <1>9 DEF HandleFails, HandleReturns, SendUnknown
  <2>3. \E ids \in SUBSET (inflight[b] \cup {Unknown}) : todo' = [todo EXCEPT ![b] = ids]
    BY <1>9 DEF HandleFails, HandleReturns, SendUnknown, ResultIds
  <2> QED BY <1>0, <2>1, <2>2, <2>3 DEF TypeOK
<1>10. ASSUME NEW b \in Ids, NEW r \in Requests, SendOne(b, r) PROVE TypeOK'
  BY <1>0, <1>10 DEF SendOne, Send, TypeOK
<1>11. ASSUME NEW b \in Ids, Cleanup(b) \/ CleanupTwice(b) PROVE TypeOK'
  <2>1. CASE Cleanup(b)
    BY <1>0, <2>1 DEF Cleanup, InflightAfter, TypeOK
  <2>2. CASE CleanupTwice(b)
    BY <1>0, <2>2 DEF CleanupTwice, InflightAfter, TypeOK
  <2> QED BY <1>11, <2>1, <2>2
<1>12. ASSUME NEW b \in Ids, CleanupRaises(b) PROVE TypeOK'
  BY <1>0, <1>12, EscapeType DEF CleanupRaises
<1>13. ASSUME NEW b \in Ids, ServiceEnds(b) PROVE TypeOK'
  BY <1>0, <1>13 DEF ServiceEnds, TypeOK
<1>14. CASE Timeout \/ UNCHANGED vars
  BY <1>0, <1>14 DEF Timeout, vars, TypeOK
<1> QED BY <1>1, <1>2, <1>3, <1>4, <1>5, <1>6, <1>7, <1>8, <1>9, <1>10, <1>11, <1>12,
           <1>13, <1>14 DEF Next, Worker, Loop, Check

-----------------------------------------------------------------------------
(* Places *)

LEMMA Appended ==
  ASSUME TypeOK, NEW r \in Requests, intake' = Append(intake, r)
  PROVE  /\ Queued' = Queued \cup {r}
         /\ Distinct(intake) /\ r \notin Queued => Distinct(intake')
BY AppendElements DEF TypeOK, Queued

LEMMA PlaceStep == Inv /\ [Next]_vars => PlaceInv'
<1> SUFFICES ASSUME Inv, [Next]_vars PROVE PlaceInv'
  OBVIOUS
<1> USE DEF callerVars, nextVars, batchVars, workerVars, checkVars
<1>0. TypeOK /\ PlaceInv /\ WorkInv /\ CheckInv
  BY DEF Inv
<1>1. ASSUME NEW r \in Requests, Generate(r) PROVE PlaceInv'
  BY <1>0, <1>1, Appended DEF Generate, TypeOK, PlaceInv
<1>2. ASSUME NEW r \in Requests, Return(r) \/ CallerCancelled(r) PROVE PlaceInv'
  <2>1. /\ UNCHANGED <<intake, next, creating, inflight, todo>>
        /\ \A q \in Requests : call'[q] = "new" => call[q] = "new" /\ stream'[q] = stream[q]
    BY <1>0, <1>2 DEF Return, CallerCancelled, TypeOK
  <2> QED BY <1>0, <2>1 DEF PlaceInv, Queued
<1>3. CASE IntakeHold
  <2>1. /\ UNCHANGED <<call, stream, creating, inflight, todo>>
        /\ next' = next \cup First(AddCount) /\ intake' = IntakeAfter
    BY <1>3 DEF IntakeHold
  <2> QED BY <1>0, <2>1, Taken DEF PlaceInv, Queued
<1>4. CASE IntakeSend
  <2>1. /\ UNCHANGED <<call, stream, inflight, todo>> /\ creating = {} /\ next' = {}
        /\ creating' = next \cup First(AddCount) /\ intake' = IntakeAfter
    BY <1>0, <1>4 DEF IntakeSend, WorkInv
  <2> QED BY <1>0, <2>1, Taken DEF PlaceInv, Queued
<1>5. CASE Created
  <2>1. /\ UNCHANGED <<call, stream, intake, next, todo>> /\ creating' = {}
        /\ \A b \in Ids : inflight'[b] = IF b = created + 1 THEN creating ELSE inflight[b]
    BY <1>0, <1>5 DEF Created, TypeOK
  <2> QED BY <1>0, <2>1 DEF PlaceInv, Queued
<1>6. ASSUME NEW r \in Requests, CreateFailSend(r) PROVE PlaceInv'
  <2>1. /\ UNCHANGED <<call, intake, next, inflight, todo>> /\ creating' = creating \ {r}
        /\ r \in creating /\ \A q \in Requests : q # r => stream'[q] = stream[q]
    BY <1>0, <1>6 DEF CreateFailSend, Send, TypeOK
  <2> QED BY <1>0, <2>1 DEF PlaceInv, Queued
<1>7. ASSUME NEW b \in Ids, NEW r \in Requests, SendOne(b, r) PROVE PlaceInv'
  <2>1. /\ UNCHANGED <<call, intake, next, creating, inflight>> /\ r \in todo[b]
        /\ \A q \in Requests : q # r => stream'[q] = stream[q]
        /\ \A c \in Ids : todo'[c] \subseteq todo[c]
    BY <1>0, <1>7 DEF SendOne, Send, TypeOK
  <2> QED BY <1>0, <2>1 DEF PlaceInv, Queued
<1>8. ASSUME NEW b \in Ids, Cleanup(b) \/ CleanupTwice(b) PROVE PlaceInv'
  <2>1. /\ UNCHANGED <<call, stream, intake, next, creating>>
        /\ inflight' = [inflight EXCEPT ![b] = {}]
        /\ todo' = todo \/ todo' = [todo EXCEPT ![b] = inflight[b]]
    BY <1>8 DEF Cleanup, CleanupTwice, InflightAfter
  <2>2. \A c \in Ids : /\ inflight'[c] \subseteq inflight[c]
                       /\ todo'[c] \subseteq todo[c] \cup inflight[c]
    BY <1>0, <2>1 DEF TypeOK
  <2> QED BY <1>0, <2>1, <2>2 DEF PlaceInv, Queued
<1>9. CASE Escape /\ UNCHANGED <<stream, next, inflight>>
  <2>1. /\ UNCHANGED <<stream, intake, next, inflight>> /\ creating' = {}
        /\ \A q \in Requests : call'[q] = "new" => call[q] = "new"
        /\ \A c \in Ids : todo'[c] = {}
    BY <1>0, <1>9 DEF Escape, TypeOK
  <2> QED BY <1>0, <2>1 DEF PlaceInv, Queued
<1>10. ASSUME UNCHANGED <<call, stream, intake, next, creating, inflight>>,
              \/ UNCHANGED todo
              \/ \E b \in Ids : \E ids \in SUBSET (inflight[b] \cup {Unknown}) :
                   todo' = [todo EXCEPT ![b] = ids]
       PROVE  PlaceInv'
  <2>1. Unknown \notin Requests
    BY BatcherAssumption DEF Unknown
  <2>2. \A c \in Ids : todo'[c] \subseteq todo[c] \cup inflight[c] \cup {Unknown}
    BY <1>0, <1>10 DEF TypeOK
  <2> QED BY <1>0, <1>10, <2>1, <2>2 DEF PlaceInv, Queued
<1>11. CASE IntakeRaises \/ CreateRaises \/ \E b \in Ids : CleanupRaises(b)
  BY <1>9, <1>11 DEF IntakeRaises, CreateRaises, CleanupRaises
<1>12. CASE LoopExit \/ CheckAll \/ Checked \/ WakeUp \/ CreateFails \/ Timeout \/ UNCHANGED vars
  BY <1>10, <1>12 DEF LoopExit, CheckAll, Checked, WakeUp, CreateFails, Timeout, vars
<1>13. ASSUME NEW b \in Ids, ServiceEnds(b) \/ NotEnded(b) \/ Completed(b)
       PROVE  PlaceInv'
  BY <1>10, <1>13 DEF ServiceEnds, NotEnded, Completed, CheckReturns
<1>14. ASSUME NEW b \in Ids, CheckFails(b) \/ Rejected(b) \/ HandleFails(b) \/ SendUnknown(b)
       PROVE  PlaceInv'
  <2>1. todo' = todo \/ todo' = [todo EXCEPT ![b] = inflight[b]]
    BY <1>14 DEF CheckFails, Rejected, HandleFails, SendUnknown
  <2>2. UNCHANGED <<call, stream, intake, next, creating, inflight>>
    BY <1>14 DEF CheckFails, Rejected, HandleFails, SendUnknown, CheckReturns
  <2> QED BY <1>10, <2>1, <2>2
<1>15. ASSUME NEW b \in Ids, HandleReturns(b) PROVE PlaceInv'
  BY <1>10, <1>15 DEF HandleReturns, ResultIds
<1> QED BY <1>1, <1>2, <1>3, <1>4, <1>5, <1>6, <1>7, <1>8, <1>11, <1>12, <1>13, <1>14, <1>15
        DEF Next, Caller, Worker, Loop, Check

LEMMA CountStep == Inv /\ [Next]_vars => EnoughIds'
<1> SUFFICES ASSUME Inv, [Next]_vars PROVE EnoughIds'
  OBVIOUS
<1> USE DEF callerVars, nextVars, batchVars, workerVars, checkVars
<1>0. TypeOK /\ PlaceInv /\ WorkInv /\ EnoughIds
  BY DEF Inv
<1>1. created \in Nat
  BY <1>0 DEF TypeOK, Ids
<1>2. ASSUME Fresh' \subseteq Fresh, UNCHANGED created PROVE EnoughIds'
  <2>1. Cardinality(Fresh') <= Cardinality(Fresh) /\ Cardinality(Fresh') \in Nat
    BY <1>0, <1>2, SetsFinite, FS_Subset, FS_CardinalityType
  <2> QED BY <1>0, <1>1, <1>2, <2>1, SetsFinite DEF EnoughIds
<1>3. CASE Created
  <2>1. /\ UNCHANGED <<call, intake, next>> /\ creating' = {} /\ created' = created + 1
        /\ creating # {}
    BY <1>0, <1>3 DEF Created, WorkInv
  <2>2. PICK r \in creating : TRUE
    BY <2>1
  <2>3. Fresh' \subseteq Fresh \ {r} /\ r \in Fresh
    BY <1>0, <2>1 DEF Fresh, Queued, PlaceInv, TypeOK
  <2>4. IsFiniteSet(Fresh \ {r}) /\ Cardinality(Fresh \ {r}) = Cardinality(Fresh) - 1
    BY <1>0, <2>3, SetsFinite, FS_RemoveElement
  <2>5. Cardinality(Fresh') <= Cardinality(Fresh) - 1 /\ Cardinality(Fresh') \in Nat
    BY <2>3, <2>4, FS_Subset, FS_CardinalityType
  <2> QED BY <1>0, <1>1, <2>1, <2>5, SetsFinite DEF EnoughIds
<1>4. ASSUME NEW r \in Requests, Generate(r) PROVE Fresh' \subseteq Fresh /\ UNCHANGED created
  <2>1. Queued' = Queued \cup {r}
    BY <1>0, <1>4, Appended DEF Generate
  <2> QED BY <1>0, <1>4, <2>1 DEF Generate, Fresh, TypeOK
<1>5. ASSUME NEW r \in Requests, Return(r) \/ CallerCancelled(r)
      PROVE  Fresh' \subseteq Fresh /\ UNCHANGED created
  <2>1. /\ UNCHANGED <<intake, next, creating, created>>
        /\ \A q \in Requests : call'[q] = "new" => call[q] = "new"
    BY <1>0, <1>5 DEF Return, CallerCancelled, TypeOK
  <2> QED BY <2>1 DEF Fresh, Queued
<1>6. CASE IntakeHold \/ IntakeSend
  <2>1. /\ UNCHANGED <<call, created>> /\ intake' = IntakeAfter
        /\ next' \cup creating' \subseteq next \cup First(AddCount) \cup creating
    BY <1>6 DEF IntakeHold, IntakeSend
  <2>2. Fresh' \subseteq Fresh
    BY <1>0, <2>1, Taken DEF Fresh, Queued
  <2> QED BY <1>2, <2>1, <2>2
<1>7. CASE Escape /\ UNCHANGED <<stream, next, inflight>>
  <2>1. /\ UNCHANGED <<intake, next, created>> /\ creating' = {}
        /\ \A q \in Requests : call'[q] = "new" => call[q] = "new"
    BY <1>0, <1>7 DEF Escape, TypeOK
  <2>2. Fresh' \subseteq Fresh
    BY <2>1 DEF Fresh, Queued
  <2> QED BY <1>2, <2>1, <2>2
<1>8. CASE UNCHANGED <<call, intake, next, created>> /\ creating' \subseteq creating
  BY <1>2, <1>8 DEF Fresh, Queued
<1>9. CASE IntakeRaises \/ CreateRaises \/ \E b \in Ids : CleanupRaises(b)
  BY <1>7, <1>9 DEF IntakeRaises, CreateRaises, CleanupRaises
<1>10. CASE LoopExit \/ CheckAll \/ Checked \/ WakeUp \/ CreateFails \/ Timeout \/ UNCHANGED vars
  BY <1>8, <1>10 DEF LoopExit, CheckAll, Checked, WakeUp, CreateFails, Timeout, vars
<1>11. ASSUME NEW r \in Requests, CreateFailSend(r) PROVE EnoughIds'
  BY <1>8, <1>11 DEF CreateFailSend
<1>12. ASSUME NEW b \in Ids, ServiceEnds(b) \/ Check(b) PROVE EnoughIds'
  BY <1>8, <1>9, <1>12
     DEF ServiceEnds, Check, CheckFails, NotEnded, Rejected, Completed, CheckReturns,
         HandleFails, HandleReturns, SendOne, SendUnknown, Cleanup, CleanupTwice
<1> QED BY <1>2, <1>3, <1>4, <1>5, <1>6, <1>9, <1>10, <1>11, <1>12
        DEF Next, Caller, Worker, Loop

-----------------------------------------------------------------------------
(* The worker and its checks *)

LEMMA WorkStep == Inv /\ [Next]_vars => WorkInv'
<1> SUFFICES ASSUME Inv, [Next]_vars PROVE WorkInv'
  OBVIOUS
<1> USE DEF callerVars, nextVars, batchVars, workerVars, checkVars
<1>0. TypeOK /\ WorkInv
  BY DEF Inv
<1>1. ASSUME NEW r \in Requests, Generate(r) PROVE WorkInv'
  <2>1. wpc' # "off" /\ running' = TRUE /\ UNCHANGED <<creating, phase>>
    BY <1>0, <1>1 DEF Generate, WorkInv
  <2>2. wpc' = wpc \/ (wpc = "off" /\ wpc' = "top")
    BY <1>0, <1>1 DEF Generate, WorkInv
  <2> QED BY <1>0, <2>1, <2>2 DEF WorkInv
<1>2. CASE LoopExit
  BY <1>0, <1>2 DEF LoopExit, WorkInv, Work, InFlight
<1>3. CASE CheckAll \/ Checked \/ WakeUp \/ CreateFails
  BY <1>0, <1>3 DEF CheckAll, Checked, WakeUp, CreateFails, WorkInv
<1>4. CASE IntakeHold
  BY <1>0, <1>4 DEF IntakeHold, WorkInv
<1>5. CASE IntakeSend
  <2>1. next \cup First(AddCount) # {}
    BY <1>0, <1>5, SendsSome DEF IntakeSend
  <2> QED BY <1>0, <1>5, <2>1 DEF IntakeSend, WorkInv
<1>6. CASE Created
  BY <1>0, <1>6 DEF Created, WorkInv
<1>7. ASSUME NEW r \in Requests, CreateFailSend(r) PROVE WorkInv'
  BY <1>0, <1>7 DEF CreateFailSend, WorkInv
<1>8. ASSUME Escape, wpc # "off" PROVE WorkInv'
  BY <1>0, <1>8 DEF Escape, WorkInv
<1>9. CASE IntakeRaises \/ CreateRaises \/ \E b \in Ids : CleanupRaises(b)
  BY <1>0, <1>8, <1>9 DEF IntakeRaises, CreateRaises, CleanupRaises, WorkInv
<1>10. ASSUME NEW b \in Ids, Check(b), ~CleanupRaises(b) PROVE WorkInv'
  <2>1. UNCHANGED <<running, wpc, creating>> /\ phase[b] # "idle"
    BY <1>10 DEF Check, CheckFails, NotEnded, Rejected, Completed, CheckReturns, HandleFails,
                 HandleReturns, SendOne, SendUnknown, Cleanup, CleanupTwice
  <2> QED BY <1>0, <2>1 DEF WorkInv
<1>11. CASE UNCHANGED <<running, wpc, creating, phase, intake, next, inflight>>
  BY <1>0, <1>11 DEF WorkInv, Work, InFlight
<1> QED BY <1>1, <1>2, <1>3, <1>4, <1>5, <1>6, <1>7, <1>9, <1>10, <1>11
        DEF Next, Caller, Worker, Loop, Return, CallerCancelled, ServiceEnds, Timeout, vars

LEMMA FaultsFixed == Inv /\ [Next]_vars => situation' = situation /\ Faults' = Faults
<1> SUFFICES ASSUME Inv, [Next]_vars PROVE situation' = situation
  BY DEF Faults
<1> QED BY DEF Next, Caller, Worker, Loop, Check, Generate, Return, CallerCancelled, ServiceEnds,
       Timeout, vars, LoopExit, CheckAll, Checked, WakeUp, IntakeRaises, IntakeHold, IntakeSend,
       Created, CreateFails, CreateFailSend, CreateRaises, Escape, CheckFails, NotEnded, Rejected,
       Completed, CheckReturns, HandleFails, HandleReturns, SendOne, SendUnknown, Cleanup,
       CleanupTwice, CleanupRaises

LEMMA CheckStep == Inv /\ [Next]_vars => CheckInv'
<1> SUFFICES ASSUME Inv, [Next]_vars PROVE CheckInv'
  OBVIOUS
<1> USE DEF callerVars, nextVars, batchVars, workerVars, checkVars, Sending
<1>0. TypeOK /\ WorkInv /\ CheckInv /\ Faults' = Faults
  BY FaultsFixed DEF Inv
<1>t1. MaxCheckFailures \in Nat \ {0} /\ Unknown \notin Requests
  BY BatcherAssumption DEF Unknown
<1>t2. \A b \in Ids : inflight[b] \subseteq Requests /\ failures[b] \in Nat /\ b \in Nat
  BY <1>0, <1>t1 DEF TypeOK, Ids
<1>t3. created \in Nat
  BY <1>0 DEF TypeOK, Ids
<1>1. ASSUME UNCHANGED <<created, inflight, failures, phase, todo>>, wpc' = "dead" <=> wpc = "dead"
      PROVE  CheckInv'
  BY <1>0, <1>1 DEF CheckInv, BatchInv
<1>a. ASSUME NEW b \in Ids, UNCHANGED <<created, wpc>>, BatchInv(b)',
             \A c \in Ids \ {b} : /\ inflight'[c] = inflight[c] /\ failures'[c] = failures[c]
                                  /\ phase'[c] = phase[c] /\ todo'[c] = todo[c]
      PROVE  CheckInv'
  <2> SUFFICES ASSUME NEW c \in Ids PROVE BatchInv(c)'
    BY DEF CheckInv
  <2>1. CASE c = b
    BY <1>a, <2>1
  <2>2. CASE c # b
    BY <1>0, <1>a, <2>2 DEF CheckInv, BatchInv
  <2> QED BY <2>1, <2>2
<1>2. CASE \E r \in Requests : Caller(r) \/ CreateFailSend(r)
  BY <1>0, <1>1, <1>2 DEF Caller, Generate, Return, CallerCancelled, CreateFailSend, WorkInv
<1>3. CASE LoopExit \/ Checked \/ WakeUp \/ IntakeHold \/ IntakeSend \/ CreateFails \/ Timeout
           \/ (\E b \in Ids : ServiceEnds(b)) \/ UNCHANGED vars
  BY <1>1, <1>3 DEF LoopExit, Checked, WakeUp, IntakeHold, IntakeSend, CreateFails, Timeout,
                    ServiceEnds, vars
<1>4. CASE CheckAll
  <2>1. /\ UNCHANGED <<created, inflight, failures, todo>> /\ wpc # "dead"
        /\ \A b \in Ids : phase[b] = "idle"
        /\ \A b \in Ids : phase'[b] = IF inflight[b] # {} THEN "polling" ELSE "idle"
    BY <1>0, <1>4 DEF CheckAll, InFlight, WorkInv
  <2> QED BY <1>0, <2>1 DEF CheckInv, BatchInv
<1>5. CASE Created
  <2>1. /\ UNCHANGED <<failures, phase, todo>> /\ created' = created + 1 /\ wpc # "dead"
        /\ \A b \in Ids : phase[b] = "idle"
        /\ \A b \in Ids : b # created + 1 => inflight'[b] = inflight[b]
    BY <1>0, <1>5 DEF Created, WorkInv, TypeOK
  <2> SUFFICES ASSUME NEW b \in Ids PROVE BatchInv(b)'
    BY DEF CheckInv
  <2>2. b > created + 1 => b > created /\ b # created + 1
    BY <1>t2, <1>t3
  <2>3. b = created + 1 => b > created
    BY <1>t2, <1>t3
  <2> QED BY <1>0, <1>t1, <2>1, <2>2, <2>3 DEF CheckInv, BatchInv
<1>6. CASE IntakeRaises \/ CreateRaises \/ \E b \in Ids : CleanupRaises(b)
  <2>1. /\ UNCHANGED <<created, inflight, failures>> /\ wpc' = "dead"
        /\ \A b \in Ids : phase'[b] = "idle" /\ todo'[b] = {}
    BY <1>6 DEF IntakeRaises, CreateRaises, CleanupRaises, Escape
  <2> QED BY <1>0, <2>1 DEF CheckInv, BatchInv
<1>b. ASSUME NEW b \in Ids, Check(b), ~CleanupRaises(b)
      PROVE  /\ UNCHANGED <<created, wpc>> /\ phase[b] # "idle"
             /\ \A c \in Ids \ {b} : /\ inflight'[c] = inflight[c] /\ failures'[c] = failures[c]
                                     /\ phase'[c] = phase[c] /\ todo'[c] = todo[c]
  <2>1. UNCHANGED <<created, wpc>> /\ phase[b] # "idle"
    BY <1>b DEF Check, CheckFails, NotEnded, Rejected, Completed, CheckReturns, HandleFails,
                HandleReturns, SendOne, SendUnknown, Cleanup, CleanupTwice
  <2>2. /\ inflight' = inflight \/ \E x : inflight' = [inflight EXCEPT ![b] = x]
        /\ failures' = failures \/ \E x : failures' = [failures EXCEPT ![b] = x]
    BY <1>b DEF Check, CheckFails, NotEnded, Rejected, Completed, CheckReturns, HandleFails,
                HandleReturns, SendOne, SendUnknown, Cleanup, CleanupTwice, InflightAfter
  <2>3. phase' = phase \/ \E x : phase' = [phase EXCEPT ![b] = x]
    BY <1>b DEF Check, CheckFails, NotEnded, Rejected, Completed, CheckReturns, HandleFails,
                HandleReturns, SendOne, SendUnknown, Cleanup, CleanupTwice
  <2>4. todo' = todo \/ \E x : todo' = [todo EXCEPT ![b] = x]
    BY <1>b DEF Check, CheckFails, NotEnded, Rejected, Completed, CheckReturns, HandleFails,
                HandleReturns, SendOne, SendUnknown, Cleanup, CleanupTwice
  <2> QED BY <1>0, <2>1, <2>2, <2>3, <2>4 DEF TypeOK
<1>7. ASSUME NEW b \in Ids, Check(b), ~CleanupRaises(b) PROVE BatchInv(b)'
  <2>0. /\ UNCHANGED <<created, wpc>> /\ phase[b] # "idle" /\ BatchInv(b)
        /\ inflight[b] \subseteq Requests /\ failures[b] \in Nat
    BY <1>0, <1>b, <1>7, <1>t2 DEF CheckInv
  <2>1. CASE CheckFails(b)
    <3>1. /\ UNCHANGED inflight /\ inflight[b] # {} /\ failures'[b] = failures[b] + 1
      BY <1>0, <2>0, <2>1 DEF CheckFails, BatchInv, TypeOK
    <3>2. CASE GiveUp(failures[b] + 1)
      <4>1. phase'[b] = "failing" /\ todo'[b] = inflight[b]
        BY <1>0, <2>1, <3>2 DEF CheckFails, TypeOK
      <4> QED BY <1>0, <1>t1, <2>0, <3>1, <4>1 DEF BatchInv
    <3>3. CASE ~GiveUp(failures[b] + 1)
      <4>1. phase'[b] = "idle"
        BY <1>0, <2>1, <3>3 DEF CheckFails, TypeOK
      <4>2. failures[b] + 1 < MaxCheckFailures
        BY <1>t1, <2>0, <3>3 DEF GiveUp
      <4> QED BY <1>0, <2>0, <3>1, <4>1, <4>2 DEF BatchInv
    <3> QED BY <3>2, <3>3
  <2>2. CASE NotEnded(b) \/ Completed(b) \/ Rejected(b)
    <3>1. UNCHANGED inflight /\ inflight[b] # {} /\ failures'[b] = 0
      BY <1>0, <2>0, <2>2 DEF NotEnded, Completed, Rejected, CheckReturns, BatchInv, TypeOK
    <3>2. \/ phase'[b] \in {"idle", "handling"}
          \/ phase'[b] = "failing" /\ todo'[b] = inflight[b]
      BY <1>0, <2>2 DEF NotEnded, Completed, Rejected, TypeOK
    <3>3. 0 < MaxCheckFailures
      BY <1>t1
    <3> QED BY <1>0, <1>t1, <2>0, <3>1, <3>2, <3>3 DEF BatchInv
  <2>3. CASE HandleFails(b)
    <3>1. UNCHANGED <<inflight, failures>> /\ phase'[b] = "failing" /\ todo'[b] = inflight[b]
      BY <1>0, <2>3 DEF HandleFails, TypeOK
    <3> QED BY <1>0, <1>t1, <2>0, <3>1 DEF BatchInv
  <2>4. CASE SendUnknown(b)
    <3>1. /\ UNCHANGED <<inflight, failures>> /\ "unknown" \in Faults
          /\ phase'[b] = "failing_results" /\ todo'[b] = inflight[b]
      BY <1>0, <2>0, <2>4 DEF SendUnknown, BatchInv, TypeOK
    <3> QED BY <1>0, <1>t1, <2>0, <3>1 DEF BatchInv
  <2>5. CASE HandleReturns(b)
    <3>1. PICK ids \in ResultIds(b) : todo' = [todo EXCEPT ![b] = ids]
      BY <2>5 DEF HandleReturns
    <3>2. /\ UNCHANGED <<inflight, failures>> /\ phase'[b] = "results" /\ todo'[b] = ids
      BY <1>0, <2>5, <3>1 DEF HandleReturns, TypeOK
    <3>3. ids \subseteq inflight[b] \cup {Unknown} /\ ("unknown" \notin Faults => Unknown \notin ids)
      BY <3>1 DEF ResultIds
    <3> QED BY <1>0, <1>t1, <2>0, <3>2, <3>3 DEF BatchInv
  <2>6. ASSUME NEW r \in Requests, SendOne(b, r) PROVE BatchInv(b)'
    <3>1. UNCHANGED <<inflight, failures, phase>> /\ todo'[b] \subseteq todo[b]
      BY <1>0, <2>6 DEF SendOne, TypeOK
    <3> QED BY <1>0, <2>0, <3>1 DEF BatchInv
  <2>7. CASE Cleanup(b)
    <3>1. UNCHANGED failures /\ inflight'[b] = {} /\ phase'[b] = "idle"
      BY <1>0, <2>7 DEF Cleanup, InflightAfter, TypeOK
    <3> QED BY <1>0, <2>0, <3>1 DEF BatchInv
  <2>8. CASE CleanupTwice(b)
    <3>1. UNCHANGED failures /\ inflight'[b] = {} /\ phase'[b] = "failing_again"
      BY <1>0, <2>8 DEF CleanupTwice, InflightAfter, TypeOK
    <3>2. "unknown" \in Faults
      BY <2>0, <2>8 DEF CleanupTwice, BatchInv
    <3> QED BY <1>0, <2>0, <3>1, <3>2 DEF BatchInv
  <2> QED BY <1>7, <2>1, <2>2, <2>3, <2>4, <2>5, <2>6, <2>7, <2>8 DEF Check
<1>8. ASSUME NEW b \in Ids, Check(b), ~CleanupRaises(b) PROVE CheckInv'
  BY <1>a, <1>b, <1>7, <1>8
<1> QED BY <1>2, <1>3, <1>4, <1>5, <1>6, <1>8 DEF Next, Worker, Loop

(* What the check of one batch does to the rest *)
LEMMA CheckLeaves ==
  ASSUME NEW b \in Ids, TypeOK, Check(b), ~CleanupRaises(b)
  PROVE  /\ UNCHANGED <<situation, call, intake, next, created, wpc, creating>>
         /\ phase[b] # "idle"
         /\ \A c \in Ids \ {b} : inflight'[c] = inflight[c] /\ phase'[c] = phase[c] /\ todo'[c] = todo[c]
         /\ \/ UNCHANGED stream
            \/ \E r \in Requests : SendOne(b, r)
<1> USE DEF callerVars, nextVars, batchVars, workerVars, checkVars
<1>1. /\ UNCHANGED <<situation, call, intake, next, created, wpc, creating>> /\ phase[b] # "idle"
      /\ inflight' = inflight \/ \E x : inflight' = [inflight EXCEPT ![b] = x]
      /\ UNCHANGED stream \/ \E r \in Requests : SendOne(b, r)
  BY DEF Check, CheckFails, NotEnded, Rejected, Completed, CheckReturns, HandleFails,
         HandleReturns, SendOne, SendUnknown, Cleanup, CleanupTwice, InflightAfter
<1>2. phase' = phase \/ \E x : phase' = [phase EXCEPT ![b] = x]
  BY DEF Check, CheckFails, NotEnded, Rejected, Completed, CheckReturns, HandleFails,
         HandleReturns, SendOne, SendUnknown, Cleanup, CleanupTwice
<1>3. todo' = todo \/ \E x : todo' = [todo EXCEPT ![b] = x]
  BY DEF Check, CheckFails, NotEnded, Rejected, Completed, CheckReturns, HandleFails,
         HandleReturns, SendOne, SendUnknown, Cleanup, CleanupTwice
<1> QED BY <1>1, <1>2, <1>3 DEF TypeOK

(* What a check that sends nothing leaves to send, and drops *)
LEMMA CheckKeeps ==
  ASSUME Inv, NEW b \in Ids, Check(b), ~CleanupRaises(b), UNCHANGED stream,
         NEW r \in Requests
  PROVE  /\ "unknown" \notin Faults /\ r \in Unsent(b)' => r \in Unsent(b)
         /\ "missing" \notin Faults /\ r \in Left(b) => r \in Left(b)'
<1> USE DEF callerVars, nextVars, batchVars, workerVars, checkVars, Sending
<1>0. /\ TypeOK /\ BatchInv(b) /\ r # Unknown
      /\ inflight[b] \subseteq Requests
  BY BatcherAssumption DEF Inv, CheckInv, Unknown, TypeOK
<1>1. CASE CheckFails(b) \/ NotEnded(b) \/ Completed(b) \/ Rejected(b) \/ HandleFails(b)
  <2>1. phase[b] \in {"polling", "handling"} /\ inflight'[b] = inflight[b]
    BY <1>1 DEF CheckFails, NotEnded, Completed, Rejected, CheckReturns, HandleFails
  <2>2. \/ phase'[b] \in {"idle", "handling"}
        \/ phase'[b] = "failing" /\ todo'[b] = inflight[b]
    BY <1>0, <1>1 DEF CheckFails, NotEnded, Completed, Rejected, HandleFails, TypeOK
  <2> QED BY <2>1, <2>2 DEF Unsent, Left
<1>2. CASE HandleReturns(b)
  <2>1. PICK ids \in ResultIds(b) : todo' = [todo EXCEPT ![b] = ids]
    BY <1>2 DEF HandleReturns
  <2>2. /\ phase[b] = "handling" /\ inflight'[b] = inflight[b]
        /\ phase'[b] = "results" /\ todo'[b] = ids
    BY <1>0, <1>2, <2>1 DEF HandleReturns, TypeOK
  <2>3. ids \subseteq inflight[b] \cup {Unknown} /\ ("missing" \notin Faults => inflight[b] \subseteq ids)
    BY <2>1 DEF ResultIds
  <2> QED BY <1>0, <2>2, <2>3 DEF Unsent, Left
<1>3. CASE SendUnknown(b)
  <2>1. /\ phase[b] = "results" /\ inflight'[b] = inflight[b] /\ Unknown \in todo[b]
        /\ phase'[b] = "failing_results" /\ todo'[b] = inflight[b]
    BY <1>0, <1>3 DEF SendUnknown, TypeOK
  <2>2. "unknown" \in Faults /\ todo[b] \subseteq inflight[b] \cup {Unknown}
    BY <1>0, <2>1 DEF BatchInv
  <2> QED BY <1>0, <2>1, <2>2 DEF Left
<1>4. CASE Cleanup(b)
  <2>1. /\ phase[b] \in {"results", "failing"} /\ todo[b] = {}
        /\ inflight'[b] = {} /\ phase'[b] = "idle"
    BY <1>0, <1>4 DEF Cleanup, InflightAfter, TypeOK
  <2> QED BY <2>1 DEF Unsent, Left
<1>5. CASE CleanupTwice(b)
  <2>1. /\ phase[b] = "failing_results" /\ todo[b] = {}
    BY <1>5 DEF CleanupTwice
  <2>2. "unknown" \in Faults
    BY <1>0, <2>1 DEF BatchInv
  <2> QED BY <2>1, <2>2 DEF Left
<1>6. ASSUME NEW q \in Requests PROVE ~SendOne(b, q)
  <2> SUFFICES ASSUME SendOne(b, q) PROVE FALSE
    OBVIOUS
  <2>1. stream[q] = "none" /\ stream'[q] \in {"response", "error"}
    BY <1>0 DEF SendOne, Send, TypeOK
  <2> QED BY <2>1
<1> QED BY <1>1, <1>2, <1>3, <1>4, <1>5, <1>6 DEF Check

LEMMA AnswerStep == Inv /\ [Next]_vars => AnswerInv'
<1> SUFFICES ASSUME Inv, [Next]_vars, "unknown" \notin Faults,
                    NEW r \in Requests, OnWay(r)'
             PROVE  Owed(r)'
  BY FaultsFixed DEF AnswerInv
<1> USE DEF callerVars, nextVars, batchVars, workerVars, checkVars, Sending
<1>0. TypeOK /\ PlaceInv /\ WorkInv /\ CheckInv /\ (OnWay(r) => Owed(r))
  BY DEF Inv, AnswerInv
<1>1. CASE OnWay(r) /\ UNCHANGED <<call, stream>>
  BY <1>0, <1>1 DEF Owed
<1>2. ASSUME NEW q \in Requests, Generate(q) PROVE Owed(r)'
  <2>1. /\ UNCHANGED <<stream, next, creating, inflight, phase, todo>> /\ stream[q] = "none"
        /\ Queued' = Queued \cup {q} /\ call' = [call EXCEPT ![q] = "waiting"]
    BY <1>0, <1>2, Appended DEF Generate, PlaceInv
  <2>2. r = q \/ OnWay(r)
    BY <2>1 DEF OnWay, Unsent
  <2> QED BY <1>0, <2>1, <2>2 DEF Owed, TypeOK
<1>3. ASSUME NEW q \in Requests, Return(q) \/ CallerCancelled(q) PROVE Owed(r)'
  <2>1. OnWay(r)
    BY <1>3 DEF Return, CallerCancelled, OnWay, Unsent, Queued
  <2> QED BY <1>0, <1>3, <2>1 DEF Return, CallerCancelled, Owed, TypeOK
<1>4. CASE IntakeHold \/ IntakeSend
  <2>1. /\ UNCHANGED <<call, stream, inflight, phase, todo>> /\ intake' = IntakeAfter
        /\ next' \cup creating' \subseteq next \cup First(AddCount) \cup creating
    BY <1>4 DEF IntakeHold, IntakeSend
  <2>2. OnWay(r)
    BY <1>0, <2>1, Taken DEF OnWay, Unsent, Queued
  <2> QED BY <1>1, <2>1, <2>2
<1>5. CASE Created
  <2>1. /\ UNCHANGED <<call, stream, intake, next, phase, todo>> /\ creating' = {}
        /\ \A b \in Ids : phase[b] = "idle"
        /\ \A b \in Ids : inflight'[b] \in {creating, inflight[b]}
    BY <1>0, <1>5 DEF Created, TypeOK, WorkInv
  <2>2. \A b \in Ids : Unsent(b) = inflight[b] /\ Unsent(b)' = inflight'[b]
    BY <2>1 DEF Unsent
  <2>3. OnWay(r)
    BY <2>1, <2>2 DEF OnWay, Queued
  <2> QED BY <1>1, <2>1, <2>3
<1>6. ASSUME NEW q \in Requests, CreateFailSend(q) PROVE Owed(r)'
  <2>1. /\ UNCHANGED <<call, intake, next, inflight, phase, todo>> /\ creating' = creating \ {q}
        /\ stream' = [stream EXCEPT ![q] = "error"] /\ q \in creating
        /\ \A b \in Ids : phase[b] = "idle"
    BY <1>0, <1>6 DEF CreateFailSend, Send, WorkInv
  <2>2. \A b \in Ids : Unsent(b) = inflight[b] /\ Unsent(b)' = inflight[b]
    BY <2>1 DEF Unsent
  <2>3. OnWay(r) /\ r # q
    BY <1>0, <2>1, <2>2 DEF OnWay, Queued, PlaceInv
  <2> QED BY <1>0, <2>1, <2>3 DEF Owed, TypeOK
<1>7. CASE \/ LoopExit \/ Checked \/ WakeUp \/ CreateFails \/ Timeout \/ UNCHANGED vars
           \/ \E b \in Ids : ServiceEnds(b)
  <2>1. UNCHANGED <<call, stream, intake, next, creating, inflight, phase, todo>>
    BY <1>7 DEF LoopExit, Checked, WakeUp, CreateFails, Timeout, vars, ServiceEnds
  <2>2. OnWay(r)
    BY <2>1 DEF OnWay, Unsent, Queued
  <2> QED BY <1>1, <2>1, <2>2
<1>8. CASE CheckAll
  <2>1. /\ UNCHANGED <<call, stream, intake, next, creating, inflight>>
        /\ \A b \in Ids : phase[b] = "idle" /\ phase'[b] \in {"idle", "polling"}
    BY <1>0, <1>8 DEF CheckAll, WorkInv
  <2>2. OnWay(r)
    BY <2>1 DEF OnWay, Unsent, Queued
  <2> QED BY <1>1, <2>1, <2>2
<1>9. CASE IntakeRaises \/ CreateRaises
  <2>1. /\ UNCHANGED <<stream, intake, next, inflight>> /\ creating' = {}
        /\ \A b \in Ids : phase[b] = "idle" /\ phase'[b] = "idle"
        /\ call'[r] = IF InEval /\ call[r] = "waiting" THEN "cancelled" ELSE call[r]
    BY <1>0, <1>9 DEF IntakeRaises, CreateRaises, Escape, WorkInv
  <2>2. OnWay(r)
    BY <2>1 DEF OnWay, Unsent, Queued
  <2> QED BY <1>0, <2>1, <2>2 DEF Owed
<1>10. ASSUME NEW b \in Ids, Check(b) PROVE Owed(r)'
  <2>1. ~CleanupRaises(b)
    BY <1>0 DEF CleanupRaises, CheckInv, BatchInv
  <2>2. CASE UNCHANGED stream
    <3>1. OnWay(r)
      BY <1>0, <1>10, <2>1, <2>2, CheckLeaves, CheckKeeps DEF OnWay, Unsent, Queued
    <3> QED BY <1>0, <1>1, <1>10, <2>1, <2>2, <3>1, CheckLeaves
  <2>3. ASSUME NEW q \in Requests, SendOne(b, q) PROVE Owed(r)'
    <3>1. /\ UNCHANGED <<call, intake, next, creating, inflight, phase>>
          /\ q \in todo[b] /\ phase[b] \in {"results", "failing"}
          /\ todo' = [todo EXCEPT ![b] = todo[b] \ {q}]
          /\ \A p \in Requests : p # q => stream'[p] = stream[p]
      BY <1>0, <2>3 DEF SendOne, Send, TypeOK, CheckInv, BatchInv
    <3>2. \A c \in Ids : Unsent(c) \subseteq inflight[c]
      BY <1>0 DEF CheckInv, BatchInv, Unsent
    <3>3. \A c \in Ids : /\ Unsent(c)' \subseteq Unsent(c)
                         /\ c = b => q \notin Unsent(c)' /\ q \in Unsent(c)
      BY <1>0, <3>1 DEF Unsent, TypeOK
    <3>4. OnWay(r)
      BY <3>1, <3>3 DEF OnWay, Queued
    <3>5. r # q
      BY <1>0, <3>1, <3>2, <3>3 DEF OnWay, Queued, PlaceInv
    <3> QED BY <1>0, <3>1, <3>4, <3>5 DEF Owed
  <2> QED BY <1>0, <1>10, <2>1, <2>2, <2>3, CheckLeaves
<1> QED BY <1>2, <1>3, <1>4, <1>5, <1>6, <1>7, <1>8, <1>9, <1>10
        DEF Next, Caller, Worker, Loop

LEMMA DropStep == Inv /\ [Next]_vars => DropInv'
<1> SUFFICES ASSUME Inv, [Next]_vars, "missing" \notin Faults, NEW r \in Requests,
                    call'[r] = "waiting", stream'[r] = "none"
             PROVE  Kept(r)'
  BY FaultsFixed DEF DropInv
<1> USE DEF callerVars, nextVars, batchVars, workerVars, checkVars, Sending
<1>0. /\ TypeOK /\ PlaceInv /\ WorkInv /\ CheckInv
      /\ call[r] = "waiting" /\ stream[r] = "none" => Kept(r)
  BY DEF Inv, DropInv
<1>1. ASSUME NEW q \in Requests, Generate(q) PROVE Kept(r)'
  <2>1. /\ UNCHANGED <<stream, next, creating, inflight, phase, todo>>
        /\ Queued' = Queued \cup {q} /\ call' = [call EXCEPT ![q] = "waiting"]
    BY <1>0, <1>1, Appended DEF Generate
  <2>2. r = q \/ Kept(r)
    BY <1>0, <2>1 DEF TypeOK
  <2> QED BY <2>1, <2>2 DEF Kept, Left
<1>2. ASSUME NEW q \in Requests, Return(q) \/ CallerCancelled(q) PROVE Kept(r)'
  <2>1. r # q
    BY <1>0, <1>2 DEF Return, CallerCancelled, TypeOK
  <2>2. /\ call[r] = "waiting" /\ stream[r] = "none"
        /\ UNCHANGED <<intake, next, creating, inflight, phase, todo>>
    BY <1>0, <1>2, <2>1 DEF Return, CallerCancelled, TypeOK
  <2> QED BY <1>0, <2>2 DEF Kept, Left, Queued
<1>3. CASE IntakeHold \/ IntakeSend
  <2>1. /\ UNCHANGED <<call, stream, inflight, phase, todo>> /\ intake' = IntakeAfter
        /\ next \cup First(AddCount) \cup creating \subseteq next' \cup creating'
    BY <1>0, <1>3 DEF IntakeHold, IntakeSend, WorkInv
  <2> QED BY <1>0, <2>1, Taken DEF Kept, Left, Queued
<1>4. CASE Created
  <2>1. /\ UNCHANGED <<call, stream, intake, next, phase, todo>> /\ creating' = {}
        /\ \A b \in Ids : phase[b] = "idle"
    BY <1>0, <1>4 DEF Created, WorkInv
  <2>2. created + 1 \in Ids /\ created + 1 > created
    BY <1>4, AnotherId DEF Created, Inv, WorkInv, TypeOK, Ids
  <2>3. inflight[created + 1] = {}
    BY <1>0, <2>2 DEF CheckInv, BatchInv
  <2>4. \A b \in Ids : inflight'[b] = IF b = created + 1 THEN creating ELSE inflight[b]
    BY <1>0, <1>4 DEF Created, TypeOK
  <2>5. \A b \in Ids : Left(b) = inflight[b] /\ Left(b)' = inflight'[b]
    BY <2>1 DEF Left
  <2>6. Kept(r)
    BY <1>0, <2>1
  <2> QED BY <2>1, <2>2, <2>3, <2>4, <2>5, <2>6 DEF Kept, Queued
<1>5. ASSUME NEW q \in Requests, CreateFailSend(q) PROVE Kept(r)'
  <2>1. /\ UNCHANGED <<call, intake, next, inflight, phase, todo>> /\ creating' = creating \ {q}
        /\ stream[q] = "none" /\ stream' = [stream EXCEPT ![q] = "error"]
    BY <1>5 DEF CreateFailSend, Send
  <2>2. r # q /\ Kept(r)
    BY <1>0, <2>1 DEF TypeOK
  <2> QED BY <2>1, <2>2 DEF Kept, Left, Queued
<1>6. CASE \/ LoopExit \/ Checked \/ WakeUp \/ CreateFails \/ Timeout \/ UNCHANGED vars
           \/ \E b \in Ids : ServiceEnds(b)
  <2>1. UNCHANGED <<call, stream, intake, next, creating, inflight, phase, todo>>
    BY <1>6 DEF LoopExit, Checked, WakeUp, CreateFails, Timeout, vars, ServiceEnds
  <2> QED BY <1>0, <2>1 DEF Kept, Left, Queued
<1>7. CASE CheckAll
  <2>1. /\ UNCHANGED <<call, stream, intake, next, creating, inflight>>
        /\ \A b \in Ids : phase[b] = "idle" /\ phase'[b] \in {"idle", "polling"}
    BY <1>0, <1>7 DEF CheckAll, WorkInv
  <2> QED BY <1>0, <2>1 DEF Kept, Left, Queued
<1>8. CASE IntakeRaises \/ CreateRaises \/ \E b \in Ids : CleanupRaises(b)
  <2>1. /\ UNCHANGED <<stream, intake, next, inflight>> /\ creating = {}
        /\ \A b \in Ids : phase'[b] = "idle"
    BY <1>0, <1>8 DEF IntakeRaises, CreateRaises, CleanupRaises, Escape, WorkInv
  <2>2. call[r] = "waiting" /\ Kept(r)
    BY <1>0, <1>8, <2>1 DEF IntakeRaises, CreateRaises, CleanupRaises, Escape
  <2>3. r # Unknown
    BY BatcherAssumption DEF Unknown
  <2>4. \A b \in Ids : Left(b) \subseteq inflight[b] \cup {Unknown} /\ Left(b)' = inflight[b]
    BY <1>0, <2>1 DEF Left, CheckInv, BatchInv
  <2> QED BY <2>1, <2>2, <2>3, <2>4 DEF Kept, Queued
<1>9. ASSUME NEW b \in Ids, Check(b), ~CleanupRaises(b) PROVE Kept(r)'
  <2>1. CASE UNCHANGED stream
    <3>1. Kept(r)
      BY <1>0, <1>9, <2>1, CheckLeaves
    <3> QED BY <1>0, <1>9, <2>1, <3>1, CheckLeaves, CheckKeeps DEF Kept, Left, Queued
  <2>2. ASSUME NEW q \in Requests, SendOne(b, q) PROVE Kept(r)'
    <3>1. /\ UNCHANGED <<call, intake, next, creating, inflight, phase>>
          /\ todo' = [todo EXCEPT ![b] = todo[b] \ {q}]
          /\ stream' = [stream EXCEPT ![q] = IF phase[b] = "results" THEN "response" ELSE "error"]
          /\ stream[q] = "none"
      BY <2>2 DEF SendOne, Send
    <3>2. r # q /\ Kept(r)
      BY <1>0, <3>1 DEF TypeOK
    <3>3. \A c \in Ids : r \in todo[c] => r \in todo'[c]
      BY <1>0, <3>1, <3>2 DEF TypeOK
    <3> QED BY <3>1, <3>2, <3>3 DEF Kept, Left, Queued
  <2> QED BY <1>0, <1>9, <2>1, <2>2, CheckLeaves
<1> QED BY <1>1, <1>2, <1>3, <1>4, <1>5, <1>6, <1>7, <1>8, <1>9
        DEF Next, Caller, Worker, Loop, Check

LEMMA EscapeStep == Inv /\ [Next]_vars => EscapeInv'
<1> SUFFICES ASSUME Inv, [Next]_vars PROVE EscapeInv'
  OBVIOUS
<1> USE DEF callerVars, nextVars, batchVars, workerVars, checkVars
<1>0. /\ TypeOK /\ WorkInv /\ CheckInv /\ EscapeInv
      /\ Faults' = Faults /\ MaxSize' = MaxSize
  BY FaultsFixed DEF Inv, MaxSize
<1>1. ASSUME wpc' \in {"failing", "dead"} => wpc' = wpc PROVE EscapeInv'
  BY <1>0, <1>1 DEF EscapeInv, NothingEscapes
<1>2. CASE CreateFails
  BY <1>0, <1>2 DEF CreateFails, EscapeInv, NothingEscapes
<1>3. CASE IntakeRaises
  <2>1. Head(intake) \in Requests /\ Size[Head(intake)] > MaxSize /\ wpc' = "dead"
    BY <1>0, <1>3 DEF IntakeRaises, Oversized, Escape, TypeOK
  <2> QED BY <1>0, <2>1 DEF EscapeInv, NothingEscapes
<1>4. CASE CreateRaises
  <2>1. "create" \in Faults /\ wpc' = "dead"
    BY <1>0, <1>4 DEF CreateRaises, Escape, EscapeInv
  <2> QED BY <1>0, <2>1 DEF EscapeInv, NothingEscapes
<1>5. ASSUME NEW b \in Ids, CleanupRaises(b) PROVE EscapeInv'
  <2>1. "unknown" \in Faults /\ wpc' = "dead"
    BY <1>0, <1>5 DEF CleanupRaises, Escape, CheckInv, BatchInv
  <2> QED BY <1>0, <2>1 DEF EscapeInv, NothingEscapes
<1>6. ASSUME NEW b \in Ids, Check(b), ~CleanupRaises(b) PROVE EscapeInv'
  BY <1>0, <1>1, <1>6, CheckLeaves
<1>7. CASE \/ LoopExit \/ CheckAll \/ Checked \/ WakeUp \/ IntakeHold \/ IntakeSend \/ Created
           \/ Timeout \/ UNCHANGED vars \/ (\E b \in Ids : ServiceEnds(b))
           \/ \E r \in Requests : Caller(r) \/ CreateFailSend(r)
  <2>1. wpc' \in {"failing", "dead"} => wpc' = wpc
    BY <1>7 DEF LoopExit, CheckAll, Checked, WakeUp, IntakeHold, IntakeSend, Created, Timeout,
                vars, ServiceEnds, Caller, Generate, Return, CallerCancelled, CreateFailSend
  <2> QED BY <1>1, <2>1
<1> QED BY <1>2, <1>3, <1>4, <1>5, <1>6, <1>7 DEF Next, Worker, Loop, Check

LEMMA InvInit == Init => Inv
<1> SUFFICES ASSUME Init PROVE Inv
  OBVIOUS
<1>1. intake = <<>> /\ Queued = {} /\ Len(intake) = 0 /\ intake \in Seq(Requests)
  BY DEF Init, Queued, Elements
<1>2. TypeOK
  <2>1. failures \in [Ids -> 0..MaxCheckFailures]
    BY BatcherAssumption DEF Init
  <2>2. /\ inflight \in [Ids -> SUBSET Requests] /\ ended \subseteq Ids
        /\ todo \in [Ids -> SUBSET (Requests \cup {Unknown})]
    BY DEF Init
  <2> QED BY <1>1, <2>1, <2>2 DEF Init, TypeOK
<1>3. PlaceInv
  BY <1>1 DEF Init, PlaceInv, Distinct
<1>4. EnoughIds
  <2>1. Cardinality(Fresh) <= Cardinality(Requests) /\ created = 0
    BY <1>2, SetsFinite, BatcherAssumption, FS_Subset DEF Init
  <2> QED BY <1>2, <2>1, SetsFinite DEF EnoughIds
<1>5. WorkInv
  BY <1>1 DEF Init, WorkInv, Work, InFlight
<1>6. CheckInv
  BY BatcherAssumption DEF Init, CheckInv, BatchInv, Sending
<1>7. AnswerInv /\ DropInv
  BY <1>1 DEF Init, AnswerInv, OnWay, Unsent, DropInv
<1>8. EscapeInv
  BY DEF Init, EscapeInv, NothingEscapes
<1> QED BY <1>2, <1>3, <1>4, <1>5, <1>6, <1>7, <1>8 DEF Inv

LEMMA Invariant == Spec => []Inv
<1>1. Inv /\ [Next]_vars => Inv'
  BY TypeStep, PlaceStep, CountStep, WorkStep, CheckStep, AnswerStep, DropStep, EscapeStep DEF Inv
<1> QED BY InvInit, <1>1, PTL DEF Spec

-----------------------------------------------------------------------------
(* Where a request is *)

LEMMA InQueue ==
  ASSUME TypeOK, Distinct(intake), NEW r \in Requests
  PROVE  Cardinality({i \in DOMAIN intake : intake[i] = r}) = IF r \in Queued THEN 1 ELSE 0
<1> DEFINE at == {i \in DOMAIN intake : intake[i] = r}
<1>1. CASE r \in Queued
  <2>1. PICK i \in DOMAIN intake : intake[i] = r
    BY <1>1 DEF Queued, Elements
  <2>2. at = {i}
    BY <2>1 DEF Distinct
  <2>3. Cardinality({i}) = 1
    BY FS_Singleton
  <2> QED BY <1>1, <2>2, <2>3
<1>2. CASE r \notin Queued
  <2>1. at = {}
    BY <1>2 DEF Queued, Elements
  <2> QED BY <1>2, <2>1, FS_EmptySet
<1> QED BY <1>1, <1>2

LEMMA InBatches ==
  ASSUME PlaceInv, CheckInv, NEW r \in Requests
  PROVE  Cardinality({b \in Ids : r \in Unsent(b)}) = IF \E b \in Ids : r \in Unsent(b) THEN 1 ELSE 0
<1> DEFINE at == {b \in Ids : r \in Unsent(b)}
<1>0. \A b \in Ids : r \in Unsent(b) => r \in inflight[b]
  BY BatcherAssumption DEF CheckInv, BatchInv, Unsent, Unknown, Sending
<1>1. CASE \E b \in Ids : r \in Unsent(b)
  <2>1. PICK b \in Ids : r \in Unsent(b)
    BY <1>1
  <2>2. at = {b}
    BY <1>0, <2>1 DEF PlaceInv
  <2>3. Cardinality({b}) = 1
    BY FS_Singleton
  <2> QED BY <1>1, <2>2, <2>3
<1>2. CASE ~\E b \in Ids : r \in Unsent(b)
  <2>1. at = {}
    BY <1>2
  <2> QED BY <1>2, <2>1, FS_EmptySet
<1> QED BY <1>1, <1>2

LEMMA PlacesCorrect ==
  ASSUME Inv, NEW r \in Requests
  PROVE  Places(r) = IF OnWay(r) THEN 1 ELSE 0
<1>1. TypeOK /\ PlaceInv /\ CheckInv
  BY DEF Inv
<1>2. \A b \in Ids : r \in Unsent(b) => r \in inflight[b]
  BY <1>1, BatcherAssumption DEF CheckInv, BatchInv, Unsent, Unknown, Sending
<1>3. /\ r \in Queued => r \notin next \cup creating /\ ~\E b \in Ids : r \in Unsent(b)
      /\ r \in next => r \notin creating /\ ~\E b \in Ids : r \in Unsent(b)
      /\ r \in creating => ~\E b \in Ids : r \in Unsent(b)
  BY <1>1, <1>2 DEF PlaceInv
<1>4. Places(r) = (IF r \in Queued THEN 1 ELSE 0)
                    + (IF \E b \in Ids : r \in Unsent(b) THEN 1 ELSE 0)
                    + (IF r \in next THEN 1 ELSE 0) + (IF r \in creating THEN 1 ELSE 0)
  BY <1>1, InQueue, InBatches DEF Places, PlaceInv
<1> QED BY <1>3, <1>4 DEF OnWay

(* At every await, a request whose caller waits is in exactly one place of *)
(* generate_for_request() and its worker, or its answer is in its stream;  *)
(* none is dropped or sent to the provider twice, however many callers     *)
(* come whenever, and whichever of the provider's operations fail.         *)
THEOREM RequestsAccountedCorrect == Spec => []RequestsAccounted
<1>1. Inv => RequestsAccounted
  <2> SUFFICES ASSUME Inv PROVE RequestsAccounted
    OBVIOUS
  <2>0. TypeOK /\ CheckInv /\ AnswerInv /\ DropInv
    BY DEF Inv
  <2>1. WaitingAccounted
    <3> SUFFICES ASSUME Faults \cap {"unknown", "missing"} = {},
                        NEW r \in Requests, call[r] = "waiting"
                 PROVE  Places(r) = IF stream[r] = "none" THEN 1 ELSE 0
      BY DEF WaitingAccounted
    <3>1. Places(r) = IF OnWay(r) THEN 1 ELSE 0
      BY PlacesCorrect
    <3>2. OnWay(r) => stream[r] = "none"
      BY <2>0 DEF AnswerInv, Owed
    <3>3. stream[r] = "none" => OnWay(r)
      BY <2>0 DEF DropInv, Kept, Left, OnWay, Unsent, CheckInv, BatchInv, Sending
    <3> QED BY <3>1, <3>2, <3>3
  <2>2. NoRequestDropped
    <3> SUFFICES ASSUME "missing" \notin Faults, NEW r \in Requests,
                        call[r] = "waiting", stream[r] = "none"
                 PROVE  Places(r) > 0 \/ \E b \in Ids : r \in todo[b]
      BY DEF NoRequestDropped
    <3>1. Places(r) = IF OnWay(r) THEN 1 ELSE 0
      BY PlacesCorrect
    <3>2. Kept(r)
      BY <2>0 DEF DropInv
    <3>3. OnWay(r) \/ \E b \in Ids : r \in todo[b]
      BY <3>2 DEF Kept, Left, OnWay, Unsent, Sending
    <3> QED BY <3>1, <3>3
  <2> QED BY <2>0, <2>1, <2>2 DEF RequestsAccounted
<1> QED BY <1>1, Invariant, PTL

(* No send of the worker finds the stream of its caller full, so that one  *)
(* caller who does not receive never holds up the answers of the others.   *)
THEOREM NeverStuckCorrect == Spec => []NeverStuck
<1>1. Inv => NeverStuck
  <2> SUFFICES ASSUME Inv, "unknown" \notin Faults, NEW r \in Requests,
                      r \in creating \/ \E b \in Ids : r \in Unsent(b)
               PROVE  stream[r] = "none" /\ call[r] \in {"waiting", "cancelled"}
    BY DEF NeverStuck
  <2> QED BY DEF Inv, AnswerInv, OnWay, Owed
<1> QED BY <1>1, Invariant, PTL

(* A request on its way has a worker, however the last one's end and a new *)
(* call interleave, and only a failed creation, a foreign id or a request  *)
(* larger than a batch ends a worker with an exception.                    *)
THEOREM WorkerKeptCorrect == Spec => []WorkerKept
<1>1. Inv => WorkerKept
  <2> SUFFICES ASSUME Inv PROVE WorkerKept
    OBVIOUS
  <2>0. TypeOK /\ WorkInv /\ EscapeInv
    BY DEF Inv
  <2>1. WorkerWatches
    <3> SUFFICES ASSUME NEW r \in Requests, Places(r) > 0, wpc = "off" PROVE FALSE
      BY <2>0 DEF WorkerWatches, WorkInv
    <3>1. OnWay(r)
      BY PlacesCorrect
    <3>2. /\ ~Work /\ creating = {} /\ \A b \in Ids : phase[b] = "idle"
      BY <2>0 DEF WorkInv
    <3>3. Queued = {}
      BY <2>0, <3>2 DEF Work, Queued, Elements, TypeOK
    <3> QED BY <3>1, <3>2, <3>3 DEF OnWay, Unsent, Work, InFlight
  <2> QED BY <2>0, <2>1 DEF WorkerKept, EscapeInv
<1> QED BY <1>1, Invariant, PTL

-----------------------------------------------------------------------------
(* The limits on the batches *)

Limits(R) == Cardinality(R) <= MaxCount /\ Bytes(R) <= MaxSize

LimitInv ==
  /\ Cardinality(InFlight) + (IF wpc = "creating" THEN 1 ELSE 0) <= MaxBatches
  /\ Limits(next) /\ Limits(creating)
  /\ \A b \in Ids : Limits(inflight[b])

LEMMA Counted ==
  ASSUME NEW R \in SUBSET Requests
  PROVE  IsFiniteSet(R) /\ Cardinality(R) \in Nat
BY BatcherAssumption, FS_Subset, FS_CardinalityType

LEMMA LimitsEmpty == TypeOK => Limits({})
<1> SUFFICES ASSUME TypeOK PROVE Limits({})
  OBVIOUS
<1>1. Cardinality({}) = 0 /\ Bytes({}) = 0
  BY FS_EmptySet, BytesEmpty
<1>2. MaxCount \in Nat /\ MaxSize \in Nat
  BY Situated, BatcherAssumption
<1> QED BY <1>1, <1>2 DEF Limits

LEMMA LimitsSubset ==
  ASSUME TypeOK, NEW R \in SUBSET Requests, NEW Q \in SUBSET R, Limits(R)
  PROVE  Limits(Q)
<1>1. /\ Cardinality(Q) <= Cardinality(R) /\ Cardinality(Q) \in Nat /\ Cardinality(R) \in Nat
  BY Counted, FS_Subset
<1>2. Bytes(Q) <= Bytes(R) /\ Bytes(Q) \in Nat /\ Bytes(R) \in Nat
  BY BytesSubset, BytesFinite
<1>3. MaxCount \in Nat /\ MaxSize \in Nat
  BY Situated, BatcherAssumption
<1> QED BY <1>1, <1>2, <1>3 DEF Limits

(* The first requests of the queue are not more than their number. *)
LEMMA FirstCounted ==
  ASSUME TypeOK, NEW k \in 0..Len(intake)
  PROVE  /\ First(k) \subseteq Requests /\ Cardinality(First(k)) <= k
         /\ Cardinality(First(k)) \in Nat
<1>1. k \in Nat /\ First(k) \subseteq Requests
  BY DEF First, TypeOK
<1>2. IsFiniteSet(1..k) /\ Cardinality(1..k) = k
  BY <1>1, FS_Interval
<1> DEFINE f == [i \in 1..k |-> intake[i]]
<1>3. f \in Surjection(1..k, First(k))
  BY DEF Surjection, First
<1>4. Cardinality(First(k)) <= Cardinality(1..k)
  BY <1>2, <1>3, FS_Surjection
<1> QED BY <1>1, <1>2, <1>4, Counted

LEMMA TakesWithinLimits ==
  ASSUME TypeOK, Limits(next)
  PROVE  Limits(next \cup First(AddCount)) /\ next \cup First(AddCount) \subseteq Requests
<1> DEFINE k == AddCount
           F == First(k)
<1>1. k \in 0..Len(intake) /\ Fits(k) /\ F \subseteq Requests /\ next \subseteq Requests
  BY AddCountCorrect, FirstCounted DEF TypeOK
<1> HIDE DEF k
<1>2. CASE k = 0
  <2>1. F = {}
    BY <1>2 DEF First
  <2> QED BY <1>1, <2>1 DEF k
<1>3. CASE k # 0
  <2>1. Cardinality(next) + k <= MaxCount /\ Bytes(next) + Bytes(F) <= MaxSize
    BY <1>1, <1>3 DEF Fits
  <2>2. /\ Cardinality(F) <= k /\ Cardinality(F) \in Nat /\ Cardinality(next) \in Nat /\ k \in Nat
        /\ IsFiniteSet(F) /\ IsFiniteSet(next)
    BY <1>1, FirstCounted, Counted DEF TypeOK
  <2> HIDE DEF F
  <2>3. /\ Cardinality(next \cup F) = Cardinality(next) + Cardinality(F) - Cardinality(next \cap F)
        /\ Cardinality(next \cap F) \in Nat
    BY <2>2, FS_Union, FS_Intersection, FS_CardinalityType
  <2>4. Cardinality(next \cup F) <= Cardinality(next) + k
    BY <2>2, <2>3
  <2>5. /\ Bytes(next \cup F) <= Bytes(next) + Bytes(F)
        /\ Bytes(next \cup F) \in Nat /\ Bytes(next) \in Nat /\ Bytes(F) \in Nat
    BY <1>1, BytesUnion, BytesFinite
  <2>6. MaxCount \in Nat /\ MaxSize \in Nat /\ Cardinality(next \cup F) \in Nat
    BY <1>1, Situated, BatcherAssumption, Counted
  <2>7. Limits(next \cup F)
    BY <2>1, <2>2, <2>4, <2>5, <2>6 DEF Limits
  <2> QED BY <1>1, <2>7 DEF F, k
<1> QED BY <1>2, <1>3

LEMMA IdsFinite == /\ IsFiniteSet(Ids)
                   /\ \A S \in SUBSET Ids : IsFiniteSet(S) /\ Cardinality(S) \in Nat
<1>1. IsFiniteSet(Ids)
  BY BatcherAssumption, FS_CardinalityType, FS_Interval DEF Ids
<1> QED BY <1>1, FS_Subset, FS_CardinalityType

LEMMA LimitStep == Inv /\ LimitInv /\ [Next]_vars => LimitInv'
<1> SUFFICES ASSUME Inv, LimitInv, [Next]_vars PROVE LimitInv'
  OBVIOUS
<1> USE DEF callerVars, nextVars, batchVars, workerVars, checkVars
<1>0. TypeOK /\ WorkInv /\ MaxSize' = MaxSize
  BY FaultsFixed DEF Inv, MaxSize
<1>t. /\ MaxBatches \in Nat /\ Cardinality(InFlight) \in Nat /\ IsFiniteSet(InFlight)
      /\ InFlight \subseteq Ids /\ Limits({})
      /\ next \subseteq Requests /\ creating \subseteq Requests
  BY <1>0, IdsFinite, BatcherAssumption, LimitsEmpty DEF InFlight, TypeOK
<1>e. \A R : Limits(R) => Limits(R)'
  BY <1>0 DEF Limits
<1>1. ASSUME UNCHANGED inflight, wpc' = "creating" => wpc = "creating",
             next' \in {next, {}}, creating' \in {creating, {}}
      PROVE  LimitInv'
  <2>1. InFlight' = InFlight
    BY <1>1 DEF InFlight
  <2>2. /\ Limits(next') /\ Limits(creating')
        /\ \A b \in Ids : Limits(inflight'[b])
    BY <1>1, <1>t DEF LimitInv
  <2>3. Cardinality(InFlight) + (IF wpc' = "creating" THEN 1 ELSE 0) <= MaxBatches
    BY <1>1, <1>t DEF LimitInv
  <2> QED BY <1>0, <2>1, <2>2, <2>3 DEF LimitInv, Limits
<1>2. CASE IntakeHold
  <2>1. /\ UNCHANGED <<creating, inflight>> /\ wpc' = "sleeping"
        /\ next' = next \cup First(AddCount)
    BY <1>2 DEF IntakeHold
  <2>2. InFlight' = InFlight /\ Limits(next')
    BY <1>0, <2>1, TakesWithinLimits DEF InFlight, LimitInv
  <2>3. Cardinality(InFlight) <= MaxBatches
    BY <1>t DEF LimitInv
  <2> QED BY <1>0, <1>t, <2>1, <2>2, <2>3 DEF LimitInv, Limits
<1>3. CASE IntakeSend
  <2>1. /\ UNCHANGED inflight /\ wpc' = "creating" /\ next' = {}
        /\ creating' = next \cup First(AddCount) /\ HasRoom(Cardinality(InFlight))
    BY <1>3 DEF IntakeSend
  <2>2. InFlight' = InFlight /\ Limits(creating')
    BY <1>0, <2>1, TakesWithinLimits DEF InFlight, LimitInv
  <2>3. Cardinality(InFlight) + 1 <= MaxBatches
    BY <1>t, <2>1 DEF HasRoom
  <2> QED BY <1>0, <1>t, <2>1, <2>2, <2>3 DEF LimitInv, Limits
<1>4. CASE Created
  <2>1. /\ UNCHANGED next /\ wpc = "creating" /\ wpc' = "intake" /\ creating' = {}
        /\ created + 1 \in Ids
        /\ \A b \in Ids : inflight'[b] = IF b = created + 1 THEN creating ELSE inflight[b]
    BY <1>0, <1>4, AnotherId DEF Created, Inv, WorkInv, TypeOK
  <2>2. InFlight' \subseteq InFlight \cup {created + 1}
    BY <2>1 DEF InFlight
  <2>3. /\ IsFiniteSet(InFlight \cup {created + 1})
        /\ Cardinality(InFlight \cup {created + 1}) <= Cardinality(InFlight) + 1
        /\ Cardinality(InFlight \cup {created + 1}) \in Nat
    BY <1>t, FS_AddElement, FS_CardinalityType
  <2>4. /\ Cardinality(InFlight') <= Cardinality(InFlight \cup {created + 1})
        /\ Cardinality(InFlight') \in Nat
    BY <2>2, <2>3, FS_Subset, FS_CardinalityType
  <2>5. Cardinality(InFlight) + 1 <= MaxBatches
    BY <1>t, <2>1 DEF LimitInv
  <2>6. Cardinality(InFlight') <= MaxBatches
    BY <1>t, <2>3, <2>4, <2>5
  <2>7. Limits(next') /\ Limits(creating') /\ \A b \in Ids : Limits(inflight'[b])
    BY <1>t, <2>1 DEF LimitInv
  <2>8. Cardinality(InFlight') + (IF wpc' = "creating" THEN 1 ELSE 0) <= MaxBatches
    BY <2>1, <2>4, <2>6
  <2> QED BY <1>0, <2>7, <2>8 DEF LimitInv, Limits
<1>5. ASSUME NEW r \in Requests, CreateFailSend(r) PROVE LimitInv'
  <2>1. /\ UNCHANGED <<next, inflight, wpc>> /\ creating' = creating \ {r}
    BY <1>5 DEF CreateFailSend
  <2>2. InFlight' = InFlight /\ Limits(creating')
    BY <1>0, <1>t, <2>1, LimitsSubset DEF InFlight, LimitInv
  <2> QED BY <1>0, <2>1, <2>2 DEF LimitInv, Limits
<1>6. ASSUME NEW b \in Ids, Cleanup(b) \/ CleanupTwice(b) PROVE LimitInv'
  <2>1. /\ UNCHANGED <<next, creating, wpc>>
        /\ \A c \in Ids : inflight'[c] = IF c = b THEN {} ELSE inflight[c]
    BY <1>0, <1>6 DEF Cleanup, CleanupTwice, InflightAfter, TypeOK
  <2>2. InFlight' \subseteq InFlight
    BY <2>1 DEF InFlight
  <2>3. Cardinality(InFlight') <= Cardinality(InFlight) /\ Cardinality(InFlight') \in Nat
    BY <1>t, <2>2, FS_Subset, FS_CardinalityType
  <2>4. Cardinality(InFlight') + (IF wpc' = "creating" THEN 1 ELSE 0) <= MaxBatches
    BY <1>t, <2>1, <2>3 DEF LimitInv
  <2>5. Limits(next') /\ Limits(creating') /\ \A c \in Ids : Limits(inflight'[c])
    BY <1>t, <2>1 DEF LimitInv
  <2> QED BY <1>0, <2>4, <2>5 DEF LimitInv, Limits
<1>7. CASE IntakeRaises \/ CreateRaises \/ \E b \in Ids : CleanupRaises(b)
  <2>1. UNCHANGED <<inflight, next>> /\ wpc' = "dead" /\ creating' = {}
    BY <1>7 DEF IntakeRaises, CreateRaises, CleanupRaises, Escape
  <2> QED BY <1>1, <2>1
<1>8. CASE \/ LoopExit \/ CheckAll \/ Checked \/ WakeUp \/ CreateFails \/ Timeout \/ UNCHANGED vars
           \/ (\E b \in Ids : ServiceEnds(b)) \/ \E r \in Requests : Caller(r)
  <2>1. UNCHANGED <<inflight, next, creating>> /\ (wpc' = "creating" => wpc = "creating")
    BY <1>8 DEF LoopExit, CheckAll, Checked, WakeUp, CreateFails, Timeout, vars, ServiceEnds,
                Caller, Generate, Return, CallerCancelled
  <2> QED BY <1>1, <2>1
<1>9. ASSUME NEW b \in Ids, Check(b), ~CleanupRaises(b), ~(Cleanup(b) \/ CleanupTwice(b))
      PROVE  LimitInv'
  <2>1. UNCHANGED <<inflight, next, creating, wpc>>
    BY <1>9 DEF Check, CheckFails, NotEnded, Rejected, Completed, CheckReturns, HandleFails,
                HandleReturns, SendOne, SendUnknown
  <2> QED BY <1>1, <2>1
<1> QED BY <1>2, <1>3, <1>4, <1>5, <1>6, <1>7, <1>8, <1>9 DEF Next, Worker, Loop, Check

(* No more batches are at the provider, the one being created included,    *)
(* than the configuration allows, and none holds more requests or bytes    *)
(* than the provider takes, whatever the sizes of the requests.            *)
THEOREM WithinLimitsCorrect == Spec => []WithinLimits
<1>1. Init => LimitInv
  <2> SUFFICES ASSUME Init PROVE LimitInv
    OBVIOUS
  <2>1. TypeOK
    BY InvInit DEF Inv
  <2>2. InFlight = {} /\ wpc = "off" /\ next = {} /\ creating = {} /\ \A b \in Ids : inflight[b] = {}
    BY DEF Init, InFlight
  <2>3. Cardinality({}) = 0 /\ MaxBatches \in Nat
    BY FS_EmptySet, BatcherAssumption
  <2> QED BY <2>1, <2>2, <2>3, LimitsEmpty DEF LimitInv
<1>2. LimitInv => WithinLimits
  BY DEF LimitInv, Limits, WithinLimits
<1> QED BY <1>1, <1>2, LimitStep, Invariant, PTL DEF Spec

-----------------------------------------------------------------------------
(* The callers do not see the batches *)

LEMMA PromisesStep == Inv /\ [Next]_vars => [Promises!Next \/ "unknown" \in Faults]_Promises!vars
<1> SUFFICES ASSUME Inv, [Next]_vars, "unknown" \notin Faults
             PROVE  Promises!Next \/ UNCHANGED <<call, stream>>
  BY DEF Promises!vars
<1> USE DEF callerVars, nextVars, batchVars, workerVars, checkVars
<1>0. TypeOK /\ CheckInv /\ \A r \in Requests : OnWay(r) => Owed(r)
  BY DEF Inv, AnswerInv
<1>1. ASSUME NEW r \in Requests, Caller(r) PROVE Promises!Next
  <2>1. CASE Generate(r)
    <3>1. Promises!Call(r)
      BY <2>1 DEF Generate, Promises!Call
    <3> QED BY <3>1 DEF Promises!Next
  <2>2. CASE Return(r)
    <3>1. Promises!Return(r)
      BY <2>2 DEF Return, Promises!Return
    <3> QED BY <3>1 DEF Promises!Next
  <2>3. CASE CallerCancelled(r)
    <3>1. call' = [q \in Requests |-> IF q \in {r} THEN "cancelled" ELSE call[q]]
      BY <1>0, <2>3 DEF CallerCancelled, TypeOK
    <3>2. Promises!GiveUp({r})
      BY <2>3, <3>1 DEF CallerCancelled, Promises!GiveUp
    <3> QED BY <3>2 DEF Promises!Next
  <2> QED BY <1>1, <2>1, <2>2, <2>3 DEF Caller
<1>2. CASE IntakeRaises \/ CreateRaises \/ \E b \in Ids : CleanupRaises(b)
  <2> DEFINE R == {r \in Requests : InEval /\ call[r] = "waiting"}
  <2>1. /\ UNCHANGED stream
        /\ call' = [r \in Requests |-> IF InEval /\ call[r] = "waiting" THEN "cancelled" ELSE call[r]]
    BY <1>2 DEF IntakeRaises, CreateRaises, CleanupRaises, Escape
  <2>2. call' = [r \in Requests |-> IF r \in R THEN "cancelled" ELSE call[r]]
    BY <2>1
  <2>3. Promises!GiveUp(R)
    BY <2>1, <2>2 DEF Promises!GiveUp
  <2>4. R \in SUBSET Requests
    OBVIOUS
  <2> HIDE DEF R
  <2> QED BY <2>3, <2>4 DEF Promises!Next
<1>3. ASSUME NEW r \in Requests, UNCHANGED call, OnWay(r),
             NEW a \in {"response", "error"}, Send(r, a)
      PROVE  Promises!Next
  <2>1. Promises!Answer(r, a)
    BY <1>0, <1>3 DEF Send, Owed, Promises!Answer
  <2> QED BY <1>3, <2>1 DEF Promises!Next, Promises!Answers
<1>4. ASSUME NEW r \in Requests, CreateFailSend(r) PROVE Promises!Next
  BY <1>3, <1>4 DEF CreateFailSend, OnWay
<1>5. ASSUME NEW b \in Ids, NEW r \in Requests, SendOne(b, r) PROVE Promises!Next
  <2>1. phase[b] \in {"results", "failing"} /\ r \in todo[b] /\ UNCHANGED call
    BY <1>0, <1>5 DEF SendOne, CheckInv, BatchInv
  <2>2. OnWay(r)
    BY <2>1 DEF OnWay, Unsent
  <2>3. \E a \in {"response", "error"} : Send(r, a)
    BY <1>5 DEF SendOne
  <2> QED BY <1>3, <2>1, <2>2, <2>3
<1>6. ASSUME NEW b \in Ids, Check(b), ~CleanupRaises(b) PROVE Promises!Next \/ UNCHANGED <<call, stream>>
  BY <1>0, <1>5, <1>6, CheckLeaves
<1>7. CASE \/ LoopExit \/ CheckAll \/ Checked \/ WakeUp \/ IntakeHold \/ IntakeSend \/ Created
           \/ CreateFails \/ Timeout \/ UNCHANGED vars \/ \E b \in Ids : ServiceEnds(b)
  BY <1>7 DEF LoopExit, CheckAll, Checked, WakeUp, IntakeHold, IntakeSend, Created, CreateFails,
              Timeout, vars, ServiceEnds
<1> QED BY <1>1, <1>2, <1>4, <1>6, <1>7 DEF Next, Worker, Loop, Check

(* The Batcher keeps what generate_for_request() promises: each step of    *)
(* the callers, the worker and its checks is one of RequestPromises, or    *)
(* invisible to the callers, as long as the results hold no foreign id.    *)
THEOREM KeepsPromisesCorrect == Spec => KeepsPromises
<1>1. Init => Promises!Init
  BY DEF Init, Promises!Init
<1> QED BY <1>1, PromisesStep, Invariant, PTL DEF Spec, KeepsPromises

-----------------------------------------------------------------------------
(***************************************************************************)
(* SandboxService                                                          *)
(***************************************************************************)

(* The inductive invariant: what the files, the client and the handler of  *)
(* one call know of each other.                                            *)

Delivering == {"writing", "opened", "removing"}
AtRest == {"none", "done"}

(* Handlers exist during a pass only, and only for calls that were sent.   *)
HandlersInPass ==
  /\ service # "handling" => \A c \in Calls : handler[c] = "none"
  /\ \A c \in Calls :
       /\ handler[c] = "reading" => request[c] # "absent"
       /\ handler[c] = "calling" => request[c] = "full"
       /\ handler[c] \in Delivering => answer[c] \in Answers

(* The request file follows its client, which writes it once.              *)
RequestOf(c) ==
  /\ client[c] = "new" => request[c] = "absent" /\ response[c] = "absent" /\ handler[c] = "none"
  /\ client[c] = "writing" <=> request[c] = "partial"
  /\ client[c] = "writing" => response[c] = "absent" /\ handler[c] \in AtRest \cup {"reading"}
  /\ client[c] \in {"new", "writing"} => runs[c] = 0
  /\ client[c] = "loaded" => loaded[c] \in Answers

(* Answers on their way are what the method came to, or report a failure.  *)
AnswersOf(c) ==
  /\ response[c] \in Answers => response[c] \in MayAnswer[c]
  /\ handler[c] \in Delivering => answer[c] \in MayAnswer[c]
  /\ client[c] = "loaded" => loaded[c] \in MayAnswer[c]

(* Unless a handler is about to answer it, a request that is still there   *)
(* has had a failed command for each run of its method.                    *)
RunsOf(c) ==
  /\ runs[c] <= failed[c] + 1
  /\ (service # "stopped" /\ request[c] # "absent" /\ handler[c] \notin Delivering)
       => runs[c] <= failed[c]

(* After a run without an error a second failure is needed to leave the    *)
(* request: the first one is answered with an error.                       *)
ResultsOf(c) ==
  (runs[c] > 0 /\ "error" \notin outcomes[c]) =>
    /\ runs[c] > 1 => failed[c] > 1
    /\ (handler[c] \in Delivering /\ answer[c] = "error") => failed[c] > 0
    /\ (service # "stopped" /\ request[c] # "absent" /\ handler[c] \notin Delivering)
         => failed[c] > 1

(* While its client waits, an answer exists as soon as a handler has       *)
(* written one, and the request goes only after that.                      *)
WaitingOf(c) ==
  client[c] = "waiting" =>
    /\ handler[c] = "opened" => response[c] = "partial"
    /\ handler[c] = "removing" => response[c] \in Answers
    /\ (service # "stopped" /\ failed[c] < 2 /\ request[c] # "full" /\ response[c] \notin Answers)
         => handler[c] \in Delivering /\ failed[c] > 0

(* Without a failure there is one answer, whose client comes after it.     *)
UntroubledOf(c) ==
  (failed[c] = 0 /\ service # "stopped") =>
    /\ handler[c] \in {"reading", "calling", "writing"} => response[c] = "absent"
    /\ (handler[c] \in AtRest /\ request[c] # "absent") => response[c] = "absent"
    /\ handler[c] = "opened" => client[c] = "waiting" /\ response[c] = "partial"
    /\ client[c] \in {"loaded", "result", "error"} =>
         handler[c] \in {"removing"} \cup AtRest /\ (handler[c] \in AtRest => request[c] = "absent")
    /\ Served(c) => response[c] = "absent"

CallInv(c) == /\ RequestOf(c) /\ AnswersOf(c) /\ RunsOf(c) /\ ResultsOf(c)
              /\ WaitingOf(c) /\ UntroubledOf(c)

ServiceInv == ServiceTypeOK /\ HandlersInPass /\ \A c \in Calls : CallInv(c)

-----------------------------------------------------------------------------
(* It holds at first, and each step keeps it. *)

LEMMA ServiceInvInit == ServiceInit => ServiceInv
<1> SUFFICES ASSUME ServiceInit PROVE ServiceInv
  OBVIOUS
<1> USE ServiceAssumption DEF ServiceInit
<1>1. ServiceTypeOK
  BY DEF ServiceTypeOK
<1>2. HandlersInPass
  BY DEF HandlersInPass, Delivering
<1>3. ASSUME NEW c \in Calls PROVE CallInv(c)
  BY DEF CallInv, RequestOf, AnswersOf, RunsOf, ResultsOf, WaitingOf, UntroubledOf, Answers,
         Delivering, AtRest, Served
<1> QED BY <1>1, <1>2, <1>3 DEF ServiceInv

(* Only the step of a call, of its handler or of the pass affects it.      *)
LEMMA Unaffected ==
  ASSUME NEW c \in Calls, CallInv(c),
         client'[c] = client[c], loaded'[c] = loaded[c], request'[c] = request[c],
         response'[c] = response[c], answer'[c] = answer[c], handler'[c] = handler[c],
         runs'[c] = runs[c], outcomes'[c] = outcomes[c], failed'[c] = failed[c],
         service' \in {service, "stopped"}
  PROVE  CallInv(c)'
BY DEF CallInv, RequestOf, AnswersOf, RunsOf, ResultsOf, WaitingOf, UntroubledOf, MayAnswer, Served

LEMMA HaltStep == ServiceInv /\ Halt => ServiceInv'
<1> SUFFICES ASSUME ServiceInv, Halt PROVE ServiceInv'
  OBVIOUS
<1> USE DEF ServiceInv, Halt, clientVars, history
<1>1. ServiceTypeOK'
  BY DEF ServiceTypeOK
<1>2. HandlersInPass'
  BY DEF HandlersInPass, Delivering, ServiceTypeOK
<1>3. ASSUME NEW c \in Calls PROVE CallInv(c)'
  BY DEF ServiceTypeOK, CallInv, RequestOf, AnswersOf, RunsOf, ResultsOf, WaitingOf, UntroubledOf,
         MayAnswer, Served, Answers, Delivering, AtRest
<1> QED BY <1>1, <1>2, <1>3

LEMMA PassStep == ServiceInv /\ Pass => ServiceInv'
<1> SUFFICES ASSUME ServiceInv, Pass PROVE ServiceInv'
  OBVIOUS
<1> USE DEF ServiceInv, Pass, StartPass, EndPass, Idle, clientVars, history
<1>1. ServiceTypeOK'
  BY DEF ServiceTypeOK
<1>2. HandlersInPass'
  BY DEF HandlersInPass, Delivering, ServiceTypeOK
<1>3. ASSUME NEW c \in Calls PROVE CallInv(c)'
  BY DEF HandlersInPass, ServiceTypeOK, CallInv, RequestOf, AnswersOf, RunsOf, ResultsOf, WaitingOf,
         UntroubledOf, MayAnswer, Served, Answers, Delivering, AtRest
<1> QED BY <1>1, <1>2, <1>3

LEMMA ClientStep == ASSUME ServiceInv, NEW d \in Calls, Client(d) PROVE ServiceInv'
<1> USE DEF ServiceInv, Client, OpenRequest, WriteRequest, Load, Loadable, Unlink, clientVars,
            handlerVars, history
<1>1. ServiceTypeOK'
  BY DEF ServiceTypeOK, CallInv, RequestOf
<1>2. HandlersInPass'
  BY DEF HandlersInPass, Delivering, ServiceTypeOK, CallInv, RequestOf, AtRest
<1>3. ASSUME NEW c \in Calls, c # d PROVE CallInv(c)'
  BY <1>3, Unaffected DEF ServiceTypeOK
<1>4. CallInv(d)'
  BY DEF HandlersInPass, ServiceTypeOK, CallInv, RequestOf, AnswersOf, RunsOf, ResultsOf, WaitingOf,
         UntroubledOf, MayAnswer, Served, Answers, Delivering, AtRest
<1> QED BY <1>1, <1>2, <1>3, <1>4

LEMMA HandlerStep == ASSUME ServiceInv, NEW d \in Calls, Handler(d) PROVE ServiceInv'
<1> USE DEF ServiceInv, Handler, Read, MethodEnds, Refused, UnknownMethod, ComesTo, Reply, Goto,
            OpenResponse, WriteResponse, Written, RemoveRequest, clientVars, history
<1>1. ServiceTypeOK'
  BY DEF ServiceTypeOK, Answers, HandlersInPass, Delivering
<1>2. HandlersInPass'
  BY DEF HandlersInPass, Delivering, Answers, ServiceTypeOK
<1>3. ASSUME NEW c \in Calls, c # d PROVE CallInv(c)'
  BY <1>3, Unaffected DEF ServiceTypeOK
<1>4. CallInv(d)'
  BY DEF HandlersInPass, ServiceTypeOK, CallInv, RequestOf, AnswersOf, RunsOf, ResultsOf, WaitingOf,
         UntroubledOf, MayAnswer, Served, Answers, Delivering, AtRest
<1> QED BY <1>1, <1>2, <1>3, <1>4

LEMMA FailureStep == ASSUME ServiceInv, NEW d \in Calls, CommandFails(d) PROVE ServiceInv'
<1> USE ServiceAssumption DEF ServiceInv, CommandFails, CountFailure, Recover, Reply, Goto,
            ReadFails, WriteFails, Written, RemoveFails, clientVars
<1>1. ServiceTypeOK'
  BY DEF ServiceTypeOK, Answers, HandlersInPass, Delivering
<1>2. HandlersInPass'
  BY DEF HandlersInPass, Delivering, Answers, ServiceTypeOK
<1>3. ASSUME NEW c \in Calls, c # d PROVE CallInv(c)'
  BY <1>3, Unaffected DEF ServiceTypeOK
<1>4. CallInv(d)'
  BY DEF HandlersInPass, ServiceTypeOK, CallInv, RequestOf, AnswersOf, RunsOf, ResultsOf, WaitingOf,
         UntroubledOf, MayAnswer, Served, Answers, Delivering, AtRest
<1> QED BY <1>1, <1>2, <1>3, <1>4

LEMMA ServiceInvStep == ServiceInv /\ [ServiceNext]_serviceVars => ServiceInv'
<1> SUFFICES ASSUME ServiceInv, [ServiceNext]_serviceVars PROVE ServiceInv'
  OBVIOUS
<1>1. CASE UNCHANGED serviceVars
  BY <1>1 DEF serviceVars, clientVars, handlerVars, history, ServiceInv, ServiceTypeOK,
         HandlersInPass, CallInv, RequestOf, AnswersOf, RunsOf, ResultsOf, WaitingOf, UntroubledOf,
         MayAnswer, Served
<1> QED BY <1>1, HaltStep, PassStep, ClientStep, HandlerStep, FailureStep
        DEF ServiceNext, Stop, MethodExceedsLimit

LEMMA ServiceInvariant == ServiceSpec => []ServiceInv
BY ServiceInvInit, ServiceInvStep, PTL DEF ServiceSpec

-----------------------------------------------------------------------------
(* A method that has returned in each of its runs is not run again because *)
(* of one failed command: it takes the failure of the error response, too. *)
THEOREM RunsOnceCorrect == ServiceSpec => []ResultRunsOnce
<1>1. ServiceInv => ResultRunsOnce
  BY DEF ServiceInv, ServiceTypeOK, CallInv, ResultsOf, ResultRunsOnce
<1> QED BY <1>1, ServiceInvariant, PTL

(* A client that waits finds its request or its response on disk, as long  *)
(* as less than two commands failed; and calls without a failure leave     *)
(* nothing behind.                                                         *)
THEOREM FilesCorrect == ServiceSpec => []FilesAsNeeded
<1>1. ASSUME ServiceInv PROVE NotForgotten
  BY <1>1 DEF ServiceInv, ServiceTypeOK, CallInv, WaitingOf, NotForgotten, Delivering
<1>2. ASSUME ServiceInv PROVE NoLeftovers
  BY <1>2 DEF ServiceInv, HandlersInPass, CallInv, UntroubledOf, NoLeftovers, Served, Answers, AtRest
<1>3. ServiceInv => FilesAsNeeded
  BY <1>1, <1>2 DEF ServiceInv, FilesAsNeeded
<1> QED BY <1>3, ServiceInvariant, PTL

-----------------------------------------------------------------------------
(* The refinement of RemoteCall: what each step is to the caller.          *)

LEMMA RemoteInit == ServiceInit => Remote!Init
BY DEF ServiceInit, Remote!Init, CallState, MayAnswer

(* What the steps of a call, of its handler and of the host leave alone *)
LEMMA CallUnchanged ==
  ASSUME UNCHANGED <<CallState, history>>
  PROVE  UNCHANGED Remote!vars
BY DEF Remote!vars, history, MayAnswer

(* An outcome, or a failure, of one call adds to what it may be answered.  *)
LEMMA MayAnswerAdds ==
  ASSUME NEW c \in Calls, NEW what,
         \/ outcomes'[c] = outcomes[c] \cup {what} /\ failed'[c] = failed[c]
         \/ outcomes'[c] = outcomes[c] /\ failed'[c] > 0 /\ what = "error",
         \A d \in Calls : d # c => outcomes'[d] = outcomes[d] /\ failed'[d] = failed[d]
  PROVE  MayAnswer' = [MayAnswer EXCEPT ![c] = @ \cup {what}]
<1>1. MayAnswer'[c] = MayAnswer[c] \cup {what}
  BY DEF MayAnswer
<1>2. \A d \in Calls : d # c => MayAnswer'[d] = MayAnswer[d]
  BY DEF MayAnswer
<1>3. MayAnswer' = [d \in Calls |-> MayAnswer'[d]] /\ MayAnswer = [d \in Calls |-> MayAnswer[d]]
  BY DEF MayAnswer
<1> QED BY <1>1, <1>2, <1>3

LEMMA OutcomeAdds ==
  ASSUME ServiceTypeOK, NEW c \in Calls, NEW what, ComesTo(c, what), UNCHANGED failed
  PROVE  MayAnswer' = [MayAnswer EXCEPT ![c] = @ \cup {what}]
<1>1. outcomes'[c] = outcomes[c] \cup {what} /\ \A d \in Calls : d # c => outcomes'[d] = outcomes[d]
  BY DEF ServiceTypeOK, ComesTo
<1>2. failed'[c] = failed[c] /\ \A d \in Calls : d # c => failed'[d] = failed[d]
  OBVIOUS
<1> QED BY <1>1, <1>2, MayAnswerAdds

LEMMA ClientRefines ==
  ASSUME ServiceInv, NEW c \in Calls, Client(c) PROVE [Remote!Next]_Remote!vars
<1> USE DEF ServiceInv, ServiceTypeOK, CallInv, RequestOf, AnswersOf, Answers, CallState, MayAnswer
<1>1. CASE OpenRequest(c)
  <2>1. Remote!Send(c)
    BY <1>1 DEF OpenRequest, Remote!Send, history
  <2> QED BY <2>1 DEF Remote!Next
<1>2. CASE WriteRequest(c)
  BY <1>2, CallUnchanged DEF WriteRequest
<1>3. CASE Load(c)
  BY <1>3, CallUnchanged DEF Load
<1>4. CASE Unlink(c)
  <2>1. loaded[c] \in MayAnswer[c] /\ CallState[c] = "sent"
    BY <1>4 DEF Unlink
  <2>2. CallState' = [CallState EXCEPT ![c] = loaded[c]]
    BY <1>4 DEF Unlink
  <2>3. Remote!Answer(c)
    BY <1>4, <2>1, <2>2 DEF Unlink, Remote!Answer, history
  <2> QED BY <2>3 DEF Remote!Next
<1> QED BY <1>1, <1>2, <1>3, <1>4 DEF Client

(* The method runs, is refused, or nothing that the caller can tell.       *)
LEMMA HandlerRefines ==
  ASSUME ServiceInv, NEW c \in Calls, Handler(c) PROVE [Remote!Next]_Remote!vars
<1> USE DEF ServiceInv, ServiceTypeOK, HandlersInPass, CallInv, RequestOf, RunsOf, Answers, CallState
<1>1. CASE MethodEnds(c)
  <2>1. PICK what \in Answers : ComesTo(c, what)
    BY <1>1 DEF MethodEnds
  <2>2. CallState[c] # "new" /\ runs[c] <= failed[c]
    BY <1>1 DEF MethodEnds, Delivering
  <2>3. MayAnswer' = [MayAnswer EXCEPT ![c] = @ \cup {what}]
    BY <1>1, <2>1, OutcomeAdds DEF MethodEnds
  <2>4. Remote!Run(c, what)
    BY <1>1, <2>2, <2>3 DEF MethodEnds, Remote!Run, clientVars
  <2> QED BY <2>4 DEF Remote!Next
<1>2. CASE UnknownMethod(c)
  <2>1. MayAnswer' = [MayAnswer EXCEPT ![c] = @ \cup {"error"}]
    BY <1>2, OutcomeAdds DEF UnknownMethod
  <2>2. Remote!Refuse(c)
    BY <1>2, <2>1 DEF UnknownMethod, Remote!Refuse, clientVars
  <2> QED BY <2>2 DEF Remote!Next
<1>3. CASE Read(c) \/ OpenResponse(c) \/ WriteResponse(c) \/ RemoveRequest(c)
  BY <1>3, CallUnchanged DEF Read, OpenResponse, WriteResponse, RemoveRequest, clientVars
<1> QED BY <1>1, <1>2, <1>3 DEF Handler

LEMMA FailureRefines ==
  ASSUME ServiceInv, NEW c \in Calls, CommandFails(c) PROVE [Remote!Next]_Remote!vars
<1> USE DEF ServiceInv, ServiceTypeOK, HandlersInPass, CallInv, RequestOf, CallState
<1>1. /\ handler[c] \in {"reading", "writing", "opened", "removing"}
      /\ CountFailure(c)
  BY DEF CommandFails, ReadFails, WriteFails, RemoveFails
<1>2. MayAnswer' = [MayAnswer EXCEPT ![c] = @ \cup {"error"}]
  <2>1. failed[c] \in Nat /\ failed' = [failed EXCEPT ![c] = @ + 1] /\ outcomes' = outcomes
    BY <1>1 DEF CountFailure
  <2>2. failed'[c] > 0 /\ \A d \in Calls : d # c => failed'[d] = failed[d]
    BY <2>1
  <2> QED BY <2>1, <2>2, MayAnswerAdds, SMTT(30)
<1>3. Remote!Fail(c)
  BY <1>1, <1>2 DEF CountFailure, Remote!Fail, clientVars
<1> QED BY <1>3 DEF Remote!Next

(* To its caller a call through files is one with at most one answer, and  *)
(* with one run of the method besides those that failures account for.     *)
THEOREM RefinesRemoteCall == ServiceSpec => ImplementsRemoteCall
<1>1. ServiceInv /\ [ServiceNext]_serviceVars => [Remote!Next]_Remote!vars
  <2> SUFFICES ASSUME ServiceInv, [ServiceNext]_serviceVars PROVE [Remote!Next]_Remote!vars
    OBVIOUS
  <2>1. CASE Halt \/ Pass \/ UNCHANGED serviceVars
    BY <2>1, CallUnchanged
       DEF Halt, Pass, StartPass, EndPass, serviceVars, clientVars, CallState
  <2> QED BY <2>1, ClientRefines, HandlerRefines, FailureRefines
          DEF ServiceNext, Stop, MethodExceedsLimit
<1> QED BY <1>1, RemoteInit, ServiceInvariant, PTL DEF ServiceSpec, ImplementsRemoteCall, Remote!Spec
=============================================================================
