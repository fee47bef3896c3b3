-------------------------- MODULE BufferSync_proofs --------------------------
(* Theorems about BufferSync, for any samples, events and attachments, any *)
(* number of segments and retries, whether or not writes fail.             *)
EXTENDS BufferSync, SequenceFacts, TLAPS

-----------------------------------------------------------------------------
(* The inductive invariant *)

Count == Len(manifest.segments)

(* What the segments of the manifest hold of sample s: event i; attachment *)
(* a in a segment whose greatest id is not below a.                        *)
EventOut(s, i) == \E k \in manifest.segs[s] : i \in files[k][s].events
AttOut(s, a) == \E k \in manifest.segs[s] : a \in files[k][s].atts /\ a <= manifest.segments[k].att

(* The attachment of event i is there; attachment a is in segment k, or    *)
(* in another one.                                                         *)
HasAtt(s, i) == \E a \in Attachments(s) : atts[a].hash = rows[i].hash

DbInv ==
  /\ Distinct(atts)
  /\ \A i \in DOMAIN rows : rows[i].hash # NoHash => HasAtt(rows[i].sample, i)

(* The files between the write of a segment and that of the manifest *)
FilesInv ==
  /\ Count <= MaxSegments
  /\ finished => pc = "idle" /\ manifest = NoManifest /\ files = NoFiles
  /\ pc = "sync" => Count < MaxSegments
  /\ pc = "manifest" =>
       /\ Count < MaxSegments /\ Changed # {}
       /\ files[Count + 1] = [s \in Samples |-> IF s \in Changed THEN Fresh(s) ELSE NoData]
  /\ \A k \in DOMAIN manifest.segments :
       manifest.segments[k].event <= Len(rows) /\ manifest.segments[k].att <= Len(atts)
  /\ \A k \in Segments, s \in Samples :
       /\ \A i \in files[k][s].events : i \in DOMAIN rows /\ rows[i].sample = s
       /\ files[k][s].atts \subseteq Attachments(s)

(* What the segments make it unnecessary to read again is in one of them. *)
SkipInv(s) ==
  /\ \A i \in Rows(s) : i <= After(s).event => EventOut(s, i)
  /\ \A a \in Attachments(s) : a <= After(s).att => AttOut(s, a)

(* A segment of a sample, together with the others, is complete up to the  *)
(* last event and the last attachment that it holds.                       *)
SegmentInv(s, k) ==
  /\ files[k][s] # NoData
  /\ \A m \in files[k][s].events : m <= manifest.segments[k].event
  /\ \A m \in files[k][s].events : \A i \in Rows(s) : i <= m => EventOut(s, i)
  /\ \A b \in files[k][s].atts : \A a \in Attachments(s) :
       a <= b => a \in files[k][s].atts \/ AttOut(s, a)
  /\ \A i \in files[k][s].events : rows[i].hash # NoHash =>
       \E a \in Attachments(s) : /\ atts[a].hash = rows[i].hash
                                 /\ a \in files[k][s].atts \/ AttOut(s, a)

StoreInv == \A s \in Samples : SkipInv(s) /\ \A k \in manifest.segs[s] : SegmentInv(s, k)

(* What the viewer has is complete up to the ids it has seen ... *)
KnownInv == \A a \in Attachments(Watched) : a <= seen.att => atts[a].hash \in known
SeenInv ==
  /\ seen.event <= Len(rows) /\ seen.att <= Len(atts)
  /\ \A e \in Events : shown[e] # 0 => shown[e] \in DOMAIN rows
  /\ NoGap /\ Resolved /\ KnownInv

(* ... and what it is about to read is complete beyond them. *)
ReadInv ==
  /\ viewer # "reading" => chosen = {}
  /\ ~finished => /\ chosen \subseteq DOMAIN manifest.segments
                  /\ \A k \in chosen : files[k][Watched] # NoData
  /\ \A m \in Received : \A i \in Rows(Watched) : i <= m => i <= seen.event \/ i \in Received
  /\ \A b \in ReceivedAtts : \A a \in Attachments(Watched) :
       a <= b => a <= seen.att \/ a \in ReceivedAtts
  /\ \A i \in Received : rows[i].hash # NoHash =>
       \E a \in Attachments(Watched) : /\ atts[a].hash = rows[i].hash
                                       /\ a \in ReceivedAtts \/ atts[a].hash \in known

Inv == TypeOK /\ DbInv /\ FilesInv /\ StoreInv /\ SeenInv /\ ReadInv

-----------------------------------------------------------------------------
(* Greatest ids *)

Att == [sample : Samples, hash : Hashes]

LEMMA MaxIs ==
  ASSUME NEW S, IsFiniteSet(S), S # {}, S \subseteq Int
  PROVE  Max(S) \in S /\ \A x \in S : x <= Max(S)
<1> DEFINE h == [x \in S |-> x]
<1>1. \E x \in S : \A y \in S : h[y] <= h[x]
  BY HasMaximum
<1>2. \E x \in S : \A y \in S : x >= y
  BY <1>1
<1> QED BY <1>2 DEF Max

LEMMA MaxIdIs ==
  ASSUME NEW n \in Nat, NEW S \in SUBSET (0..n)
  PROVE  /\ MaxId(S) \in S \cup {0} /\ MaxId(S) \in 0..n
         /\ \A x \in S : x <= MaxId(S)
<1> DEFINE T == S \cup {0}
<1>1. T \subseteq 0..n /\ T # {} /\ T \subseteq Int /\ S \subseteq T
  OBVIOUS
<1> HIDE DEF T
<1>2. IsFiniteSet(T)
  <2>1. IsFiniteSet(0..n)
    BY FS_Interval
  <2> QED BY <1>1, <2>1, FS_Subset
<1>3. Max(T) \in T /\ \A x \in T : x <= Max(T)
  BY <1>1, <1>2, MaxIs
<1> QED BY <1>1, <1>3 DEF MaxId, T

LEMMA MaxSeen ==
  ASSUME NEW n \in Nat, NEW S \in SUBSET (0..n), NEW x \in {KNoId} \cup (0..n)
  PROVE  /\ Max(S \cup {x}) \in S \cup {x} /\ Max(S \cup {x}) <= n
         /\ \A y \in S \cup {x} : y <= Max(S \cup {x})
<1> DEFINE T == S \cup {x}
<1>1. T \subseteq (-1)..n /\ T # {} /\ T \subseteq Int
  BY DEF KNoId
<1> HIDE DEF T
<1>2. IsFiniteSet(T)
  <2>1. IsFiniteSet((-1)..n)
    BY FS_Interval
  <2> QED BY <1>1, <2>1, FS_Subset
<1>3. Max(T) \in T /\ \A y \in T : y <= Max(T)
  BY <1>1, <1>2, MaxIs
<1>4. Max(T) <= n
  <2>1. Max(T) \in (-1)..n
    BY <1>1, <1>3
  <2> QED BY <2>1
<1> QED BY <1>3, <1>4 DEF T

LEMMA LastByHashIs ==
  ASSUME TypeOK, NEW A \in SUBSET DOMAIN atts
  PROVE  LastByHash(A) \in A \cup {0}
<1>1. CASE A = {}
  BY <1>1 DEF LastByHash
<1>2. CASE A # {}
  <2> DEFINE h == [i \in A |-> atts[i].hash]
  <2>1. DOMAIN atts = 1..Len(atts) /\ Len(atts) \in Nat
    BY DEF TypeOK
  <2>2. IsFiniteSet(A)
    <3>1. IsFiniteSet(1..Len(atts))
      BY <2>1, FS_Interval
    <3> QED BY <2>1, <3>1, FS_Subset
  <2>3. h \in [A -> Int]
    <3>1. atts \in Seq(Att)
      BY DEF TypeOK, Att
    <3>2. \A i \in A : atts[i] \in Att
      BY <2>1, <3>1
    <3>3. \A i \in A : atts[i].hash \in Hashes
      BY <3>2 DEF Att
    <3>4. Hashes \subseteq Int
      BY BufferSyncAssumption
    <3> QED BY <3>3, <3>4
  <2>4. \E i \in A : \A j \in A : h[j] <= h[i]
    BY <1>2, <2>2, <2>3, HasMaximum
  <2>5. \E i \in A : \A j \in A : atts[j].hash <= atts[i].hash
    BY <2>4
  <2> QED BY <1>2, <2>5 DEF LastByHash
<1> QED BY <1>1, <1>2

-----------------------------------------------------------------------------
(* The database *)

(* There are as many attachments as samples and hashes, at most. *)
LEMMA AttachmentIds ==
  ASSUME NEW q \in Seq(Att), Distinct(q)
  PROVE  DOMAIN q \subseteq AttIds
<1> DEFINE n == Len(q)
           f == [i \in 1..n |-> <<q[i].sample, q[i].hash>>]
<1>1. n \in Nat /\ DOMAIN q = 1..n /\ \A i \in 1..n : q[i] \in Att
  OBVIOUS
<1>2. \A i, j \in 1..n : q[i].sample = q[j].sample /\ q[i].hash = q[j].hash => i = j
  BY <1>1 DEF Distinct, Att
<1>3. f \in Injection(1..n, Samples \X Hashes)
  BY <1>1, <1>2 DEF Injection, IsInjective, Att
<1>4. /\ IsFiniteSet(Samples \X Hashes)
      /\ Cardinality(Samples \X Hashes) = Cardinality(Samples) * Cardinality(Hashes)
  BY FS_Product, BufferSyncAssumption
<1>5. Cardinality(1..n) <= Cardinality(Samples \X Hashes)
  BY <1>3, <1>4, FS_Injection
<1>6. Cardinality(1..n) = n
  <2> HIDE DEF n
  <2> QED BY <1>1, FS_Interval
<1>7. n <= Cardinality(Samples) * Cardinality(Hashes)
  BY <1>4, <1>5, <1>6
<1> DEFINE m == Cardinality(Samples) * Cardinality(Hashes)
<1>8. m \in Nat
  BY FS_CardinalityType, BufferSyncAssumption
<1> HIDE DEF n, m
<1> QED BY <1>1, <1>7, <1>8 DEF AttIds, m

LEMMA Inserted ==
  ASSUME TypeOK, DbInv, NEW s \in Samples, NEW h \in Hashes \cup {NoHash}
  PROVE  LET q == Insert(s, h) IN
         /\ q \in Seq(Att) /\ DOMAIN q \subseteq AttIds /\ Distinct(q)
         /\ Len(atts) <= Len(q) /\ Len(atts) \in Nat
         /\ \A a \in DOMAIN atts : a \in DOMAIN q /\ q[a] = atts[a]
         /\ \A a \in DOMAIN q : a \in DOMAIN atts \/ a > Len(atts)
         /\ h # NoHash => \E a \in DOMAIN q : q[a] = [sample |-> s, hash |-> h]
<1> DEFINE q == Insert(s, h)
           e == [sample |-> s, hash |-> h]
<1>0. atts \in Seq(Att) /\ Distinct(atts) /\ Len(atts) \in Nat /\ DOMAIN atts = 1..Len(atts)
  BY DEF TypeOK, DbInv, Att
<1>1. CASE h = NoHash \/ \E i \in Attachments(s) : atts[i].hash = h
  <2>1. q = atts
    BY <1>1 DEF Insert
  <2>2. ASSUME h # NoHash PROVE \E a \in DOMAIN atts : atts[a] = e
    <3>1. PICK a \in DOMAIN atts : atts[a].sample = s /\ atts[a].hash = h
      BY <1>1, <2>2 DEF Attachments
    <3>2. atts[a] \in Att
      BY <1>0
    <3>3. atts[a] = e
      BY <3>1, <3>2 DEF Att
    <3> QED BY <3>3
  <2> QED BY <1>0, <2>1, <2>2, AttachmentIds
<1>2. CASE ~(h = NoHash \/ \E i \in Attachments(s) : atts[i].hash = h)
  <2>1. q = Append(atts, e) /\ e \in Att
    BY <1>2 DEF Insert, Att
  <2>2. e \notin Elements(atts)
    BY <1>2 DEF Elements, Attachments
  <2>3. Distinct(q)
    BY <1>0, <2>1, <2>2, AppendElements
  <2> HIDE DEF e
  <2>4. /\ q \in Seq(Att) /\ Len(q) = Len(atts) + 1
        /\ DOMAIN q = 1..Len(atts) + 1
        /\ \A i \in 1..Len(atts) : q[i] = atts[i]
        /\ q[Len(atts) + 1] = e
    BY <1>0, <2>1, AppendItems
  <2>5. DOMAIN q \subseteq AttIds
    BY <2>3, <2>4, AttachmentIds
  <2> HIDE DEF q
  <2>6. \E a \in DOMAIN q : q[a] = e
    BY <1>0, <2>4
  <2> QED BY <1>0, <2>3, <2>4, <2>5, <2>6 DEF q, e
<1> QED BY <1>1, <1>2

(* A transaction adds to the tables at their ends, and may remove events. *)
Grows ==
  /\ Len(rows) <= Len(rows') /\ Len(atts) <= Len(atts')
  /\ \A i \in DOMAIN rows : i \in DOMAIN rows' /\ rows'[i] = rows[i]
  /\ \A a \in DOMAIN atts : a \in DOMAIN atts' /\ atts'[a] = atts[a]
  /\ \A s \in Samples : /\ \A i \in Rows(s)' : i \in Rows(s) \/ i > Len(rows)
                        /\ \A a \in Attachments(s)' : a \in Attachments(s) \/ a > Len(atts)
                        /\ Attachments(s) \subseteq Attachments(s)'

Transaction ==
  \/ \E s \in Samples, h \in Hashes \cup {NoHash} : StartSample(s, h)
  \/ \E s \in Samples, e \in Events, h \in Hashes \cup {NoHash} : LogEvent(s, e, h)
  \/ \E s \in Samples : CompleteSample(s) \/ FlushSamples(s) \/ RetrySample(s)
  \/ UpdateMetrics

LEMMA TransactionGrows == Inv /\ Transaction => Grows /\ Write /\ DbInv' /\ TypeOK'
<1> SUFFICES ASSUME Inv, Transaction PROVE Grows /\ Write /\ DbInv' /\ TypeOK'
  OBVIOUS
<1> USE DEF dbVars, storeVars, viewerVars
<1>0. /\ TypeOK /\ DbInv
      /\ DOMAIN rows = 1..Len(rows) /\ Len(rows) \in Nat
      /\ DOMAIN atts = 1..Len(atts) /\ Len(atts) \in Nat
  BY DEF Inv, TypeOK
<1>1. ASSUME UNCHANGED <<rows, atts>>, live' \subseteq live PROVE Grows /\ DbInv'
  <2>1. \A s \in Samples : Rows(s)' \subseteq Rows(s) /\ Attachments(s)' = Attachments(s)
    BY <1>1 DEF Rows, Attachments
  <2>2. Grows
    BY <1>0, <1>1, <2>1 DEF Grows
  <2>3. DbInv'
    BY <1>0, <1>1 DEF DbInv, HasAtt, Attachments
  <2> QED BY <2>2, <2>3
<1>2. ASSUME NEW s \in Samples, NEW h \in Hashes \cup {NoHash}, StartSample(s, h)
      PROVE  Grows /\ Write /\ DbInv' /\ TypeOK'
  <2>1. /\ Write /\ UNCHANGED <<retries, rows, live, logVars>>
        /\ buffered' = buffered \cup {s} /\ atts' = Insert(s, h)
    BY <1>2 DEF StartSample
  <2>2. /\ atts' \in Seq(Att) /\ DOMAIN atts' \subseteq AttIds /\ Distinct(atts')
        /\ Len(atts) <= Len(atts')
        /\ \A a \in DOMAIN atts : a \in DOMAIN atts' /\ atts'[a] = atts[a]
        /\ \A a \in DOMAIN atts' : a \in DOMAIN atts \/ a > Len(atts)
    BY <1>0, <2>1, Inserted
  <2>3. Grows
    BY <1>0, <2>1, <2>2 DEF Grows, Rows, Attachments
  <2>4. DbInv'
    BY <1>0, <2>1, <2>2 DEF DbInv, HasAtt, Attachments
  <2>5. TypeOK'
    BY <1>0, <2>1, <2>2 DEF TypeOK, LogTypeOK, logVars, Write, Att
  <2> QED BY <2>1, <2>3, <2>4, <2>5
<1>3. ASSUME NEW s \in Samples, NEW e \in Events, NEW h \in Hashes \cup {NoHash}, LogEvent(s, e, h)
      PROVE  Grows /\ Write /\ DbInv' /\ TypeOK'
  <2> DEFINE Row == [sample : Samples, event : Events, hash : Hashes \cup {NoHash}]
             r == [sample |-> s, event |-> e, hash |-> h]
  <2>1. /\ Write /\ UNCHANGED <<buffered, retries, logVars>> /\ Len(rows) < situation.rows
        /\ rows' = Append(rows, r) /\ live' = live \cup {Len(rows) + 1}
        /\ atts' = Insert(s, h)
    BY <1>3 DEF LogEvent
  <2>2. /\ atts' \in Seq(Att) /\ DOMAIN atts' \subseteq AttIds /\ Distinct(atts')
        /\ Len(atts) <= Len(atts')
        /\ \A a \in DOMAIN atts : a \in DOMAIN atts' /\ atts'[a] = atts[a]
        /\ \A a \in DOMAIN atts' : a \in DOMAIN atts \/ a > Len(atts)
        /\ h # NoHash => \E a \in DOMAIN atts' : atts'[a] = [sample |-> s, hash |-> h]
    BY <1>0, <2>1, Inserted
  <2>3. /\ rows \in Seq(Row) /\ r \in Row
    BY <1>0 DEF TypeOK
  <2> HIDE DEF Row
  <2>4. /\ rows' \in Seq(Row) /\ Len(rows') = Len(rows) + 1 /\ DOMAIN rows' = 1..Len(rows) + 1
        /\ \A i \in 1..Len(rows) : rows'[i] = rows[i]
        /\ rows'[Len(rows) + 1] = r
    BY <2>1, <2>3, AppendItems
  <2>5. Grows
    <3>1. /\ Len(rows) <= Len(rows')
          /\ \A i \in DOMAIN rows : i \in DOMAIN rows' /\ rows'[i] = rows[i]
      BY <1>0, <2>4
    <3>2. live \subseteq DOMAIN rows /\ Len(rows) + 1 > Len(rows)
      BY <1>0 DEF TypeOK
    <3>3. \A q \in Samples : \A i \in Rows(q)' : i \in Rows(q) \/ i > Len(rows)
      BY <2>1, <3>1, <3>2 DEF Rows
    <3>4. \A q \in Samples : /\ \A a \in Attachments(q)' : a \in Attachments(q) \/ a > Len(atts)
                             /\ Attachments(q) \subseteq Attachments(q)'
      BY <2>2 DEF Attachments
    <3> QED BY <2>2, <3>1, <3>3, <3>4 DEF Grows
  <2>6. DbInv'
    <3>1. ASSUME NEW i \in DOMAIN rows', rows'[i].hash # NoHash
          PROVE  \E a \in DOMAIN atts' : atts'[a].sample = rows'[i].sample /\ atts'[a].hash = rows'[i].hash
      <4>1. CASE i \in DOMAIN rows
        <5>1. rows'[i] = rows[i]
          BY <1>0, <2>4, <4>1
        <5>2. HasAtt(rows[i].sample, i)
          BY <1>0, <3>1, <4>1, <5>1 DEF DbInv
        <5> QED BY <2>2, <5>1, <5>2 DEF HasAtt, Attachments
      <4>2. CASE i = Len(rows) + 1
        BY <2>2, <2>4, <3>1, <4>2
      <4> QED BY <1>0, <2>4, <4>1, <4>2
    <3> QED BY <2>2, <3>1 DEF DbInv, HasAtt, Attachments
  <2>7. TypeOK'
    <3>1. Len(rows') <= MaxRows /\ live' \subseteq DOMAIN rows'
      <4>1. situation.rows <= MaxRows /\ situation.rows \in Nat /\ MaxRows \in Nat
        BY <1>0, BufferSyncAssumption DEF TypeOK, Situation
      <4> QED BY <1>0, <2>1, <2>4, <4>1 DEF TypeOK
    <3> QED BY <1>0, <2>1, <2>2, <2>4, <3>1 DEF TypeOK, LogTypeOK, logVars, Write, Att, Row
  <2> QED BY <2>1, <2>5, <2>6, <2>7
<1>4. ASSUME NEW s \in Samples, CompleteSample(s) PROVE Grows /\ Write /\ DbInv' /\ TypeOK'
  <2>1. /\ Write /\ UNCHANGED <<dbVars, flushing, zip, inFile>>
        /\ logged' = logged \cup {s} /\ pending' = pending \cup {s}
        /\ due' \subseteq due \cup {s} /\ late' \subseteq late \cup {s}
    BY <1>4 DEF CompleteSample
  <2>2. LogTypeOK'
    BY <1>0, <2>1 DEF TypeOK, LogTypeOK
  <2>3. TypeOK'
    BY <1>0, <2>1, <2>2 DEF TypeOK, Write
  <2> QED BY <1>1, <2>1, <2>3
<1>5. ASSUME NEW s \in Samples, RetrySample(s) PROVE Grows /\ Write /\ DbInv' /\ TypeOK'
  <2>1. /\ Write /\ UNCHANGED <<rows, atts, logVars>> /\ buffered' \subseteq buffered
        /\ live' \subseteq live
    BY <1>5 DEF RetrySample, RemoveSamples
  <2>2. retries' \in [Samples -> 0..Retries]
    <3>1. situation.retries \in 0..Retries /\ Retries \in Nat
      BY <1>0, BufferSyncAssumption DEF TypeOK, Situation
    <3> QED BY <1>0, <1>5, <3>1 DEF RetrySample, TypeOK
  <2>3. TypeOK'
    BY <1>0, <2>1, <2>2 DEF TypeOK, LogTypeOK, logVars, Write
  <2> QED BY <1>1, <2>1, <2>3
<1>6. CASE UpdateMetrics
  <2>1. Write /\ UNCHANGED <<dbVars, logVars>>
    BY <1>6 DEF UpdateMetrics
  <2>2. TypeOK'
    BY <1>0, <2>1 DEF TypeOK, LogTypeOK, logVars, Write
  <2> QED BY <1>1, <2>1, <2>2
<1>7. ASSUME NEW s \in Samples, FlushSamples(s) PROVE Grows /\ Write /\ DbInv' /\ TypeOK'
  <2>1. /\ Write /\ UNCHANGED <<rows, atts, retries, logged, due, zip, late>>
        /\ buffered' \subseteq buffered /\ live' \subseteq live
        /\ inFile' = zip /\ pending' = {} /\ flushing' \subseteq flushing
    BY <1>7 DEF FlushSamples, RemoveSamples
  <2>2. LogTypeOK'
    BY <1>0, <2>1 DEF TypeOK, LogTypeOK
  <2>3. TypeOK'
    BY <1>0, <2>1, <2>2 DEF TypeOK, Write
  <2> QED BY <1>1, <2>1, <2>3
<1> QED BY <1>2, <1>3, <1>4, <1>5, <1>6, <1>7 DEF Transaction

-----------------------------------------------------------------------------
(* What a transaction leaves as it is *)

LEMMA Lengths ==
  ASSUME TypeOK
  PROVE  /\ Len(rows) \in Nat /\ DOMAIN rows = 1..Len(rows)
         /\ Len(atts) \in Nat /\ DOMAIN atts = 1..Len(atts)
         /\ Count \in Nat /\ DOMAIN manifest.segments = 1..Count
BY DEF TypeOK, Count

LEMMA SegmentIds ==
  ASSUME TypeOK, Count <= MaxSegments
  PROVE  DOMAIN manifest.segments \subseteq Segments
<1>1. MaxSegments \in Nat
  BY BufferSyncAssumption
<1> QED BY <1>1, Lengths DEF Segments

(* The last segment of a sample, and what may be skipped because of it *)
LEMMA AfterIs ==
  ASSUME TypeOK, NEW s \in Samples
  PROVE  /\ LastSegment(s) \in manifest.segs[s] \cup {0}
         /\ \A k \in manifest.segs[s] : k <= LastSegment(s) /\ LastSegment(s) # 0
         /\ LastSegment(s) # 0 => /\ LastSegment(s) \in DOMAIN manifest.segments
                                  /\ After(s) = manifest.segments[LastSegment(s)]
         /\ LastSegment(s) = 0 => After(s) = [event |-> 0, att |-> 0]
         /\ After(s).event \in Nat /\ After(s).att \in Nat
<1> DEFINE K == manifest.segs[s]
           L == LastSegment(s)
           Seg == [event : {0} \cup RowIds, att : {0} \cup AttIds]
<1>1. /\ K \subseteq 1..Count /\ Count \in Nat /\ DOMAIN manifest.segments = 1..Count
      /\ manifest.segments \in Seq(Seg)
  BY Lengths DEF TypeOK
<1>2. K \subseteq 0..Count
  BY <1>1
<1>3. L \in K \cup {0} /\ \A k \in K : k <= L
  BY <1>1, <1>2, MaxIdIs DEF LastSegment
<1>4. \A k \in K : L # 0
  BY <1>1, <1>3
<1>5. CASE L = 0
  <2>1. After(s) = [event |-> 0, att |-> 0]
    BY <1>5 DEF After
  <2> QED BY <1>3, <1>4, <1>5, <2>1
<1>6. CASE L # 0
  <2>1. After(s) = manifest.segments[L] /\ L \in 1..Count
    BY <1>1, <1>3, <1>6 DEF After
  <2> HIDE DEF L, Seg
  <2>2. manifest.segments[L] \in Seg
    BY <1>1, <2>1
  <2>3. After(s).event \in Nat /\ After(s).att \in Nat
    BY <2>1, <2>2 DEF Seg, RowIds, AttIds
  <2> QED BY <1>1, <1>3, <1>4, <1>6, <2>1, <2>3 DEF L
<1> QED BY <1>5, <1>6

LEMMA AfterBounded ==
  ASSUME TypeOK, FilesInv, NEW s \in Samples
  PROVE  After(s).event <= Len(rows) /\ After(s).att <= Len(atts)
<1>1. CASE LastSegment(s) = 0
  BY <1>1, AfterIs, Lengths
<1>2. CASE LastSegment(s) # 0
  BY <1>2, AfterIs DEF FilesInv
<1> QED BY <1>1, <1>2

LEMMA GrowsKeeps ==
  ASSUME Inv, Grows, Write, TypeOK'
  PROVE  FilesInv' /\ StoreInv' /\ SeenInv' /\ ReadInv'
<1> USE DEF storeVars, viewerVars
<1>0. /\ TypeOK /\ FilesInv /\ StoreInv /\ SeenInv /\ ReadInv
      /\ UNCHANGED <<finished, manifest, files, viewer, seen, chosen, shown, known>>
      /\ ~finished /\ pc' \in {"idle", "sync"} /\ (pc' = "sync" => Count < MaxSegments)
  BY DEF Inv, Write, Count
<1>l. /\ Len(rows) \in Nat /\ DOMAIN rows = 1..Len(rows)
      /\ Len(atts) \in Nat /\ DOMAIN atts = 1..Len(atts)
      /\ Len(rows') \in Nat /\ Len(atts') \in Nat
  <2>1. Len(rows') \in Nat /\ Len(atts') \in Nat
    BY DEF TypeOK
  <2> QED BY <1>0, <2>1, Lengths
<1>a. \A s \in Samples : Attachments(s) \subseteq DOMAIN atts /\ Rows(s) \subseteq DOMAIN rows
  BY <1>0 DEF Attachments, Rows, TypeOK
<1>t. \A k \in DOMAIN manifest.segments :
        manifest.segments[k].event \in Nat /\ manifest.segments[k].att \in Nat
  <2> DEFINE Seg == [event : {0} \cup RowIds, att : {0} \cup AttIds]
  <2>1. manifest.segments \in Seq(Seg)
    BY <1>0 DEF TypeOK
  <2> HIDE DEF Seg
  <2>2. \A k \in DOMAIN manifest.segments : manifest.segments[k] \in Seg
    BY <2>1
  <2> QED BY <2>2 DEF Seg, RowIds, AttIds
<1>1. FilesInv'
  <2>1. \A k \in DOMAIN manifest.segments :
          manifest.segments[k].event <= Len(rows') /\ manifest.segments[k].att <= Len(atts')
    BY <1>0, <1>l, <1>t DEF FilesInv, Grows
  <2>2. \A k \in Segments, s \in Samples :
         /\ \A i \in files[k][s].events : i \in DOMAIN rows' /\ rows'[i].sample = s
         /\ files[k][s].atts \subseteq Attachments(s)'
    BY <1>0 DEF FilesInv, Grows
  <2> QED BY <1>0, <2>1, <2>2 DEF FilesInv, Count
<1>2. ASSUME NEW s \in Samples PROVE SkipInv(s)' /\ \A k \in manifest'.segs[s] : SegmentInv(s, k)'
  <2>1. /\ \A i : EventOut(s, i)' = EventOut(s, i)
        /\ \A a : AttOut(s, a)' = AttOut(s, a)
        /\ After(s)' = After(s)
    BY <1>0 DEF EventOut, AttOut, After, LastSegment
  <2>2. SkipInv(s)'
    <3>1. /\ After(s).event <= Len(rows) /\ After(s).att <= Len(atts)
          /\ After(s).event \in Nat /\ After(s).att \in Nat
      BY <1>0, AfterBounded, AfterIs
    <3>2. \A i \in Rows(s)' : i <= After(s).event => i \in Rows(s)
      BY <1>l, <3>1 DEF Grows, Rows, TypeOK
    <3>3. \A a \in Attachments(s)' : a <= After(s).att => a \in Attachments(s)
      BY <1>l, <3>1, SMTT(30) DEF Grows, Attachments, TypeOK
    <3> QED BY <1>0, <2>1, <3>2, <3>3 DEF SkipInv, StoreInv
  <2>3. ASSUME NEW k \in manifest.segs[s] PROVE SegmentInv(s, k)'
    <3>0. k \in Segments /\ SegmentInv(s, k)
      <4>1. k \in DOMAIN manifest.segments
        BY <1>0 DEF TypeOK
      <4>2. DOMAIN manifest.segments \subseteq Segments
        BY <1>0, SegmentIds DEF FilesInv
      <4> QED BY <1>0, <4>1, <4>2 DEF StoreInv
    <3>1. /\ \A m \in files[k][s].events : m \in DOMAIN rows
          /\ \A b \in files[k][s].atts : b \in DOMAIN atts
      BY <1>0, <1>a, <3>0 DEF FilesInv
    <3>2. \A m \in files[k][s].events : \A i \in Rows(s)' : i <= m => i \in Rows(s)
      BY <1>l, <3>1, SMTT(30) DEF Grows, Rows, TypeOK
    <3>3. \A b \in files[k][s].atts : \A a \in Attachments(s)' : a <= b => a \in Attachments(s)
      BY <1>l, <3>1 DEF Grows, Attachments, TypeOK
    <3>4. \A i \in files[k][s].events : rows'[i].hash # NoHash =>
            \E a \in Attachments(s)' : /\ atts'[a].hash = rows'[i].hash
                                       /\ a \in files[k][s].atts \/ AttOut(s, a)
      BY <1>a, <3>0, <3>1 DEF SegmentInv, Grows
    <3> QED BY <1>0, <2>1, <3>0, <3>2, <3>3, <3>4 DEF SegmentInv
  <2> QED BY <1>0, <2>2, <2>3
<1>3. SeenInv'
  <2>1. /\ seen.event <= Len(rows) /\ seen.event \in Int
        /\ seen.att <= Len(atts) /\ seen.att \in Int
    BY <1>0 DEF SeenInv, TypeOK, RowIds, AttIds, KNoId
  <2>2. \A e \in Events : shown[e] # 0 => shown[e] \in DOMAIN rows
    BY <1>0 DEF SeenInv
  <2>3. /\ seen'.event <= Len(rows') /\ seen'.att <= Len(atts')
        /\ \A e \in Events : shown'[e] # 0 => shown'[e] \in DOMAIN rows'
    BY <1>0, <1>l, <2>1, <2>2 DEF Grows
  <2>4. NoGap'
    <3>0. Watched \in Samples /\ Rows(Watched)' \subseteq DOMAIN rows' /\ DOMAIN rows' \subseteq Nat
      BY BufferSyncAssumption DEF TypeOK, Rows
    <3>1. \A i \in Rows(Watched)' : i <= seen.event => i \in Rows(Watched) /\ rows'[i] = rows[i]
      BY <1>a, <1>l, <2>1, <3>0 DEF Grows
    <3> QED BY <1>0, <3>1 DEF NoGap, SeenInv
  <2>5. Resolved'
    BY <1>0, <2>2 DEF Resolved, SeenInv, Grows
  <2>6. KnownInv'
    <3>0. Watched \in Samples /\ Attachments(Watched)' \subseteq Nat
      BY <1>l, BufferSyncAssumption DEF TypeOK, Attachments
    <3>1. \A a \in Attachments(Watched)' : a \in Attachments(Watched) \/ a > Len(atts)
      BY <3>0 DEF Grows
    <3>2. \A a \in Attachments(Watched)' : a <= seen.att => a \in Attachments(Watched)
      BY <1>l, <2>1, <3>0, <3>1
    <3>3. \A a \in Attachments(Watched) : atts'[a] = atts[a]
      BY <1>a, <3>0 DEF Grows
    <3> QED BY <1>0, <3>2, <3>3 DEF KnownInv, SeenInv
  <2> QED BY <2>3, <2>4, <2>5, <2>6 DEF SeenInv
<1>4. ReadInv'
  <2>0. Watched \in Samples
    BY BufferSyncAssumption
  <2>1. Received' = Received /\ ReceivedAtts' = ReceivedAtts
    BY <1>0 DEF Received, ReceivedAtts
  <2>2. chosen \subseteq Segments
    BY <1>0 DEF TypeOK
  <2>3. Received \subseteq DOMAIN rows /\ ReceivedAtts \subseteq DOMAIN atts
    BY <1>0, <1>a, <2>0, <2>2 DEF Received, ReceivedAtts, FilesInv
  <2>4. \A m \in Received : \A i \in Rows(Watched)' : i <= m => i \in Rows(Watched)
    BY <1>l, <2>0, <2>3 DEF Grows, Rows, TypeOK
  <2>5. \A b \in ReceivedAtts : \A a \in Attachments(Watched)' : a <= b => a \in Attachments(Watched)
    BY <1>l, <2>0, <2>3 DEF Grows, Attachments, TypeOK
  <2>6. \A i \in Received : rows'[i].hash # NoHash =>
         \E a \in Attachments(Watched)' : /\ atts'[a].hash = rows'[i].hash
                                          /\ a \in ReceivedAtts \/ atts'[a].hash \in known
    BY <1>0, <1>a, <2>0, <2>3 DEF ReadInv, Grows
  <2> QED BY <1>0, <2>1, <2>4, <2>5, <2>6 DEF ReadInv
<1> QED BY <1>1, <1>2, <1>3, <1>4 DEF StoreInv

-----------------------------------------------------------------------------
(* The two writes of a sync *)

Data == [events : SUBSET RowIds, atts : SUBSET AttIds]
Seg == [event : {0} \cup RowIds, att : {0} \cup AttIds]

LEMMA FreshIs ==
  ASSUME TypeOK, NEW s \in Samples
  PROVE  /\ Fresh(s) \in Data /\ NoData \in Data
         /\ \A i : i \in Fresh(s).events <=> i \in Rows(s) /\ i > After(s).event
         /\ \A a : a \in Fresh(s).atts <=> a \in Attachments(s) /\ a > After(s).att
<1>1. Rows(s) \subseteq RowIds /\ Attachments(s) \subseteq AttIds
  <2>1. live \subseteq 1..Len(rows) /\ Len(rows) \in Nat /\ Len(rows) <= MaxRows /\ MaxRows \in Nat
    BY Lengths, BufferSyncAssumption DEF TypeOK
  <2>2. live \subseteq RowIds
    BY <2>1 DEF RowIds
  <2> QED BY <2>2 DEF TypeOK, Rows, Attachments
<1> QED BY <1>1 DEF Fresh, IsAfter, Data, NoData

LEMMA NewSegmentIs ==
  ASSUME TypeOK
  PROVE  /\ NewSegment.event \in 0..Len(rows) /\ NewSegment.att \in 0..Len(atts)
         /\ NewSegment \in Seg
         /\ \A s \in Changed : \A m \in Fresh(s).events : m <= NewSegment.event
<1>0. Len(rows) \in Nat /\ Len(atts) \in Nat /\ Changed \subseteq Samples
  BY Lengths DEF Changed, TypeOK
<1> DEFINE E == UNION {Fresh(s).events : s \in Changed}
           A == {LastByHash(Fresh(s).atts) : s \in Changed}
<1>1. E \in SUBSET (0..Len(rows))
  <2>1. \A s \in Changed : Fresh(s).events \subseteq 1..Len(rows)
    BY <1>0, FreshIs, Lengths DEF Rows, TypeOK
  <2> QED BY <2>1
<1>2. A \in SUBSET (0..Len(atts))
  <2>1. \A s \in Changed : Fresh(s).atts \in SUBSET DOMAIN atts
    BY <1>0, FreshIs DEF Attachments
  <2>2. \A s \in Changed : LastByHash(Fresh(s).atts) \in Fresh(s).atts \cup {0}
    BY <2>1, LastByHashIs
  <2>3. \A s \in Changed : LastByHash(Fresh(s).atts) \in 0..Len(atts)
    BY <1>0, <2>1, <2>2, Lengths
  <2> QED BY <2>3
<1>3. \A s \in Changed : Fresh(s).events \subseteq E
  OBVIOUS
<1>4. NewSegment = [event |-> MaxId(E), att |-> MaxId(A)]
  BY DEF NewSegment
<1> HIDE DEF E, A
<1>5. MaxId(E) \in 0..Len(rows) /\ \A x \in E : x <= MaxId(E)
  BY <1>0, <1>1, MaxIdIs
<1>6. MaxId(A) \in 0..Len(atts)
  BY <1>0, <1>2, MaxIdIs
<1>7. 0..Len(rows) \subseteq {0} \cup RowIds /\ 0..Len(atts) \subseteq {0} \cup AttIds
  <2>1. Len(rows) <= MaxRows /\ MaxRows \in Nat /\ 1..Len(atts) \subseteq AttIds
    BY Lengths, BufferSyncAssumption DEF TypeOK
  <2> QED BY <1>0, <2>1 DEF RowIds
<1> QED BY <1>3, <1>4, <1>5, <1>6, <1>7 DEF Seg

(* The segments do not change, where the readers look for them. *)
LEMMA SegmentStep ==
  ASSUME Inv, SyncSegment
  PROVE  TypeOK' /\ FilesInv' /\ StoreInv' /\ ReadInv'
<1> USE DEF dbVars, viewerVars
<1>0. /\ TypeOK /\ FilesInv /\ StoreInv /\ ReadInv
      /\ UNCHANGED <<situation, buffered, rows, live, atts, retries, logVars, finished, manifest,
                     viewer, seen, chosen, shown, known>>
      /\ pc = "sync" /\ Changed # {} /\ pc' = "manifest"
      /\ files' = [files EXCEPT ![Count + 1] =
           [s \in Samples |-> IF s \in Changed THEN Fresh(s) ELSE NoData]]
  BY DEF Inv, SyncSegment, NextSegment, Count
<1>1. /\ Count < MaxSegments /\ ~finished /\ Count' = Count
      /\ Count + 1 \in Segments /\ Count + 1 \notin DOMAIN manifest.segments
      /\ DOMAIN manifest.segments \subseteq Segments
  BY <1>0, Lengths, SegmentIds, BufferSyncAssumption DEF FilesInv, Count, Segments
<1>2. /\ \A s \in Samples : Fresh(s)' = Fresh(s) /\ Rows(s)' = Rows(s) /\ Attachments(s)' = Attachments(s)
      /\ Changed \subseteq Samples
  BY <1>0 DEF Fresh, Rows, Attachments, After, LastSegment, Changed, TypeOK
<1>3. Changed' = Changed
  BY <1>0, <1>2 DEF Changed, TypeOK
<1> DEFINE new == [s \in Samples |-> IF s \in Changed THEN Fresh(s) ELSE NoData]
<1>4. new \in [Samples -> Data]
  BY <1>0, FreshIs
<1>5. TypeOK'
  <2>1. files' \in [Segments -> [Samples -> Data]]
    BY <1>0, <1>1, <1>4 DEF TypeOK, Data
  <2> QED BY <1>0, <2>1 DEF TypeOK, LogTypeOK, logVars, Data
<1>6. /\ files'[Count + 1] = new
      /\ \A k \in Segments : k # Count + 1 => files'[k] = files[k]
  BY <1>0, <1>1 DEF TypeOK
<1>7. \A k \in DOMAIN manifest.segments : files'[k] = files[k]
  BY <1>1, <1>6
<1>8. FilesInv'
  <2>1. \A s \in Samples : /\ \A i \in new[s].events : i \in DOMAIN rows /\ rows[i].sample = s
                           /\ new[s].atts \subseteq Attachments(s)
    BY <1>0, FreshIs DEF Rows, NoData, TypeOK
  <2>2. \A k \in Segments, s \in Samples :
         /\ \A i \in files'[k][s].events : i \in DOMAIN rows /\ rows[i].sample = s
         /\ files'[k][s].atts \subseteq Attachments(s)
    BY <1>0, <1>6, <2>1 DEF FilesInv
  <2>3. [s \in Samples |-> IF s \in Changed' THEN Fresh(s)' ELSE NoData] = new
    BY <1>2, <1>3
  <2> QED BY <1>0, <1>1, <1>2, <1>3, <1>6, <2>2, <2>3 DEF FilesInv
<1>9. StoreInv'
  <2>1. \A s \in Samples : \A k \in manifest.segs[s] : files'[k] = files[k]
    BY <1>0, <1>7 DEF TypeOK
  <2>2. ASSUME NEW s \in Samples
        PROVE  SkipInv(s)' /\ \A k \in manifest.segs[s] : SegmentInv(s, k)'
    <3>1. /\ \A i : EventOut(s, i)' = EventOut(s, i)
          /\ \A a : AttOut(s, a)' = AttOut(s, a)
          /\ After(s)' = After(s)
      BY <1>0, <2>1 DEF EventOut, AttOut, After, LastSegment
    <3>2. SkipInv(s)'
      BY <1>0, <1>2, <3>1 DEF StoreInv, SkipInv
    <3>3. ASSUME NEW k \in manifest.segs[s] PROVE SegmentInv(s, k)'
      <4>1. SegmentInv(s, k) /\ files'[k] = files[k]
        BY <1>0, <2>1 DEF StoreInv
      <4> QED BY <1>0, <1>2, <3>1, <4>1 DEF SegmentInv
    <3> QED BY <3>2, <3>3
  <2> QED BY <1>0, <2>2 DEF StoreInv
<1>10. ReadInv'
  <2>1. \A k \in chosen : files'[k] = files[k]
    BY <1>0, <1>1, <1>7 DEF ReadInv
  <2>2. Received' = Received /\ ReceivedAtts' = ReceivedAtts
    BY <1>0, <2>1 DEF Received, ReceivedAtts
  <2>3. Watched \in Samples
    BY BufferSyncAssumption
  <2> QED BY <1>0, <1>2, <2>1, <2>2, <2>3 DEF ReadInv
<1> QED BY <1>5, <1>8, <1>9, <1>10

(* With the new manifest the segments hold all that the database holds. *)
LEMMA ManifestFacts ==
  ASSUME Inv, SyncManifest, NEW s \in Samples
  PROVE  /\ TypeOK' /\ UNCHANGED <<files, rows, live, atts, finished>> /\ ~finished /\ pc' = "idle"
         /\ manifest'.listed = buffered
         /\ \A k \in DOMAIN manifest.segments :
              k \in DOMAIN manifest'.segments /\ manifest'.segments[k] = manifest.segments[k]
         /\ \A k \in DOMAIN manifest'.segments :
              \/ k \in DOMAIN manifest.segments
              \/ Changed # {} /\ k = Count + 1 /\ manifest'.segments[k] = NewSegment
         /\ Count' <= MaxSegments
         /\ s \notin buffered => manifest'.segs[s] = {}
         /\ s \in buffered /\ s \notin Changed =>
              manifest'.segs[s] = manifest.segs[s] /\ Fresh(s) = NoData
         /\ s \in Changed =>
              /\ manifest'.segs[s] = manifest.segs[s] \cup {Count + 1} /\ s \in buffered
              /\ files[Count + 1][s] = Fresh(s) /\ Fresh(s) # NoData
              /\ manifest'.segments[Count + 1] = NewSegment
<1> USE DEF dbVars, viewerVars
<1>0. /\ TypeOK /\ FilesInv
      /\ UNCHANGED <<situation, buffered, rows, live, atts, retries, logVars, finished, files,
                     viewer, seen, chosen, shown, known>>
      /\ pc # "idle" /\ pc' = "idle" /\ manifest' = NewManifest
      /\ Changed # {} => pc = "manifest"
  BY DEF Inv, SyncManifest
<1>1. /\ Changed \subseteq buffered /\ buffered \subseteq Samples
      /\ \A q \in buffered : q \notin Changed <=> Fresh(q) = NoData
  BY <1>0 DEF Changed, TypeOK
<1>2. /\ Changed # {} => /\ Count < MaxSegments
                         /\ \A q \in Changed : files[Count + 1][q] = Fresh(q)
      /\ ~finished
  BY <1>0, <1>1 DEF FilesInv
<1>3. /\ manifest'.listed = buffered
      /\ manifest'.segs = [q \in Samples |->
            IF q \notin buffered THEN {}
            ELSE manifest.segs[q] \cup (IF q \in Changed THEN {Count + 1} ELSE {})]
      /\ manifest'.segments =
            IF Changed = {} THEN manifest.segments ELSE Append(manifest.segments, NewSegment)
  BY <1>0 DEF NewManifest, NextSegment, Count
<1>4. /\ manifest.segments \in Seq(Seg) /\ NewSegment \in Seg
      /\ Count \in Nat /\ DOMAIN manifest.segments = 1..Count /\ Count <= MaxSegments
      /\ MaxSegments \in Nat
  BY <1>0, Lengths, NewSegmentIs, BufferSyncAssumption DEF TypeOK, Seg, FilesInv
<1>5. /\ manifest'.segments \in Seq(Seg)
      /\ Changed = {} => manifest'.segments = manifest.segments
      /\ Changed # {} => /\ DOMAIN manifest'.segments = 1..Count + 1
                         /\ \A k \in 1..Count : manifest'.segments[k] = manifest.segments[k]
                         /\ manifest'.segments[Count + 1] = NewSegment
                         /\ Len(manifest'.segments) = Count + 1
  BY <1>3, <1>4, AppendItems DEF Count
<1>6. TypeOK'
  <2>1. manifest'.segs \in [Samples -> SUBSET (DOMAIN manifest'.segments)]
    <3>1. \A q \in Samples : manifest.segs[q] \subseteq DOMAIN manifest.segments
      BY <1>0 DEF TypeOK
    <3>2. DOMAIN manifest.segments \subseteq DOMAIN manifest'.segments
      BY <1>4, <1>5
    <3>3. Changed # {} => Count + 1 \in DOMAIN manifest'.segments
      BY <1>4, <1>5
    <3> QED BY <1>3, <3>1, <3>2, <3>3
  <2>2. \A q \in Samples \ buffered : manifest'.segs[q] = {}
    BY <1>3
  <2> QED BY <1>0, <1>1, <1>3, <1>5, <2>1, <2>2 DEF TypeOK, LogTypeOK, logVars, Seg
<1>7. Count' <= MaxSegments
  BY <1>2, <1>4, <1>5 DEF Count
<1>8. \A k \in DOMAIN manifest.segments :
        k \in DOMAIN manifest'.segments /\ manifest'.segments[k] = manifest.segments[k]
  BY <1>4, <1>5
<1>9. \A k \in DOMAIN manifest'.segments :
        \/ k \in DOMAIN manifest.segments
        \/ Changed # {} /\ k = Count + 1 /\ manifest'.segments[k] = NewSegment
  <2>1. CASE Changed = {}
    BY <1>5, <2>1
  <2>2. CASE Changed # {}
    <3>1. \A k \in 1..Count + 1 : k \in 1..Count \/ k = Count + 1
      BY <1>4
    <3>2. DOMAIN manifest'.segments = 1..Count + 1 /\ DOMAIN manifest.segments = 1..Count
      BY <1>4, <1>5, <2>2
    <3>3. manifest'.segments[Count + 1] = NewSegment
      BY <1>5, <2>2
    <3> QED BY <2>2, <3>1, <3>2, <3>3
  <2> QED BY <2>1, <2>2
<1>10. /\ s \notin buffered => manifest'.segs[s] = {}
       /\ s \in buffered /\ s \notin Changed => manifest'.segs[s] = manifest.segs[s]
       /\ s \in Changed => manifest'.segs[s] = manifest.segs[s] \cup {Count + 1} /\ s \in buffered
  BY <1>1, <1>3
<1>11. s \in Changed => /\ files[Count + 1][s] = Fresh(s) /\ Fresh(s) # NoData
                        /\ manifest'.segments[Count + 1] = NewSegment
  <2>1. s \in Changed => Changed # {} /\ s \in buffered
    BY <1>1
  <2>2. s \in Changed => Fresh(s) # NoData
    BY <1>1
  <2>3. s \in Changed => files[Count + 1][s] = Fresh(s)
    BY <1>2, <2>1
  <2>4. s \in Changed => manifest'.segments[Count + 1] = NewSegment
    BY <1>5, <2>1
  <2> QED BY <2>2, <2>3, <2>4
<1> QED BY <1>0, <1>1, <1>2, <1>3, <1>6, <1>7, <1>8, <1>9, <1>10, <1>11

LEMMA ManifestOut ==
  ASSUME Inv, SyncManifest, NEW s \in Samples
  PROVE  /\ \A i : EventOut(s, i)' <=> s \in buffered /\ (EventOut(s, i) \/ i \in Fresh(s).events)
         /\ \A a : s \in buffered /\ AttOut(s, a) => AttOut(s, a)'
         /\ s \in Changed => \A a \in Fresh(s).atts : a <= NewSegment.att => AttOut(s, a)'
         /\ s \in buffered => \A i \in Rows(s) : EventOut(s, i)'
<1>1. /\ TypeOK /\ SkipInv(s) /\ UNCHANGED files
      /\ manifest.segs[s] \subseteq DOMAIN manifest.segments
  BY ManifestFacts DEF Inv, StoreInv, TypeOK
<1>2. \A k \in manifest.segs[s] : manifest'.segments[k] = manifest.segments[k]
  BY <1>1, ManifestFacts
<1>3. Changed \subseteq buffered
  BY DEF Changed
<1>4. CASE s \notin buffered
  BY <1>3, <1>4, ManifestFacts DEF EventOut
<1>5. CASE s \in buffered /\ s \notin Changed
  <2>1. manifest'.segs[s] = manifest.segs[s] /\ Fresh(s) = NoData
    BY <1>5, ManifestFacts
  <2>2. Fresh(s).events = {}
    BY <2>1 DEF NoData
  <2>3. \A i : EventOut(s, i)' <=> EventOut(s, i)
    BY <1>1, <2>1 DEF EventOut
  <2>4. \A a : AttOut(s, a)' <=> AttOut(s, a)
    BY <1>1, <1>2, <2>1 DEF AttOut
  <2>5. \A i \in Rows(s) : i <= After(s).event
    <3>1. \A i \in Rows(s) : i \in Nat
      BY <1>1, Lengths, SMTT(30) DEF Rows, TypeOK
    <3>2. \A i \in Rows(s) : ~(i > After(s).event)
      BY <1>1, <2>2, FreshIs
    <3> QED BY <1>1, <3>1, <3>2, AfterIs
  <2> QED BY <1>1, <1>5, <2>2, <2>3, <2>4, <2>5 DEF SkipInv
<1>6. CASE s \in Changed
  <2>1. /\ manifest'.segs[s] = manifest.segs[s] \cup {Count + 1}
        /\ files[Count + 1][s] = Fresh(s)
        /\ manifest'.segments[Count + 1] = NewSegment
    BY <1>6, ManifestFacts
  <2>2. \A i : EventOut(s, i)' <=> EventOut(s, i) \/ i \in Fresh(s).events
    BY <1>1, <2>1 DEF EventOut
  <2>3. \A a : AttOut(s, a) => AttOut(s, a)'
    BY <1>1, <1>2, <2>1 DEF AttOut
  <2>4. \A a \in Fresh(s).atts : a <= NewSegment.att => AttOut(s, a)'
    BY <1>1, <2>1 DEF AttOut
  <2>5. \A i \in Rows(s) : i <= After(s).event \/ i > After(s).event
    BY <1>1, AfterIs, SMTT(30) DEF Rows, TypeOK
  <2> QED BY <1>1, <1>3, <1>6, <2>2, <2>3, <2>4, <2>5, FreshIs DEF SkipInv
<1> QED BY <1>3, <1>4, <1>5, <1>6

LEMMA ManifestStep ==
  ASSUME Inv, SyncManifest
  PROVE  TypeOK' /\ FilesInv' /\ StoreInv' /\ ReadInv'
<1> USE DEF dbVars, viewerVars
<1>w. Watched \in Samples
  BY BufferSyncAssumption
<1>0. /\ TypeOK /\ DbInv /\ FilesInv /\ StoreInv /\ ReadInv
      /\ UNCHANGED <<buffered, rows, live, atts, finished, files, viewer, seen, chosen, shown, known>>
  BY DEF Inv, SyncManifest
<1>1. TypeOK' /\ ~finished /\ pc' = "idle" /\ Count' <= MaxSegments
  BY <1>w, ManifestFacts
<1>2. \A s \in Samples : Rows(s)' = Rows(s) /\ Attachments(s)' = Attachments(s)
  BY <1>0 DEF Rows, Attachments
<1>3. FilesInv'
  <2>1. \A k \in DOMAIN manifest'.segments :
          manifest'.segments[k].event <= Len(rows) /\ manifest'.segments[k].att <= Len(atts)
    <3>1. NewSegment.event <= Len(rows) /\ NewSegment.att <= Len(atts)
      BY <1>0, NewSegmentIs, Lengths
    <3> QED BY <1>0, <1>w, <3>1, ManifestFacts DEF FilesInv
  <2> QED BY <1>0, <1>1, <1>2, <2>1 DEF FilesInv
<1>4. ReadInv'
  <2>1. Received' = Received /\ ReceivedAtts' = ReceivedAtts
    BY <1>0 DEF Received, ReceivedAtts
  <2>2. chosen \subseteq DOMAIN manifest'.segments
    BY <1>0, <1>1, <1>w, ManifestFacts DEF ReadInv
  <2> QED BY <1>0, <1>2, <1>w, <2>1, <2>2 DEF ReadInv
<1>5. ASSUME NEW s \in Samples PROVE SkipInv(s)' /\ \A k \in manifest'.segs[s] : SegmentInv(s, k)'
  <2>0. /\ SkipInv(s) /\ manifest.segs[s] \subseteq DOMAIN manifest.segments
        /\ \A k \in manifest.segs[s] : SegmentInv(s, k) /\ manifest'.segments[k] = manifest.segments[k]
    BY <1>0, ManifestFacts DEF StoreInv, TypeOK
  <2>1. /\ Rows(s) \subseteq Nat \ {0} /\ Attachments(s) \subseteq Nat \ {0}
        /\ \A i \in Rows(s) : rows[i].sample = s
    BY <1>0, Lengths DEF Rows, Attachments, TypeOK
  <2>2. CASE s \notin buffered
    <3>1. manifest'.segs[s] = {} /\ MaxId({}) = 0
      BY <2>2, ManifestFacts, MaxIdIs
    <3>2. After(s)' = [event |-> 0, att |-> 0]
      BY <3>1 DEF After, LastSegment
    <3>3. SkipInv(s)'
      BY <1>2, <2>1, <3>2 DEF SkipInv
    <3> QED BY <3>1, <3>3
  <2>3. CASE s \in buffered /\ s \notin Changed
    <3>1. manifest'.segs[s] = manifest.segs[s]
      BY <2>3, ManifestFacts
    <3>2. LastSegment(s)' = LastSegment(s)
      BY <3>1 DEF LastSegment
    <3>3. After(s)' = After(s)
      BY <1>0, <2>0, <3>2, AfterIs DEF After
    <3>4. /\ \A i : EventOut(s, i)' <=> EventOut(s, i)
          /\ \A a : AttOut(s, a)' <=> AttOut(s, a)
      BY <1>0, <2>0, <3>1 DEF EventOut, AttOut
    <3>5. SkipInv(s)'
      BY <1>2, <2>0, <3>3, <3>4 DEF SkipInv
    <3>6. \A k \in manifest.segs[s] : SegmentInv(s, k)'
      <4> SUFFICES ASSUME NEW k \in manifest.segs[s] PROVE SegmentInv(s, k)'
        OBVIOUS
      <4> QED BY <1>0, <1>2, <2>0, <3>4 DEF SegmentInv
    <3> QED BY <3>1, <3>5, <3>6
  <2>4. CASE s \in Changed
    <3>1. /\ manifest'.segs[s] = manifest.segs[s] \cup {Count + 1}
          /\ files[Count + 1][s] = Fresh(s) /\ Fresh(s) # NoData /\ s \in buffered
          /\ manifest'.segments[Count + 1] = NewSegment
      BY <2>4, ManifestFacts
    <3>2. After(s)' = NewSegment
      <4>1. Count \in Nat /\ manifest.segs[s] \subseteq 1..Count
        BY <1>0, <2>0, Lengths
      <4>2. manifest'.segs[s] \subseteq 0..(Count + 1) /\ Count + 1 \in manifest'.segs[s]
        BY <3>1, <4>1
      <4>3. /\ MaxId(manifest'.segs[s]) \in 0..(Count + 1)
            /\ Count + 1 <= MaxId(manifest'.segs[s])
        BY <4>1, <4>2, MaxIdIs
      <4>4. LastSegment(s)' = Count + 1 /\ Count + 1 # 0
        BY <4>1, <4>3 DEF LastSegment
      <4> QED BY <3>1, <4>4 DEF After
    <3>3. /\ \A i \in Rows(s) : EventOut(s, i)'
          /\ \A a : AttOut(s, a) => AttOut(s, a)'
          /\ \A a \in Fresh(s).atts : a <= NewSegment.att => AttOut(s, a)'
      BY <2>4, <3>1, ManifestOut
    <3>4. /\ After(s).att \in Nat
          /\ \A a \in Attachments(s) : a \in Fresh(s).atts \/ AttOut(s, a)
      <4>1. \A a \in Attachments(s) : a \in Nat
        BY <2>1
      <4> QED BY <1>0, <2>0, <4>1, AfterIs, FreshIs DEF SkipInv
    <3>5. SkipInv(s)'
      BY <1>2, <3>2, <3>3, <3>4 DEF SkipInv
    <3>6. ASSUME NEW k \in {Count + 1} PROVE SegmentInv(s, k)'
      <4>1. \A m \in Fresh(s).events : m <= NewSegment.event /\ m \in Rows(s)
        BY <1>0, <2>4, NewSegmentIs, FreshIs
      <4>2. \A i \in Fresh(s).events : rows[i].hash # NoHash =>
              \E a \in Attachments(s) : atts[a].hash = rows[i].hash
        BY <1>0, <2>1, <4>1, Lengths DEF DbInv, HasAtt, Rows, TypeOK
      <4> QED BY <1>0, <1>2, <3>1, <3>3, <3>4, <4>1, <4>2 DEF SegmentInv
    <3>7. \A k \in manifest.segs[s] : SegmentInv(s, k)'
      <4> SUFFICES ASSUME NEW k \in manifest.segs[s] PROVE SegmentInv(s, k)'
        OBVIOUS
      <4> QED BY <1>0, <1>2, <2>0, <3>3 DEF SegmentInv
    <3> QED BY <3>1, <3>5, <3>6, <3>7
  <2> QED BY <2>2, <2>3, <2>4 DEF Changed
<1> QED BY <1>1, <1>3, <1>4, <1>5 DEF StoreInv

LEMMA FinishStep ==
  ASSUME Inv, FinishLog
  PROVE  TypeOK' /\ FilesInv' /\ StoreInv' /\ ReadInv'
<1> USE DEF viewerVars
<1>0. /\ TypeOK /\ FilesInv /\ ReadInv
      /\ UNCHANGED <<situation, buffered, retries, rows, live, atts, pc>>
      /\ UNCHANGED <<viewer, seen, chosen, shown, known>>
      /\ pc = "idle" /\ finished' = TRUE /\ manifest' = NoManifest /\ files' = NoFiles
      /\ UNCHANGED <<logged, pending, due, flushing, late>> /\ zip' = logged /\ inFile' = logged
  BY DEF Inv, FinishLog, dbVars
<1>1. /\ manifest'.listed = {} /\ manifest'.segs = [s \in Samples |-> {}]
      /\ manifest'.segments = <<>> /\ DOMAIN manifest'.segments = {} /\ Count' = 0
  BY <1>0 DEF NoManifest, Count
<1>2. \A k \in Segments, s \in Samples : files'[k][s].events = {} /\ files'[k][s].atts = {}
  BY <1>0 DEF NoFiles, NoData
<1>3. TypeOK'
  <2>1. files' \in [Segments -> [Samples -> [events : SUBSET RowIds, atts : SUBSET AttIds]]]
    BY <1>0 DEF NoFiles, NoData
  <2>2. /\ manifest'.segs \in [Samples -> SUBSET (DOMAIN manifest'.segments)]
        /\ manifest'.segments \in Seq([event : {0} \cup RowIds, att : {0} \cup AttIds])
        /\ \A s \in Samples : manifest'.segs[s] = {}
    BY <1>1
  <2>3. LogTypeOK'
    BY <1>0 DEF TypeOK, LogTypeOK
  <2> QED BY <1>0, <1>1, <2>1, <2>2, <2>3 DEF TypeOK
<1>4. FilesInv'
  BY <1>0, <1>1, <1>2, BufferSyncAssumption DEF FilesInv
<1>5. ASSUME NEW s \in Samples PROVE SkipInv(s)' /\ manifest'.segs[s] = {}
  <2>1. manifest'.segs[s] = {} /\ MaxId({}) = 0
    BY <1>1, MaxIdIs
  <2>2. After(s)' = [event |-> 0, att |-> 0]
    BY <2>1 DEF After, LastSegment
  <2>3. Rows(s)' \subseteq Nat \ {0} /\ Attachments(s)' \subseteq Nat \ {0}
    BY <1>0, Lengths, SMTT(30) DEF Rows, Attachments, TypeOK
  <2> QED BY <2>1, <2>2, <2>3 DEF SkipInv
<1>6. Received' = {} /\ ReceivedAtts' = {}
  BY <1>0, <1>2, BufferSyncAssumption DEF Received, ReceivedAtts, TypeOK
<1>7. ReadInv'
  BY <1>0, <1>6 DEF ReadInv
<1> QED BY <1>3, <1>4, <1>5, <1>7 DEF StoreInv

-----------------------------------------------------------------------------
(* The viewer *)

(* Steps that leave the database and the filestore as they are *)
LEMMA ViewerKeeps ==
  ASSUME Inv, UNCHANGED <<dbVars, finished, pc, storeVars>>
  PROVE  DbInv' /\ FilesInv' /\ StoreInv'
<1> USE DEF dbVars, storeVars
<1>1. \A s \in Samples : /\ Rows(s)' = Rows(s) /\ Attachments(s)' = Attachments(s)
                         /\ Fresh(s)' = Fresh(s) /\ After(s)' = After(s)
  BY DEF Rows, Attachments, Fresh, After, LastSegment
<1>2. Changed' = Changed /\ Count' = Count
  BY DEF Changed, Count, Fresh, Rows, Attachments, After, LastSegment
<1>3. DbInv'
  BY DEF Inv, DbInv, HasAtt, Attachments
<1>4. FilesInv'
  BY <1>1, <1>2 DEF Inv, FilesInv
<1>5. ASSUME NEW s \in Samples PROVE SkipInv(s)' /\ \A k \in manifest.segs[s] : SegmentInv(s, k)'
  <2>1. /\ \A i : EventOut(s, i)' = EventOut(s, i)
        /\ \A a : AttOut(s, a)' = AttOut(s, a)
    BY DEF EventOut, AttOut
  <2> QED BY <1>1, <2>1 DEF Inv, StoreInv, SkipInv, SegmentInv
<1> QED BY <1>3, <1>4, <1>5 DEF StoreInv

LEMMA ReceivedIs ==
  ASSUME Inv
  PROVE  /\ Received \subseteq DOMAIN rows /\ Received \subseteq RowIds
         /\ \A i \in Received : rows[i].sample = Watched
         /\ ReceivedAtts \subseteq Attachments(Watched) /\ ReceivedAtts \subseteq AttIds
<1>1. TypeOK /\ FilesInv /\ chosen \subseteq Segments /\ Watched \in Samples
  BY BufferSyncAssumption DEF Inv, TypeOK
<1>2. DOMAIN rows \subseteq RowIds /\ DOMAIN atts \subseteq AttIds
  <2>1. Len(rows) <= MaxRows /\ MaxRows \in Nat /\ DOMAIN rows = 1..Len(rows) /\ Len(rows) \in Nat
    BY <1>1, Lengths, BufferSyncAssumption DEF TypeOK
  <2> QED BY <1>1, <2>1 DEF TypeOK, RowIds
<1> QED BY <1>1, <1>2 DEF Received, ReceivedAtts, FilesInv, Attachments

Row == [sample : Samples, event : Events, hash : Hashes \cup {NoHash}]

LEMMA Members ==
  ASSUME TypeOK
  PROVE  /\ \A i \in DOMAIN rows : rows[i] \in Row /\ i \in Nat
         /\ \A a \in DOMAIN atts : atts[a] \in Att /\ a \in Nat
         /\ \A k \in DOMAIN manifest.segments :
              manifest.segments[k].event \in Nat /\ manifest.segments[k].att \in Nat
         /\ seen.event \in {KNoId} \cup RowIds /\ seen.att \in {KNoId} \cup AttIds
         /\ seen.event \in Int /\ seen.att \in Int
<1>1. rows \in Seq(Row) /\ atts \in Seq(Att) /\ manifest.segments \in Seq(Seg)
  BY DEF TypeOK, Row, Att, Seg
<1>2. /\ \A i \in DOMAIN rows : rows[i] \in Row /\ i \in Nat
      /\ \A a \in DOMAIN atts : atts[a] \in Att /\ a \in Nat
  BY <1>1
<1>3. \A k \in DOMAIN manifest.segments : manifest.segments[k] \in Seg
  BY <1>1
<1>4. \A k \in DOMAIN manifest.segments :
        manifest.segments[k].event \in Nat /\ manifest.segments[k].att \in Nat
  BY <1>3 DEF Seg, RowIds, AttIds
<1>5. seen.event \in {KNoId} \cup RowIds /\ seen.att \in {KNoId} \cup AttIds
  BY DEF TypeOK
<1>6. seen.event \in Int /\ seen.att \in Int
  BY <1>5 DEF RowIds, AttIds, KNoId
<1> QED BY <1>2, <1>4, <1>5, <1>6

LEMMA PollStarts ==
  ASSUME Inv, PollManifest
  PROVE  TypeOK' /\ SeenInv' /\ ReadInv'
<1> USE DEF dbVars, storeVars
<1>w. Watched \in Samples
  BY BufferSyncAssumption
<1>0. /\ TypeOK /\ FilesInv /\ StoreInv /\ SeenInv /\ ReadInv
      /\ UNCHANGED <<situation, buffered, rows, live, atts, retries, logVars, finished, pc,
                     manifest, files, seen, shown, known>>
      /\ viewer' = "reading"
      /\ chosen' = {k \in manifest.segs[Watched] : Selects(manifest.segments[k])}
  BY DEF Inv, PollManifest
<1>1. /\ \A k \in manifest.segs[Watched] : SegmentInv(Watched, k) /\ k \in DOMAIN manifest.segments
      /\ DOMAIN manifest.segments \subseteq Segments
  BY <1>0, <1>w, SegmentIds DEF StoreInv, TypeOK, FilesInv
<1>2. chosen' \subseteq DOMAIN manifest.segments /\ chosen' \subseteq Segments
  BY <1>0, <1>1
<1>3. TypeOK'
  BY <1>0, <1>2 DEF TypeOK, LogTypeOK, logVars
<1>4. SeenInv'
  BY <1>0 DEF SeenInv, NoGap, Resolved, KnownInv, Rows, Attachments
<1>5. ASSUME NEW i, EventOut(Watched, i) PROVE i \in Nat /\ (i <= seen.event \/ i \in Received')
  <2>1. PICK k \in manifest.segs[Watched] : i \in files[k][Watched].events
    BY <1>5 DEF EventOut
  <2>2. k \in Segments /\ i \in DOMAIN rows /\ i <= manifest.segments[k].event
    BY <1>0, <1>1, <1>w, <2>1 DEF SegmentInv, FilesInv
  <2>3. manifest.segments[k].event \in Nat /\ seen.event \in Int /\ i \in Nat
    BY <1>0, <1>1, <2>1, <2>2, Members
  <2>4. CASE manifest.segments[k].event > seen.event
    <3>1. k \in chosen'
      BY <1>0, <2>1, <2>4 DEF Selects
    <3> QED BY <1>0, <2>1, <2>3, <3>1 DEF Received
  <2> QED BY <2>2, <2>3, <2>4
<1>6. ASSUME NEW a, AttOut(Watched, a) PROVE a \in Nat /\ (a <= seen.att \/ a \in ReceivedAtts')
  <2>1. PICK k \in manifest.segs[Watched] : a \in files[k][Watched].atts /\ a <= manifest.segments[k].att
    BY <1>6 DEF AttOut
  <2>2. k \in Segments /\ a \in DOMAIN atts
    BY <1>0, <1>1, <1>w, <2>1 DEF FilesInv, Attachments
  <2>3. manifest.segments[k].att \in Nat /\ seen.att \in Int /\ a \in Nat
    BY <1>0, <1>1, <2>1, <2>2, Members
  <2>4. CASE manifest.segments[k].att > seen.att
    <3>1. k \in chosen'
      BY <1>0, <2>1, <2>4 DEF Selects
    <3> QED BY <1>0, <2>1, <2>3, <3>1 DEF ReceivedAtts
  <2> QED BY <2>1, <2>3, <2>4
<1>7. ReadInv'
  <2>1. Rows(Watched)' = Rows(Watched) /\ Attachments(Watched)' = Attachments(Watched)
    BY <1>0 DEF Rows, Attachments
  <2>2. \A k \in chosen' : files[k][Watched] # NoData
    BY <1>0, <1>1 DEF SegmentInv
  <2>3. \A m \in Received' : \A i \in Rows(Watched) : i <= m => i <= seen.event \/ i \in Received'
    <3> SUFFICES ASSUME NEW m \in Received', NEW i \in Rows(Watched), i <= m
                 PROVE  i <= seen.event \/ i \in Received'
      OBVIOUS
    <3>1. PICK k \in chosen' : m \in files[k][Watched].events
      BY <1>0 DEF Received
    <3>2. EventOut(Watched, i)
      BY <1>0, <1>1, <3>1 DEF SegmentInv
    <3> QED BY <1>5, <3>2
  <2>4. \A b \in ReceivedAtts' : \A a \in Attachments(Watched) :
          a <= b => a <= seen.att \/ a \in ReceivedAtts'
    <3> SUFFICES ASSUME NEW b \in ReceivedAtts', NEW a \in Attachments(Watched), a <= b
                 PROVE  a <= seen.att \/ a \in ReceivedAtts'
      OBVIOUS
    <3>1. PICK k \in chosen' : b \in files[k][Watched].atts
      BY <1>0 DEF ReceivedAtts
    <3>2. a \in files[k][Watched].atts \/ AttOut(Watched, a)
      BY <1>0, <1>1, <3>1 DEF SegmentInv
    <3>3. a \in files[k][Watched].atts => a \in ReceivedAtts'
      BY <1>0, <3>1 DEF ReceivedAtts
    <3> QED BY <1>6, <3>2, <3>3
  <2>5. \A i \in Received' : rows[i].hash # NoHash =>
          \E a \in Attachments(Watched) : /\ atts[a].hash = rows[i].hash
                                          /\ a \in ReceivedAtts' \/ atts[a].hash \in known
    <3> SUFFICES ASSUME NEW i \in Received', rows[i].hash # NoHash
                 PROVE  \E a \in Attachments(Watched) :
                          /\ atts[a].hash = rows[i].hash
                          /\ a \in ReceivedAtts' \/ atts[a].hash \in known
      OBVIOUS
    <3>1. PICK k \in chosen' : i \in files[k][Watched].events
      BY <1>0 DEF Received
    <3>2. PICK a \in Attachments(Watched) : /\ atts[a].hash = rows[i].hash
                                            /\ a \in files[k][Watched].atts \/ AttOut(Watched, a)
      BY <1>0, <1>1, <3>1 DEF SegmentInv
    <3>3. a \in files[k][Watched].atts => a \in ReceivedAtts'
      BY <1>0, <3>1 DEF ReceivedAtts
    <3>4. a <= seen.att => atts[a].hash \in known
      BY <1>0 DEF SeenInv, KnownInv
    <3> QED BY <1>6, <3>2, <3>3, <3>4
  <2> QED BY <1>0, <1>2, <2>1, <2>2, <2>3, <2>4, <2>5 DEF ReadInv
<1> QED BY <1>3, <1>4, <1>7

LEMMA PollEnds ==
  ASSUME Inv, PollSegments
  PROVE  TypeOK' /\ SeenInv' /\ ReadInv'
<1> USE DEF dbVars, storeVars
<1>w. Watched \in Samples
  BY BufferSyncAssumption
<1>0. /\ TypeOK /\ SeenInv /\ ReadInv
      /\ UNCHANGED <<situation, buffered, rows, live, atts, retries, logVars, finished, pc,
                     manifest, files>>
      /\ viewer' = "polling" /\ chosen' = {}
      /\ known' = known \cup {atts[i].hash : i \in ReceivedAtts}
      /\ shown' = [e \in Events |->
            IF \E i \in Received : rows[i].event = e
            THEN MaxId({i \in Received : rows[i].event = e}) ELSE shown[e]]
      /\ seen' = [event |-> Max(Received \cup {seen.event}), att |-> Max(ReceivedAtts \cup {seen.att})]
  BY DEF Inv, PollSegments
<1>l. /\ Len(rows) \in Nat /\ DOMAIN rows = 1..Len(rows) /\ Len(atts) \in Nat /\ DOMAIN atts = 1..Len(atts)
      /\ Len(rows) <= MaxRows /\ MaxRows \in Nat
  BY <1>0, Lengths, BufferSyncAssumption DEF TypeOK
<1>r. /\ Received \subseteq 1..Len(rows) /\ Received \subseteq RowIds
      /\ ReceivedAtts \subseteq 1..Len(atts) /\ ReceivedAtts \subseteq AttIds
      /\ ReceivedAtts \subseteq Attachments(Watched)
  BY <1>l, ReceivedIs DEF Attachments
<1>s. /\ seen.event \in {KNoId} \cup RowIds /\ seen.att \in {KNoId} \cup AttIds
      /\ seen.event \in {KNoId} \cup (0..Len(rows)) /\ seen.att \in {KNoId} \cup (0..Len(atts))
  <2>1. /\ seen.event \in {KNoId} \cup RowIds /\ seen.att \in {KNoId} \cup AttIds
        /\ seen.event <= Len(rows) /\ seen.att <= Len(atts)
    BY <1>0, Members DEF SeenInv
  <2>2. RowIds \subseteq Nat /\ AttIds \subseteq Nat
    BY DEF RowIds, AttIds
  <2>3. \A n \in Nat, x \in Nat : x <= n => x \in 0..n
    OBVIOUS
  <2>4. seen.event \in RowIds => seen.event \in 0..Len(rows)
    BY <1>l, <2>1, <2>2, <2>3
  <2>5. seen.att \in AttIds => seen.att \in 0..Len(atts)
    BY <1>l, <2>1, <2>2, <2>3
  <2> QED BY <2>1, <2>4, <2>5
<1>1. /\ seen'.event \in Received \cup {seen.event} /\ seen'.event <= Len(rows)
      /\ seen.event <= seen'.event
  <2>1. Received \in SUBSET (0..Len(rows)) /\ seen'.event = Max(Received \cup {seen.event})
    BY <1>0, <1>l, <1>r
  <2>2. /\ Max(Received \cup {seen.event}) \in Received \cup {seen.event}
        /\ Max(Received \cup {seen.event}) <= Len(rows)
        /\ \A y \in Received \cup {seen.event} : y <= Max(Received \cup {seen.event})
    <3> DEFINE x == seen.event
               S == Received
    <3>1. Len(rows) \in Nat /\ S \in SUBSET (0..Len(rows)) /\ x \in {KNoId} \cup (0..Len(rows))
      BY <1>l, <1>s, <2>1
    <3> HIDE DEF x, S
    <3>2. /\ Max(S \cup {x}) \in S \cup {x} /\ Max(S \cup {x}) <= Len(rows)
          /\ \A y \in S \cup {x} : y <= Max(S \cup {x})
      BY <3>1, MaxSeen
    <3> QED BY <3>2 DEF x, S
  <2> QED BY <2>1, <2>2
<1>2. /\ seen'.att \in ReceivedAtts \cup {seen.att} /\ seen'.att <= Len(atts)
      /\ seen.att <= seen'.att
  <2>1. ReceivedAtts \in SUBSET (0..Len(atts)) /\ seen'.att = Max(ReceivedAtts \cup {seen.att})
    BY <1>0, <1>l, <1>r
  <2>2. /\ Max(ReceivedAtts \cup {seen.att}) \in ReceivedAtts \cup {seen.att}
        /\ Max(ReceivedAtts \cup {seen.att}) <= Len(atts)
        /\ \A y \in ReceivedAtts \cup {seen.att} : y <= Max(ReceivedAtts \cup {seen.att})
    <3> DEFINE x == seen.att
               S == ReceivedAtts
    <3>1. Len(atts) \in Nat /\ S \in SUBSET (0..Len(atts)) /\ x \in {KNoId} \cup (0..Len(atts))
      BY <1>l, <1>s, <2>1
    <3> HIDE DEF x, S
    <3>2. /\ Max(S \cup {x}) \in S \cup {x} /\ Max(S \cup {x}) <= Len(atts)
          /\ \A y \in S \cup {x} : y <= Max(S \cup {x})
      BY <3>1, MaxSeen
    <3> QED BY <3>2 DEF x, S
  <2> QED BY <2>1, <2>2
<1>3. \A e \in Events : \/ shown'[e] \in Received /\ rows[shown'[e]].event = e
                        \/ shown'[e] = shown[e] /\ ~\E i \in Received : rows[i].event = e
  <2> SUFFICES ASSUME NEW e \in Events, \E i \in Received : rows[i].event = e
               PROVE  shown'[e] \in Received /\ rows[shown'[e]].event = e
    BY <1>0
  <2> DEFINE S == {i \in Received : rows[i].event = e}
  <2>0. shown'[e] = MaxId(S)
    BY <1>0
  <2>1. shown'[e] = MaxId(S) /\ S \in SUBSET (0..Len(rows)) /\ S \subseteq Nat \ {0}
    <3>1. 1..Len(rows) \subseteq 0..Len(rows) /\ 1..Len(rows) \subseteq Nat \ {0}
      BY <1>l
    <3> QED BY <1>r, <2>0, <3>1
  <2>2. PICK i \in S : TRUE
    OBVIOUS
  <2>3. MaxId(S) \in S \cup {0} /\ i <= MaxId(S)
    <3> HIDE DEF S
    <3> QED BY <1>l, <2>1, <2>2, MaxIdIs
  <2>4. MaxId(S) \in S
    BY <2>1, <2>2, <2>3
  <2> QED BY <2>1, <2>4
<1>4. TypeOK'
  <2>1. shown' \in [Events -> {0} \cup RowIds]
    <3>1. \A e \in Events : shown'[e] \in {0} \cup RowIds
      BY <1>0, <1>3, <1>r DEF TypeOK
    <3> QED BY <1>0, <3>1
  <2>2. known' \subseteq Hashes
    <3>1. \A a \in ReceivedAtts : atts[a].hash \in Hashes
      BY <1>0, <1>l, <1>r, Members DEF Att
    <3>2. known \subseteq Hashes
      BY <1>0 DEF TypeOK
    <3> QED BY <1>0, <3>1, <3>2
  <2>3. seen' \in [event : {KNoId} \cup RowIds, att : {KNoId} \cup AttIds]
    <3>1. /\ seen'.event \in {KNoId} \cup RowIds /\ seen'.att \in {KNoId} \cup AttIds
      BY <1>1, <1>2, <1>r, <1>s
    <3> QED BY <1>0, <3>1
  <2> QED BY <1>0, <2>1, <2>2, <2>3 DEF TypeOK, LogTypeOK, logVars
<1>5. Rows(Watched)' = Rows(Watched) /\ Attachments(Watched)' = Attachments(Watched)
  BY <1>0 DEF Rows, Attachments
<1>6. NoGap'
  <2> SUFFICES ASSUME NEW i \in Rows(Watched), i <= seen'.event
               PROVE  shown'[rows[i].event] # 0
    BY <1>0, <1>5 DEF NoGap
  <2>1. rows[i].event \in Events /\ i \in Nat
    <3>1. i \in DOMAIN rows
      BY <1>0 DEF Rows, TypeOK
    <3> QED BY <1>0, <3>1, Members DEF Row
  <2>2. CASE i <= seen.event
    <3>1. shown[rows[i].event] # 0
      BY <1>0, <2>2 DEF NoGap, SeenInv
    <3> QED BY <1>3, <1>r, <2>1, <3>1
  <2>3. CASE ~(i <= seen.event)
    <3>1. seen'.event \in Received
      BY <1>1, <2>3
    <3>2. i \in Received
      BY <1>0, <2>3, <3>1 DEF ReadInv
    <3> QED BY <1>3, <1>r, <2>1, <3>2
  <2> QED BY <2>2, <2>3
<1>7. KnownInv'
  <2> SUFFICES ASSUME NEW a \in Attachments(Watched), a <= seen'.att
               PROVE  atts[a].hash \in known'
    BY <1>0, <1>5 DEF KnownInv
  <2>1. CASE a <= seen.att
    BY <1>0, <2>1 DEF KnownInv, SeenInv
  <2>2. CASE ~(a <= seen.att)
    <3>1. seen'.att \in ReceivedAtts
      BY <1>2, <2>2
    <3>2. a \in ReceivedAtts
      BY <1>0, <2>2, <3>1 DEF ReadInv
    <3> QED BY <1>0, <3>2
  <2> QED BY <2>1, <2>2
<1>8. Resolved'
  <2> SUFFICES ASSUME NEW e \in Events, shown'[e] # 0
               PROVE  rows[shown'[e]].hash \in known' \cup {NoHash}
    BY <1>0 DEF Resolved
  <2>1. CASE shown'[e] \in Received
    BY <1>0, <2>1 DEF ReadInv
  <2>2. CASE shown'[e] = shown[e]
    BY <1>0, <2>2 DEF Resolved, SeenInv
  <2> QED BY <1>3, <2>1, <2>2
<1>9. \A e \in Events : shown'[e] # 0 => shown'[e] \in DOMAIN rows
  BY <1>0, <1>3, <1>l, <1>r DEF SeenInv
<1>10. SeenInv'
  BY <1>0, <1>1, <1>2, <1>6, <1>7, <1>8, <1>9 DEF SeenInv
<1>11. ReadInv'
  <2>1. Received' = {} /\ ReceivedAtts' = {}
    BY <1>0 DEF Received, ReceivedAtts
  <2> QED BY <1>0, <2>1 DEF ReadInv
<1> QED BY <1>4, <1>10, <1>11

(* A sync is given up, the zip is written, polling starts, ends or finds   *)
(* nothing to read.                                                        *)
LEMMA OtherSteps ==
  ASSUME Inv, \/ SyncFails \/ StartPolling \/ PollNotFound \/ SegmentsGone
              \/ \E s \in Samples : WriteSamples(s)
  PROVE  Inv'
<1> USE DEF dbVars, storeVars, viewerVars
<1>1. /\ TypeOK /\ DbInv /\ FilesInv /\ StoreInv /\ SeenInv /\ ReadInv
      /\ UNCHANGED <<situation, buffered, rows, live, atts, retries, finished, manifest, files,
                     seen, shown, known>>
  BY DEF Inv, SyncFails, StartPolling, PollNotFound, SegmentsGone, WriteSamples
<1>2. \/ pc' \in {"idle", pc} /\ UNCHANGED <<viewer, chosen>>
      \/ /\ pc' = pc /\ viewer' \in {"polling", "stopped", "loaded", "failed", "cut"}
         /\ chosen' = {}
  BY <1>1 DEF SyncFails, StartPolling, PollNotFound, SegmentsGone, NotFound, ReadInv, WriteSamples
<1>11. LogTypeOK'
  <2>1. CASE UNCHANGED logVars
    BY <1>1, <2>1 DEF TypeOK, LogTypeOK, logVars
  <2>2. ASSUME NEW s \in Samples, WriteSamples(s) PROVE LogTypeOK'
    BY <1>1, <2>2 DEF WriteSamples, TypeOK, LogTypeOK
  <2> QED BY <2>1, <2>2 DEF SyncFails, StartPolling, PollNotFound, SegmentsGone
<1>3. TypeOK'
  BY <1>1, <1>2, <1>11 DEF TypeOK
<1>4. /\ \A s \in Samples : /\ Rows(s)' = Rows(s) /\ Attachments(s)' = Attachments(s)
                            /\ Fresh(s)' = Fresh(s) /\ After(s)' = After(s)
      /\ Changed' = Changed /\ Count' = Count
  BY <1>1 DEF Changed, Count, Rows, Attachments, Fresh, After, LastSegment
<1>5. DbInv'
  BY <1>1 DEF DbInv, HasAtt, Attachments
<1>6. FilesInv'
  BY <1>1, <1>2, <1>4 DEF FilesInv
<1>7. ASSUME NEW s \in Samples PROVE SkipInv(s)' /\ \A k \in manifest.segs[s] : SegmentInv(s, k)'
  <2>1. /\ \A i : EventOut(s, i)' = EventOut(s, i)
        /\ \A a : AttOut(s, a)' = AttOut(s, a)
    BY <1>1 DEF EventOut, AttOut
  <2> QED BY <1>1, <1>4, <2>1 DEF StoreInv, SkipInv, SegmentInv
<1>8. StoreInv'
  BY <1>1, <1>7 DEF StoreInv
<1>9. SeenInv'
  BY <1>1 DEF SeenInv, NoGap, Resolved, KnownInv, Rows, Attachments
<1>10. ReadInv'
  <2>w. Watched \in Samples
    BY BufferSyncAssumption
  <2>1. CASE UNCHANGED <<viewer, chosen>>
    <3>1. Received' = Received /\ ReceivedAtts' = ReceivedAtts
      BY <1>1, <2>1 DEF Received, ReceivedAtts
    <3> QED BY <1>1, <1>4, <2>w, <2>1, <3>1 DEF ReadInv
  <2>2. CASE chosen' = {}
    <3>1. Received' = {} /\ ReceivedAtts' = {}
      BY <2>2 DEF Received, ReceivedAtts
    <3> QED BY <2>2, <3>1 DEF ReadInv
  <2> QED BY <1>2, <2>1, <2>2
<1> QED BY <1>3, <1>5, <1>6, <1>8, <1>9, <1>10 DEF Inv

-----------------------------------------------------------------------------
(* The invariant *)

LEMMA Initially == Init => Inv
<1> SUFFICES ASSUME Init PROVE Inv
  OBVIOUS
<1>w. Watched \in Samples
  BY BufferSyncAssumption
<1>1. /\ situation \in Situations /\ buffered = {} /\ rows = <<>> /\ live = {} /\ atts = <<>>
      /\ LogTypeOK
      /\ retries = [s \in Samples |-> 0] /\ finished = FALSE /\ pc = "idle" /\ viewer = "off"
      /\ manifest = NoManifest /\ files = NoFiles /\ chosen = {} /\ known = {}
      /\ seen = [event |-> KNoId, att |-> KNoId] /\ shown = [e \in Events |-> 0]
      /\ {MaxRows, MaxSegments, Retries} \subseteq Nat
  BY BufferSyncAssumption DEF Init, LogTypeOK
<1>2. /\ manifest.listed = {} /\ manifest.segs = [s \in Samples |-> {}]
      /\ manifest.segments = <<>> /\ Count = 0 /\ DOMAIN manifest.segments = {}
      /\ Len(rows) = 0 /\ Len(atts) = 0 /\ DOMAIN rows = {} /\ DOMAIN atts = {}
  BY <1>1 DEF NoManifest, Count
<1>3. \A k \in Segments, s \in Samples : files[k][s].events = {} /\ files[k][s].atts = {}
  BY <1>1 DEF NoFiles, NoData
<1>4. TypeOK
  <2>1. files \in [Segments -> [Samples -> [events : SUBSET RowIds, atts : SUBSET AttIds]]]
    BY <1>1 DEF NoFiles, NoData
  <2>2. /\ manifest.segs \in [Samples -> SUBSET (DOMAIN manifest.segments)]
        /\ manifest.segments \in Seq([event : {0} \cup RowIds, att : {0} \cup AttIds])
        /\ \A s \in Samples : manifest.segs[s] = {}
    BY <1>2
  <2>3. /\ rows \in Seq([sample : Samples, event : Events, hash : Hashes \cup {NoHash}])
        /\ atts \in Seq([sample : Samples, hash : Hashes])
        /\ retries \in [Samples -> 0..Retries] /\ Len(rows) <= MaxRows
    BY <1>1, <1>2
  <2> QED BY <1>1, <1>2, <2>1, <2>2, <2>3 DEF TypeOK
<1>5. \A s : Rows(s) = {} /\ Attachments(s) = {}
  BY <1>1, <1>2 DEF Rows, Attachments
<1>6. DbInv
  BY <1>2 DEF DbInv, Distinct
<1>7. FilesInv
  BY <1>1, <1>2, <1>3, BufferSyncAssumption DEF FilesInv
<1>8. StoreInv
  BY <1>2, <1>5 DEF StoreInv, SkipInv
<1>9. SeenInv
  BY <1>1, <1>2, <1>5, <1>w DEF SeenInv, NoGap, Resolved, KnownInv, KNoId
<1>10. ReadInv
  <2>1. Received = {} /\ ReceivedAtts = {}
    BY <1>1 DEF Received, ReceivedAtts
  <2> QED BY <1>1, <2>1 DEF ReadInv
<1> QED BY <1>4, <1>6, <1>7, <1>8, <1>9, <1>10 DEF Inv

LEMMA Step == Inv /\ [Next]_vars => Inv'
<1> SUFFICES ASSUME Inv, [Next]_vars PROVE Inv'
  OBVIOUS
<1> USE DEF dbVars, storeVars, viewerVars
<1>1. CASE Transaction
  <2>1. Grows /\ Write /\ DbInv' /\ TypeOK'
    BY <1>1, TransactionGrows
  <2> QED BY <2>1, GrowsKeeps DEF Inv
<1>2. ASSUME UNCHANGED <<dbVars, viewerVars>> PROVE DbInv' /\ SeenInv'
  BY <1>2 DEF Inv, DbInv, HasAtt, SeenInv, NoGap, Resolved, KnownInv, Rows, Attachments
<1>3. CASE FinishLog
  <2>1. UNCHANGED <<rows, live, atts, viewerVars>>
    BY <1>3 DEF FinishLog
  <2>2. DbInv' /\ SeenInv'
    BY <2>1 DEF Inv, DbInv, HasAtt, SeenInv, NoGap, Resolved, KnownInv, Rows, Attachments
  <2> QED BY <1>3, <2>2, FinishStep DEF Inv
<1>4. CASE SyncSegment
  <2>1. UNCHANGED <<dbVars, viewerVars>>
    BY <1>4 DEF SyncSegment
  <2> QED BY <1>2, <1>4, <2>1, SegmentStep DEF Inv
<1>5. CASE SyncManifest
  <2>1. UNCHANGED <<dbVars, viewerVars>>
    BY <1>5 DEF SyncManifest
  <2> QED BY <1>2, <1>5, <2>1, ManifestStep DEF Inv
<1>6. CASE \/ SyncFails \/ StartPolling \/ PollNotFound \/ SegmentsGone
           \/ \E s \in Samples : WriteSamples(s)
  BY <1>6, OtherSteps
<1>7. CASE PollManifest
  <2>1. UNCHANGED <<dbVars, finished, pc, storeVars>>
    BY <1>7 DEF PollManifest
  <2> QED BY <1>7, <2>1, PollStarts, ViewerKeeps DEF Inv
<1>8. CASE PollSegments
  <2>1. UNCHANGED <<dbVars, finished, pc, storeVars>>
    BY <1>8 DEF PollSegments
  <2> QED BY <1>8, <2>1, PollEnds, ViewerKeeps DEF Inv
<1>9. CASE UNCHANGED vars
  <2>1. UNCHANGED <<dbVars, finished, pc, storeVars>> /\ UNCHANGED viewerVars /\ UNCHANGED logVars
    BY <1>9 DEF vars
  <2>2. TypeOK'
    BY <2>1 DEF Inv, TypeOK, LogTypeOK, logVars
  <2>3. SeenInv'
    BY <2>1 DEF Inv, SeenInv, NoGap, Resolved, KnownInv, Rows, Attachments
  <2>4. ReadInv'
    BY <2>1 DEF Inv, ReadInv, Received, ReceivedAtts, Rows, Attachments
  <2> QED BY <2>1, <2>2, <2>3, <2>4, ViewerKeeps DEF Inv
<1>10. CASE Database
  <2>1. situation.samples \subseteq Samples /\ situation.hashes \subseteq Hashes
    BY BufferSyncAssumption DEF Inv, TypeOK, Situation
  <2> QED BY <1>1, <1>3, <1>6, <1>10, <2>1 DEF Database, EndSample, Transaction
<1> QED BY <1>4, <1>5, <1>6, <1>7, <1>8, <1>9, <1>10 DEF Next, Sync, Viewer

LEMMA Invariant == Spec => []Inv
BY Initially, Step, PTL DEF Spec

-----------------------------------------------------------------------------
(* The properties of the runs *)

(* Whatever a sync, a failed write or a poll under way leaves behind, the  *)
(* segments that the manifest or the poll refers to hold data of the       *)
(* sample (sync_to_filestore(), get_sample_data()).                        *)
THEOREM StoreConsistentCorrect == Spec => []StoreConsistent
<1>1. Inv => StoreConsistent
  <2> SUFFICES ASSUME Inv PROVE TypeOK /\ Readable
    BY DEF StoreConsistent
  <2> QED BY DEF Inv, StoreInv, SegmentInv, ReadInv, Readable
<1> QED BY <1>1, Invariant, PTL

(* A viewer that has an id has been sent every earlier event of its sample *)
(* which the database still holds.                                         *)
THEOREM NoGapCorrect == Spec => []NoGap
<1>1. Inv => NoGap
  BY DEF Inv, SeenInv
<1> QED BY <1>1, Invariant, PTL

(* The attachments that a shown event refers to have reached the viewer.   *)
THEOREM ResolvedCorrect == Spec => []Resolved
<1>1. Inv => Resolved
  BY DEF Inv, SeenInv
<1> QED BY <1>1, Invariant, PTL

(* The manifest that a sync writes lists the samples of the database, and  *)
(* its segments hold all of their events and attachments.                  *)
THEOREM ManifestIsCurrentCorrect == Spec => ManifestIsCurrent
<1> DEFINE Current ==
      /\ manifest'.listed = buffered'
      /\ \A s \in buffered' : /\ Rows(s)' \subseteq Published(s)'.events
                              /\ Attachments(s)' \subseteq Published(s)'.atts
<1>1. ASSUME Inv, [Next]_vars, manifest' # manifest, ~finished' PROVE Current
  <2> USE DEF dbVars, storeVars, viewerVars
  <2>1. SyncManifest
    BY <1>1 DEF Next, Database, Sync, Viewer, vars, StartSample, LogEvent, CompleteSample,
                RetrySample, UpdateMetrics, WriteSamples, FlushSamples, EndSample,
                RemoveSamples, FinishLog, Write,
                SyncSegment, SyncFails, StartPolling, PollNotFound, PollManifest, SegmentsGone,
                PollSegments
  <2>2. /\ TypeOK /\ StoreInv /\ buffered \subseteq Samples /\ Watched \in Samples
        /\ UNCHANGED <<buffered, rows, live, atts, files>>
    BY <1>1, <2>1, BufferSyncAssumption DEF Inv, TypeOK, SyncManifest
  <2>3. manifest'.listed = buffered
    BY <1>1, <2>1, <2>2, ManifestFacts
  <2>4. ASSUME NEW s \in buffered
        PROVE  Rows(s)' \subseteq Published(s)'.events /\ Attachments(s)' \subseteq Published(s)'.atts
    <3>1. s \in Samples /\ Rows(s)' = Rows(s) /\ Attachments(s)' = Attachments(s) /\ SkipInv(s)
      BY <2>2 DEF Rows, Attachments, StoreInv
    <3>2. \A i \in Rows(s) : EventOut(s, i)'
      BY <1>1, <2>1, <3>1, ManifestOut
    <3>3. \A a : AttOut(s, a) => AttOut(s, a)'
      BY <1>1, <2>1, <3>1, ManifestOut
    <3>4. \A a \in Attachments(s) : a \in Fresh(s).atts \/ AttOut(s, a)
      <4>1. \A a \in Attachments(s) : a \in Nat
        BY <2>2, Lengths DEF Attachments
      <4> QED BY <2>2, <3>1, <4>1, AfterIs, FreshIs DEF SkipInv
    <3>5. ASSUME NEW a \in Fresh(s).atts PROVE \E k \in manifest'.segs[s] : a \in files[k][s].atts
      <4>1. s \in Changed
        <5>1. Fresh(s) # NoData
          BY <3>5 DEF NoData
        <5> QED BY <5>1 DEF Changed
      <4>2. Count + 1 \in manifest'.segs[s] /\ files[Count + 1][s] = Fresh(s)
        BY <1>1, <2>1, <3>1, <4>1, ManifestFacts
      <4> QED BY <4>2
    <3>6. \A a \in Attachments(s) : \E k \in manifest'.segs[s] : a \in files[k][s].atts
      BY <2>2, <3>3, <3>4, <3>5 DEF AttOut
    <3>7. \A i \in Rows(s) : \E k \in manifest'.segs[s] : i \in files[k][s].events
      BY <2>2, <3>2 DEF EventOut
    <3> QED BY <2>2, <3>1, <3>6, <3>7 DEF Published
  <2> QED BY <2>2, <2>3, <2>4
<1>2. Inv /\ [Next]_vars => [manifest' # manifest /\ ~finished' => Current]_vars
  BY <1>1
<1> QED BY <1>2, Invariant, PTL DEF Spec, ManifestIsCurrent
=============================================================================
