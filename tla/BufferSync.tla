----------------------------- MODULE BufferSync -----------------------------
(***************************************************************************)
(* The realtime sample buffer of a log (log/_recorders/buffer): the eval   *)
(* process writes samples, events and attachments to a local database,     *)
(* publishes what is new as segment files and a manifest in a filestore    *)
(* next to the log, and a viewer polls the filestore for one sample        *)
(* (state/samplePolling.ts).                                               *)
(*                                                                         *)
(* The eval process does its writes and the syncs that follow them in one  *)
(* thread, in which nothing else happens meanwhile; only the viewer        *)
(* interleaves, between any two accesses to the filestore.  Samples that   *)
(* end leave the buffer when the log file is flushed, which their          *)
(* coroutines do in several steps (see TaskLogger).  The write of a        *)
(* segment or a manifest is atomic.                                        *)
(***************************************************************************)
EXTENDS Integers, Sequences, FiniteSets, FiniteSetsExt

CONSTANTS
  Samples,
  Watched,     \* the sample that the viewer follows
  Events,      \* the ids of events (event_id); an event may be logged again
  Hashes,      \* the hashes of attachments, in their order
  MaxRows,     \* bound on the rows of the events table
  MaxSegments, \* bound on the segments
  Retries,     \* how often a sample is retried on an error (retry_on_error)
  WritesFail,  \* may the write of a file fail?
  Situations   \* what may be going on, see Situation

(* Who takes part, what attachments there are, and tighter bounds; one is  *)
(* chosen at the start, so that one run can vary them.                     *)
Situation == [samples : SUBSET Samples, hashes : SUBSET Hashes, rows : 0..MaxRows,
              retries : 0..Retries]

ASSUME BufferSyncAssumption ==
  /\ Watched \in Samples
  /\ IsFiniteSet(Samples) /\ IsFiniteSet(Events) /\ IsFiniteSet(Hashes)
  /\ Hashes \subseteq Nat \ {0}
  /\ {MaxRows, MaxSegments, Retries} \subseteq Nat
  /\ WritesFail \in BOOLEAN
  /\ Situations \subseteq Situation

NoHash == 0                                \* an event without an attachment
NoData == [events |-> {}, atts |-> {}]     \* a SampleData without content
KNoId == -1

VARIABLES
  situation, \* does not change
  buffered,  \* the samples table of the database
  rows,      \* all rows ever inserted in the events table; the index is the id
  retries,   \* how often each sample has been retried
  live,      \* the ids of those rows that have not been deleted
  atts,      \* the attachments table; the index is the id
  logged,    \* the samples that have ended
  pending,   \* flush_pending: those that the next flush is to remove from the buffer
  due,       \* those whose complete_sample() is about to write the local zip, ...
  flushing,  \* ... or has written it and is about to copy it to the log file
  zip,       \* the samples in the local zip
  inFile,    \* the samples in the log file
  late,      \* history: those that ended while another's flush had written the zip
  finished,  \* has the log been finished, and the buffer removed?
  pc,        \* the eval process: idle | sync | manifest
  manifest,  \* manifest.json: the samples listed, the segments of each, all segments
  files,     \* the segment files: what each holds for each sample
  viewer,    \* off | polling | reading | loaded | failed | stopped, or cut if the log
             \*   file was being rewritten when it was read
  seen,      \* the viewer's eventId and attachmentId
  chosen,    \* the segments that the server is about to read for the viewer
  shown,     \* for each event, the row that the viewer shows (0: none)
  known      \* the hashes of the attachments that the viewer has

dbVars == <<situation, buffered, retries, rows, live, atts>>
logVars == <<logged, pending, due, flushing, zip, inFile, late>>
storeVars == <<manifest, files>>
viewerVars == <<viewer, seen, chosen, shown, known>>
vars == <<dbVars, logVars, finished, pc, storeVars, viewerVars>>

RowIds == 1..MaxRows
AttIds == 1..(Cardinality(Samples) * Cardinality(Hashes))
Segments == 1..MaxSegments

LogTypeOK ==
  /\ logged \subseteq Samples
  /\ pending \cup due \cup flushing \cup zip \cup late \subseteq logged
  /\ inFile \subseteq zip

TypeOK ==
  /\ situation \in Situations
  /\ buffered \subseteq Samples
  /\ rows \in Seq([sample : Samples, event : Events, hash : Hashes \cup {NoHash}])
  /\ retries \in [Samples -> 0..Retries]
  /\ Len(rows) <= MaxRows /\ live \subseteq DOMAIN rows
  /\ atts \in Seq([sample : Samples, hash : Hashes]) /\ DOMAIN atts \subseteq AttIds
  /\ LogTypeOK /\ finished \in BOOLEAN
  /\ pc \in {"idle", "sync", "manifest"}
  /\ manifest.listed \subseteq Samples
  /\ manifest.segs \in [Samples -> SUBSET (DOMAIN manifest.segments)]
  /\ \A s \in Samples \ manifest.listed : manifest.segs[s] = {}
  /\ manifest.segments \in Seq([event : {0} \cup RowIds, att : {0} \cup AttIds])
  /\ files \in [Segments -> [Samples -> [events : SUBSET RowIds, atts : SUBSET AttIds]]]
  /\ viewer \in {"off", "polling", "reading", "loaded", "failed", "stopped", "cut"}
  /\ seen \in [event : {KNoId} \cup RowIds, att : {KNoId} \cup AttIds]
  /\ chosen \subseteq Segments
  /\ shown \in [Events -> {0} \cup RowIds]
  /\ known \subseteq Hashes

NoManifest == [listed |-> {}, segs |-> [s \in Samples |-> {}], segments |-> <<>>]
NoFiles == [k \in Segments |-> [s \in Samples |-> NoData]]

Init ==
  /\ situation \in Situations
  /\ buffered = {}
  /\ retries = [s \in Samples |-> 0]
  /\ rows = <<>> /\ live = {} /\ atts = <<>>
  /\ logged = {} /\ pending = {} /\ due = {} /\ flushing = {}
  /\ zip = {} /\ inFile = {} /\ late = {}
  /\ finished = FALSE
  /\ pc = "idle"
  /\ manifest = NoManifest /\ files = NoFiles
  /\ viewer = "off"
  /\ seen = [event |-> KNoId, att |-> KNoId]
  /\ chosen = {}
  /\ shown = [e \in Events |-> 0] /\ known = {}

MaxId(S) == Max(S \cup {0})

-----------------------------------------------------------------------------
(* The database *)

Rows(s) == {i \in live : rows[i].sample = s}
Attachments(s) == {i \in DOMAIN atts : atts[i].sample = s}

(* INSERT OR IGNORE: a sample has every hash once. *)
Insert(s, h) ==
  IF h = NoHash \/ \E i \in Attachments(s) : atts[i].hash = h
  THEN atts
  ELSE Append(atts, [sample |-> s, hash |-> h])

(* A transaction is followed by a sync unless the last one was too recent. *)
Write ==
  /\ pc = "idle" /\ ~finished
  /\ \/ pc' = "idle"
     \/ pc' = "sync" /\ Len(manifest.segments) < MaxSegments
  /\ UNCHANGED <<situation, finished, storeVars, viewerVars>>

(* An attempt logs its first events before it starts the sample. *)
MayRun(s) == s \notin logged
Running(s) == MayRun(s) /\ (s \in buffered \/ Rows(s) # {})

(* The input of a sample may be an attachment. *)
StartSample(s, h) ==
  /\ Write
  /\ MayRun(s) /\ s \notin buffered
  /\ buffered' = buffered \cup {s}
  /\ atts' = Insert(s, h)
  /\ UNCHANGED <<retries, rows, live, logVars>>

(* Event ids are unique to one attempt of a sample. *)
LogEvent(s, e, h) ==
  /\ Write
  /\ MayRun(s)
  /\ Len(rows) < situation.rows
  /\ \A i \in DOMAIN rows : rows[i].event = e => rows[i].sample = s /\ i \in live
  /\ rows' = Append(rows, [sample |-> s, event |-> e, hash |-> h])
  /\ live' = live \cup {Len(rows) + 1}
  /\ atts' = Insert(s, h)
  /\ UNCHANGED <<buffered, retries, logVars>>

(* complete_sample(), up to its first await after the sample was logged:   *)
(* a flush follows if enough samples are pending.                          *)
CompleteSample(s) ==
  /\ Write
  /\ Running(s)
  /\ logged' = logged \cup {s} /\ pending' = pending \cup {s}
  /\ due' \in {due, due \cup {s}}
  /\ late' = IF flushing = {} THEN late ELSE late \cup {s}
  /\ UNCHANGED <<dbVars, flushing, zip, inFile>>

WriteSamples_Nothing(s) == \* mutant: the samples collected are not written
  /\ pc = "idle" /\ s \in due
  /\ due' = due \ {s} /\ flushing' = flushing \cup {s}
  /\ UNCHANGED <<dbVars, logged, pending, zip, inFile, late, finished, pc, storeVars, viewerVars>>

WriteSamples(s) ==
  /\ pc = "idle" /\ s \in due
  /\ zip' = logged
  /\ due' = due \ {s} /\ flushing' = flushing \cup {s}
  /\ UNCHANGED <<dbVars, logged, pending, inFile, late, finished, pc, storeVars, viewerVars>>

UpdateMetrics ==
  /\ Write
  /\ UNCHANGED <<dbVars, logVars>>

(* remove_samples(): their attachments stay. *)
RemoveSamples(S) ==
  /\ Write
  /\ S = {} => pc' = "idle"
  /\ buffered' = buffered \ S
  /\ live' = live \ UNION {Rows(s) : s \in S}
  /\ UNCHANGED <<rows, atts>>

(* The log file gets what the zip has, and the buffer is told to remove    *)
(* what is pending by now.                                                 *)
FlushSamples(s) ==
  /\ s \in flushing
  /\ inFile' = zip
  /\ RemoveSamples(pending)
  /\ pending' = {} /\ flushing' = flushing \ {s}
  /\ UNCHANGED <<retries, logged, due, zip, late>>

(* A sample has failed and is to be run again, later. *)
RetrySample(s) ==
  /\ Running(s) /\ retries[s] < situation.retries
  /\ RemoveSamples({s})
  /\ retries' = [retries EXCEPT ![s] = @ + 1]
  /\ UNCHANGED logVars

(* No sample runs any more: the log is written, the buffer is removed. *)
FinishLog ==
  /\ pc = "idle" /\ ~finished
  /\ (\A s \in Samples : ~Running(s)) /\ due \cup flushing = {}
  /\ finished' = TRUE
  /\ zip' = logged /\ inFile' = logged
  /\ manifest' = NoManifest /\ files' = NoFiles
  /\ UNCHANGED <<dbVars, logged, pending, due, flushing, late, pc, viewerVars>>

-----------------------------------------------------------------------------
(* sync_to_filestore() *)

LastSegment_All(s) == Len(manifest.segments) \* mutant: whether of the sample or not

LastSegment(s) == MaxId(manifest.segs[s])

(* What the segments of a sample make it unnecessary to read again *)
After(s) ==
  IF LastSegment(s) = 0 THEN [event |-> 0, att |-> 0] ELSE manifest.segments[LastSegment(s)]

IsAfter_Next(i, last) == i > last + 1 \* mutant: off by one

IsAfter(i, last) == i > last

Fresh(s) ==
  [events |-> {i \in Rows(s) : IsAfter(i, After(s).event)},
   atts |-> {i \in Attachments(s) : IsAfter(i, After(s).att)}]

Changed == {s \in buffered : Fresh(s) # NoData}

NextSegment == Len(manifest.segments) + 1

(* attachments[-1].id: the rows come in the order of an index, by hash. *)
LastByHash(A) == IF A = {} THEN 0 ELSE CHOOSE i \in A : \A j \in A : atts[j].hash <= atts[i].hash

(* maximum_ids(), over the samples in the segment *)
NewSegment ==
  [event |-> MaxId(UNION {Fresh(s).events : s \in Changed}),
   att |-> MaxId({LastByHash(Fresh(s).atts) : s \in Changed})]

(* The manifest has the samples of the database, each with its segments. *)
NewManifest ==
  [listed |-> buffered,
   segs |-> [s \in Samples |->
     IF s \notin buffered THEN {}
     ELSE manifest.segs[s] \cup (IF s \in Changed THEN {NextSegment} ELSE {})],
   segments |->
     IF Changed = {} THEN manifest.segments ELSE Append(manifest.segments, NewSegment)]

SyncSegment ==
  /\ pc = "sync" /\ Changed # {}
  /\ files' = [files EXCEPT ![NextSegment] =
       [s \in Samples |-> IF s \in Changed THEN Fresh(s) ELSE NoData]]
  /\ pc' = "manifest"
  /\ UNCHANGED <<dbVars, logVars, finished, manifest, viewerVars>>

SyncManifest_Early == \* mutant: does not wait for the segment
  /\ pc \in {"sync", "manifest"}
  /\ manifest' = NewManifest
  /\ pc' = "idle"
  /\ UNCHANGED <<dbVars, logVars, finished, files, viewerVars>>

SyncManifest ==
  /\ pc = "manifest" \/ (pc = "sync" /\ Changed = {})
  /\ manifest' = NewManifest
  /\ pc' = "idle"
  /\ UNCHANGED <<dbVars, logVars, finished, files, viewerVars>>

(* A file cannot be written: the sync is given up until the next write. *)
SyncFails ==
  /\ WritesFail
  /\ pc # "idle"
  /\ pc' = "idle"
  /\ UNCHANGED <<dbVars, logVars, finished, storeVars, viewerVars>>

-----------------------------------------------------------------------------
(* The viewer, and get_sample_data() of the filestore on its behalf *)

(* The list of samples is read from the manifest, too. *)
StartPolling ==
  /\ viewer = "off"
  /\ Watched \in manifest.listed
  /\ viewer' = "polling"
  /\ UNCHANGED <<dbVars, logVars, finished, pc, storeVars, seen, chosen, shown, known>>

Selects(seg) == seg.event > seen.event \/ seg.att > seen.att

(* "a 404 means that this sample has been flushed": load it from the file, *)
(* which the flush of another sample may be about to rewrite.              *)
NotFound ==
  IF \A e \in Events : shown[e] = 0 THEN viewer' = "stopped"
  ELSE \/ viewer' = IF Watched \in inFile THEN "loaded" ELSE "failed"
       \/ viewer' = "cut" /\ ~finished

PollNotFound ==
  /\ viewer = "polling"
  /\ Watched \notin manifest.listed
  /\ NotFound
  /\ UNCHANGED <<dbVars, logVars, finished, pc, storeVars, seen, chosen, shown, known>>

PollManifest ==
  /\ viewer = "polling"
  /\ Watched \in manifest.listed
  /\ viewer' = "reading"
  /\ chosen' = {k \in manifest.segs[Watched] : Selects(manifest.segments[k])}
  /\ UNCHANGED <<dbVars, logVars, finished, pc, storeVars, seen, shown, known>>

(* The buffer was removed in the meantime. *)
SegmentsGone ==
  /\ viewer = "reading"
  /\ finished /\ chosen # {}
  /\ NotFound
  /\ chosen' = {}
  /\ UNCHANGED <<dbVars, logVars, finished, pc, storeVars, seen, shown, known>>

Received == UNION {files[k][Watched].events : k \in chosen}
ReceivedAtts == UNION {files[k][Watched].atts : k \in chosen}

(* An event replaces the one with the same id. *)
PollSegments ==
  /\ viewer = "reading"
  /\ finished => chosen = {}
  /\ viewer' = "polling"
  /\ chosen' = {}
  /\ known' = known \cup {atts[i].hash : i \in ReceivedAtts}
  /\ shown' = [e \in Events |->
       IF \E i \in Received : rows[i].event = e
       THEN MaxId({i \in Received : rows[i].event = e}) ELSE shown[e]]
  /\ seen' = [event |-> Max(Received \cup {seen.event}), att |-> Max(ReceivedAtts \cup {seen.att})]
  /\ UNCHANGED <<dbVars, logVars, finished, pc, storeVars>>

-----------------------------------------------------------------------------
EndSample(s) == CompleteSample(s) \/ WriteSamples(s) \/ FlushSamples(s)

Database ==
  \/ \E s \in situation.samples, h \in situation.hashes \cup {NoHash} :
       StartSample(s, h) \/ \E e \in Events : LogEvent(s, e, h)
  \/ \E s \in Samples : EndSample(s) \/ RetrySample(s)
  \/ UpdateMetrics
  \/ FinishLog

Sync == SyncSegment \/ SyncManifest \/ SyncFails

Viewer == StartPolling \/ PollNotFound \/ PollManifest \/ SegmentsGone \/ PollSegments

Next == Database \/ Sync \/ Viewer

Spec == Init /\ [][Next]_vars

(* The viewer polls on, a sync comes to its end; samples end and the log   *)
(* is finished: the event loop gives those coroutines a turn, even while   *)
(* others keep writing.                                                    *)
FairSpec ==
  /\ Spec
  /\ WF_vars(Viewer)
  /\ WF_vars(SyncSegment \/ SyncManifest)
  /\ \A s \in Samples : SF_vars(EndSample(s))
  /\ SF_vars(FinishLog)

-----------------------------------------------------------------------------
(* Properties *)

(* What the manifest or a poll under way refers to can be read: a segment  *)
(* of a sample holds data of that sample, until the buffer is removed,     *)
(* also when a sync failed between its two writes.                         *)
Readable ==
  ~finished =>
    /\ \A s \in Samples : \A k \in manifest.segs[s] : files[k][s] # NoData
    /\ \A k \in chosen : files[k][Watched] # NoData

(* At no point between the steps of the three parties is the store in a    *)
(* state that its readers cannot cope with.                                *)
StoreConsistent == TypeOK /\ Readable

Published(s) ==
  [events |-> UNION {files[k][s].events : k \in manifest.segs[s]},
   atts |-> UNION {files[k][s].atts : k \in manifest.segs[s]}]

(* A sync publishes the database: its samples, and all of their events and *)
(* attachments, whatever was published, removed or retried before.         *)
ManifestIsCurrent ==
  [][manifest' # manifest /\ ~finished' =>
       /\ manifest'.listed = buffered'
       /\ \A s \in buffered' : /\ Rows(s)' \subseteq Published(s)'.events
                               /\ Attachments(s)' \subseteq Published(s)'.atts]_vars

(* The viewer asks for what comes after the last id it has, so it must not *)
(* have an id while an earlier event of the sample has not reached it.     *)
NoGap ==
  \A i \in Rows(Watched) : i <= seen.event => shown[rows[i].event] # 0

(* An event is not shown before the attachment it refers to has come. *)
Resolved ==
  \A e \in Events : shown[e] # 0 => rows[shown[e]].hash \in known \cup {NoHash}

(* The viewer does not poll for ever: it ends up with the sample of the    *)
(* log file, or with the end of polling if it never had an event.  A       *)
(* sample can be neither in the buffer nor in the file while it waits to   *)
(* be run again, and if it ended while the flush of another sample had     *)
(* written the zip, which removes it from the buffer all the same; and     *)
(* the file cannot be read while it is rewritten.  There is no other way   *)
(* to miss it.                                                             *)
PollingEnds ==
  viewer = "polling" ~>
    \/ viewer \in {"loaded", "stopped", "cut"}
    \/ viewer = "failed" /\ (retries[Watched] > 0 \/ Watched \in late)
=============================================================================
