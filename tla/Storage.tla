------------------------------- MODULE Storage -------------------------------
(***************************************************************************)
(* The journal on disk through its lives: appends, batches and fences that *)
(* fill and rotate segments, failed writes, power loss, cold start and     *)
(* clean close.  The writer is sequential here: what its thread and the    *)
(* producers interleave is WriteControl's subject, and one action is one   *)
(* command.  Compaction extends the module with the rewriting of sealed    *)
(* segments.                                                               *)
(*                                                                         *)
(* Power loss keeps what was fsynced and any prefix of the rest, whose     *)
(* last frame may be there in part.                                        *)
(***************************************************************************)
EXTENDS ColdStart

CONSTANTS
    SegmentFrames,   \* frames after which a segment rotates (segment_max_bytes)
    BatchSizes,      \* how many items a batch may have
    MaxEvents,       \* bound: events ever written
    MaxCrashes,      \* bound: power losses
    MaxFailures,     \* bound: writes the disk refuses
    MaxFences,       \* bound: visibility fences opened
    MaxCloses,       \* bound: clean closes
    Tears,           \* what power loss may leave of a frame: subset of Pieces
    FastStarts       \* cold-start policies in use: TRUE reads the artifact

ASSUME StorageAssumption ==
    /\ SegmentFrames \in Nat \ {0}
    /\ BatchSizes \subseteq Nat \ {0}
    /\ {MaxEvents, MaxCrashes, MaxFailures, MaxFences, MaxCloses} \subseteq Nat
    /\ Tears \subseteq Pieces
    /\ FastStarts \subseteq BOOLEAN /\ FastStarts # {}

VARIABLES
    segments,        \* the .fbat files, by segment id
    compact_src,     \* the .compact-src file, as a sequence of at most one
    marker,          \* compaction.pending.json
    hidden_file,     \* visibility_ranges.fbv, as a set of sequences
    artifact,        \* index.fbati or index.ckpt
    index,           \* StoreIndex: id, sequence and disk position of each event
    allocated,       \* SequenceGate: next sequence
    visible,         \* SequenceGate: exclusive bound of what readers see
    cancelled,       \* SequenceGate: sequences hidden for good
    fence,           \* sequences staged under the open fence, if there is one
    segment_id,      \* the active segment
    collector,       \* its SIDX entries so far
    status,          \* what the store is doing
    budget,          \* what the bounds leave
    acked,           \* history: the sequence each acknowledged event was given
    durable,         \* history: events whose acknowledgement an fsync covers
    withheld,        \* history: events of a fence not committed
    revoked,         \* history: those of a fence cancelled by its owner
    batches          \* history: the events of each batch ever begun

diskVars == <<segments, compact_src, marker, hidden_file, artifact>>
gateVars == <<allocated, visible, cancelled, fence>>
writerVars == <<segment_id, collector>>
history == <<acked, durable, withheld, revoked, batches>>
vars == <<diskVars, index, gateVars, writerVars, status, budget, history>>

disk == [segments |-> segments, compact_src |-> compact_src, marker |-> marker]

NoFence == [open |-> FALSE, seqs |-> {}]
NoArtifact == [present |-> FALSE, entries |-> {}, allocator |-> 0, watermark |-> NoWatermark]

IsVisible(e) == e.seq < visible /\ e.seq \notin cancelled
Indexed == {e.id : e \in index}
VisibleIds == {e.id : e \in {e \in index : IsVisible(e)}}

\* Events are numbered in the order they are written.
NextId == MaxEvents - budget.events + 1
Spend(what, n) == budget[what] >= n /\ budget' = [budget EXCEPT ![what] = @ - n]

-----------------------------------------------------------------------------
(* Writing to the active segment.                                          *)

\* maybe_rotate_segment: a full segment is fsynced, gets its footer and is left.
\* The footer is best effort: when its write fails part of it may stay behind.
maybe_rotate_segment(footer) ==
    LET old == segments[segment_id]
        sealed == IF footer = "written"
                  THEN [old EXCEPT !.synced = Len(old.frames),
                                   !.footer = [present |-> TRUE, entries |-> collector]]
                  ELSE [old EXCEPT !.synced = Len(old.frames),
                                   !.frames = Append(@, Piece("torn"))]
    IN  IF WrittenFrames(old.frames) < SegmentFrames
        THEN [segments |-> segments, segment_id |-> segment_id, collector |-> collector]
        ELSE [segments |-> (segment_id + 1 :> EmptySegment) @@
                           [segments EXCEPT ![segment_id] = sealed],
              segment_id |-> segment_id + 1, collector |-> <<>>]

\* A footer may fail only where there is one to write.
FooterFates ==
    IF budget.failures > 0 /\ WrittenFrames(segments[segment_id].frames) >= SegmentFrames
    THEN {"written", "torn"} ELSE {"written"}

Put(w, frames) == [w.segments EXCEPT ![w.segment_id].frames = @ \o frames]

Synced(segs, i) == [segs EXCEPT ![i].synced = Len(segs[i].frames)]

\* Mutant: the frame of the BEGIN marker is left out of the offsets.
NewEntriesUnskipped(w, n, skip) ==
    LET at == NextOffset(w.segments[w.segment_id].frames)
    IN  [k \in 1 .. n |-> [id |-> NextId + k - 1, seq |-> allocated + k - 1,
                           segment_id |-> w.segment_id, offset |-> at + k - 1]]

\* The index entries of n events whose first frame is `skip` frames further on.
NewEntries(w, n, skip) ==
    LET at == NextOffset(w.segments[w.segment_id].frames)
    IN  [k \in 1 .. n |-> [id |-> NextId + k - 1, seq |-> allocated + k - 1,
                           segment_id |-> w.segment_id,
                           offset |-> IF at = 0 THEN 0 ELSE at + skip + k - 1]]

EventFrames(n) == [k \in 1 .. n |-> Event(NextId + k - 1)]
BatchFrames(n) == <<Begin(n)>> \o EventFrames(n) \o <<Commit>>

SidxEntries(entries) ==
    [k \in DOMAIN entries |-> [id |-> entries[k].id, seq |-> entries[k].seq,
                               offset |-> entries[k].offset]]

Ids(entries) == {e.id : e \in ToSet(entries)}

\* Index and collect what was written; outside a fence publish and
\* acknowledge it, inside one stage it.
Admit(w, entries) ==
    /\ segment_id' = w.segment_id
    /\ collector' = w.collector \o SidxEntries(entries)
    /\ index' = index \cup ToSet(entries)
    /\ allocated' = allocated + Len(entries)
    /\ IF fence.open
       THEN /\ fence' = [fence EXCEPT !.seqs = @ \cup {e.seq : e \in ToSet(entries)}]
            /\ withheld' = withheld \cup Ids(entries)
            /\ UNCHANGED <<visible, acked>>
       ELSE /\ visible' = allocated'
            /\ acked' = [i \in Ids(entries) |->
                             (CHOOSE e \in ToSet(entries) : e.id = i).seq] @@ acked
            /\ UNCHANGED <<fence, withheld>>
    /\ UNCHANGED cancelled

\* What an fsync of the active segment makes durable of the acknowledged.
Held(receipts, entries) == DOMAIN receipts \cap {e.id : e \in entries}

Up == status = "up"

\* Commands about a fence pass the lifecycle gate a compaction holds.
Serving == status \in {"up", "compacting"}

\* handle_append, outside or inside a fence.
Append1 ==
    /\ Up
    /\ \E footer \in FooterFates :
           LET w == maybe_rotate_segment(footer)
           IN  /\ budget.events > 0
               /\ budget' = [budget EXCEPT !.events = @ - 1,
                                           !.failures = @ - IF footer = "torn" THEN 1 ELSE 0]
               /\ segments' = Put(w, EventFrames(1))
               /\ Admit(w, NewEntries(w, 1, 0))
    /\ UNCHANGED <<compact_src, marker, hidden_file, artifact, status, durable, revoked, batches>>

\* The disk refuses the frame after taking part of it: nothing is indexed and
\* the sequence is not used up.
AppendFails ==
    /\ Up
    /\ Spend("failures", 1)
    /\ LET w == maybe_rotate_segment("written")
       IN  /\ segments' = Put(w, <<Piece("torn")>>)
           /\ segment_id' = w.segment_id
           /\ collector' = w.collector
    /\ UNCHANGED <<compact_src, marker, hidden_file, artifact, index, gateVars, status, history>>

\* handle_prepared_batch: BEGIN, the items, COMMIT, one fsync, then the index.
AppendBatch(n) ==
    /\ Up
    /\ Spend("events", n)
    /\ LET w == maybe_rotate_segment("written")
       IN  /\ segments' = Synced(Put(w, BatchFrames(n)), w.segment_id)
           /\ Admit(w, NewEntries(w, n, 1))
           /\ batches' = batches \cup {NextId .. NextId + n - 1}
           /\ durable' = durable \cup Held(acked', index')
    /\ UNCHANGED <<compact_src, marker, hidden_file, artifact, status, revoked>>

\* The batch stops after k whole frames, or at its fsync; its sequences are
\* used up.
AppendBatchFails(n, k) ==
    /\ Up
    /\ budget.failures > 0 /\ budget.events >= n
    /\ budget' = [budget EXCEPT !.failures = @ - 1, !.events = @ - n]
    /\ LET w == maybe_rotate_segment("written")
       IN  /\ segments' = Put(w, SubSeq(BatchFrames(n), 1, k))
           /\ segment_id' = w.segment_id
           /\ collector' = w.collector
           /\ batches' = batches \cup {NextId .. NextId + n - 1}
    /\ allocated' = allocated + n
    /\ UNCHANGED <<compact_src, marker, hidden_file, artifact, index, visible, cancelled, fence,
                   status, acked, durable, withheld, revoked>>

\* A Sync command, or the periodic sync of the writer loop.
Sync ==
    /\ Up
    /\ segments' = Synced(segments, segment_id)
    /\ durable' = durable \cup Held(acked, index)
    /\ UNCHANGED <<compact_src, marker, hidden_file, artifact, index, gateVars, writerVars,
                   status, budget, acked, withheld, revoked, batches>>

-----------------------------------------------------------------------------
(* Fences.                                                                 *)

BeginFence ==
    /\ Up /\ ~fence.open
    /\ Spend("fences", 1)
    /\ fence' = [open |-> TRUE, seqs |-> {}]
    /\ UNCHANGED <<diskVars, index, allocated, visible, cancelled, writerVars, status, history>>

InFence == {e \in index : e.seq \in fence.seqs}

\* The writer syncs before it commits a fence.
CommitFence ==
    /\ Serving /\ fence.open
    /\ segments' = Synced(segments, segment_id)
    /\ visible' = IF fence.seqs = {} THEN visible ELSE Max(fence.seqs) + 1
    /\ acked' = [i \in {e.id : e \in InFence} |-> (CHOOSE e \in InFence : e.id = i).seq] @@ acked
    /\ durable' = durable \cup Held(acked', index)
    /\ withheld' = withheld \ {e.id : e \in InFence}
    /\ fence' = NoFence
    /\ UNCHANGED <<compact_src, marker, hidden_file, artifact, index, allocated, cancelled,
                   writerVars, status, budget, revoked, batches>>

\* Mutant: the file keeps the ranges of the earlier cancels only.
CancelUnpersisted ==
    /\ cancelled' = cancelled \cup
           (IF fence.seqs = {} THEN {} ELSE Min(fence.seqs) .. Max(fence.seqs))
    /\ hidden_file' = cancelled
    /\ fence' = NoFence

\* cancel_visibility_fence: the staged range is hidden and the file of hidden
\* ranges, which is fsynced, replaced.  The segment is not synced.
CancelRange ==
    /\ cancelled' = cancelled \cup
           (IF fence.seqs = {} THEN {} ELSE Min(fence.seqs) .. Max(fence.seqs))
    /\ hidden_file' = cancelled'
    /\ fence' = NoFence

CancelFence ==
    /\ Serving /\ fence.open
    /\ CancelRange
    /\ revoked' = revoked \cup {e.id : e \in InFence}
    /\ UNCHANGED <<segments, compact_src, marker, artifact, index, allocated, visible,
                   writerVars, status, budget, acked, durable, withheld, batches>>

-----------------------------------------------------------------------------
(* Close, power loss, open.                                                *)

\* drain_shutdown_queue: the footer, then the fsync.
ShutdownSegment(segs, i, entries) ==
    Synced([segs EXCEPT ![i].footer = [present |-> TRUE, entries |-> entries]], i)

\* close: a SYSTEM_CLOSE_COMPLETED event, which an open fence refuses, then the
\* writer's shutdown, which cancels that fence.
Close ==
    /\ Up
    /\ budget.closes > 0 /\ budget.events > 0
    /\ IF fence.open
       THEN /\ budget' = [budget EXCEPT !.closes = @ - 1]
            /\ CancelRange
            /\ revoked' = revoked \cup {e.id : e \in InFence}
            /\ segments' = ShutdownSegment(segments, segment_id, collector)
            /\ durable' = durable \cup Held(acked, index)
            /\ UNCHANGED <<index, allocated, visible, writerVars, acked, withheld>>
       ELSE LET w == maybe_rotate_segment("written")
                entries == NewEntries(w, 1, 0)
            IN  /\ budget' = [budget EXCEPT !.closes = @ - 1, !.events = @ - 1]
                /\ Admit(w, entries)
                /\ segments' = ShutdownSegment(Put(w, EventFrames(1)), w.segment_id, collector')
                /\ durable' = durable \cup Held(acked', index')
                /\ UNCHANGED <<hidden_file, revoked>>
    /\ status' = "closing"
    /\ UNCHANGED <<compact_src, marker, artifact, batches>>

\* Mutant: the allocator is taken from the last event that was published.
ArtifactStale ==
    [present |-> TRUE, entries |-> index, allocator |-> visible - 1,
     watermark |-> LET newest == Max(DOMAIN segments)
                   IN  [segment_id |-> newest, offset |-> FileLen(segments[newest])]]

\* write_cold_start_artifacts_on_close
NewArtifact ==
    [present |-> TRUE, entries |-> index, allocator |-> allocated,
     watermark |-> LET newest == Max(DOMAIN segments)
                   IN  [segment_id |-> newest, offset |-> FileLen(segments[newest])]]

\* What a store that is not open keeps in memory.
Forget ==
    /\ index' = {}
    /\ allocated' = 0
    /\ visible' = 0
    /\ cancelled' = {}
    /\ fence' = NoFence
    /\ segment_id' = 0
    /\ collector' = <<>>

WriteArtifact ==
    /\ status = "closing"
    /\ artifact' = NewArtifact
    /\ status' = "down"
    /\ Forget
    /\ UNCHANGED <<segments, compact_src, marker, hidden_file, budget, history>>

\* What power loss may leave of a segment.
Remains(segment) ==
    {[segment EXCEPT !.frames = SubSeq(@, 1, k), !.synced = k,
                     !.footer = IF k = Len(segment.frames) THEN @ ELSE NoFooter] :
        k \in segment.synced .. Len(segment.frames)}
    \cup
    {[segment EXCEPT !.frames = Append(SubSeq(@, 1, k), Piece(tear)), !.synced = k + 1,
                     !.footer = NoFooter] :
        k \in segment.synced .. Len(segment.frames) - 1, tear \in Tears}

\* Power loss cuts each segment with unsynced frames somewhere.
Survivors(segs) ==
    LET dirty == {i \in DOMAIN segs : segs[i].synced < Len(segs[i].frames)}
        cuts == {f \in [dirty -> UNION {Remains(segs[i]) : i \in dirty}] :
                    \A i \in dirty : f[i] \in Remains(segs[i])}
    IN  {f @@ segs : f \in cuts}

LosePower ==
    /\ Spend("crashes", 1)
    /\ segments' \in Survivors(segments)
    /\ status' = "down"
    /\ Forget
    /\ UNCHANGED <<compact_src, marker, hidden_file, artifact, history>>

PowerLoss == status \in {"opening", "up", "closing"} /\ LosePower

\* Rotation creates the next segment before it fsyncs the full one; power is
\* lost in between.
PowerLossInRotation ==
    /\ Up
    /\ WrittenFrames(segments[segment_id].frames) >= SegmentFrames
    /\ Spend("crashes", 1)
    /\ segments' \in Survivors((segment_id + 1 :> EmptySegment) @@ segments)
    /\ status' = "down"
    /\ Forget
    /\ UNCHANGED <<compact_src, marker, hidden_file, artifact, history>>

\* Power is lost before the batch's fsync: any part of it may be on disk.
PowerLossInBatch(n) ==
    /\ Up
    /\ budget.crashes > 0 /\ budget.events >= n
    /\ budget' = [budget EXCEPT !.crashes = @ - 1, !.events = @ - n]
    /\ LET w == maybe_rotate_segment("written")
       IN  segments' \in Survivors(Put(w, BatchFrames(n)))
    /\ batches' = batches \cup {NextId .. NextId + n - 1}
    /\ status' = "down"
    /\ Forget
    /\ UNCHANGED <<compact_src, marker, hidden_file, artifact, acked, durable, withheld, revoked>>

\* Mutant: the hidden ranges are not restored.
RestoreUnhidden(plan) ==
    /\ index' = plan.entries
    /\ allocated' = plan.allocator
    /\ visible' = plan.allocator
    /\ cancelled' = {}

\* restore_sorted_entries_with_routing and the hidden ranges.
Restore(plan) ==
    /\ index' = plan.entries
    /\ allocated' = plan.allocator
    /\ visible' = plan.allocator
    /\ cancelled' = hidden_file

\* open_components, then the writer's fresh segment behind the newest file.
Open(fast, lenient) ==
    /\ status = "down"
    /\ budget.events > 0
    /\ LET plan == open_index(disk, artifact, fast, lenient)
           fresh == IF segments = <<>> THEN 1 ELSE Max(DOMAIN segments) + 1
       IN  IF plan.ok
           THEN /\ Restore(plan)
                /\ segments' = (fresh :> EmptySegment) @@ segments
                /\ segment_id' = fresh
                /\ status' = "opening"
           ELSE /\ status' = "refused"
                /\ UNCHANGED <<segments, index, allocated, visible, cancelled, segment_id>>
    /\ UNCHANGED <<compact_src, marker, hidden_file, artifact, fence, collector, budget, history>>

\* append_open_completed_event and the sync behind it.
OpenCompleted ==
    /\ status = "opening"
    /\ budget.events > 0
    /\ Spend("events", 1)
    /\ LET w == maybe_rotate_segment("written")
       IN  /\ segments' = Synced(Put(w, EventFrames(1)), w.segment_id)
           /\ Admit(w, NewEntries(w, 1, 0))
           /\ durable' = durable \cup Held(acked', index')
    /\ status' = "up"
    /\ UNCHANGED <<compact_src, marker, hidden_file, artifact, revoked, batches>>

-----------------------------------------------------------------------------
Init ==
    /\ segments = <<>> /\ compact_src = <<>> /\ marker = NoMarker
    /\ hidden_file = {} /\ artifact = NoArtifact
    /\ index = {} /\ allocated = 0 /\ visible = 0 /\ cancelled = {} /\ fence = NoFence
    /\ segment_id = 0 /\ collector = <<>>
    /\ status = "down"
    /\ budget = [events |-> MaxEvents, crashes |-> MaxCrashes, failures |-> MaxFailures,
                 fences |-> MaxFences, closes |-> MaxCloses]
    /\ acked = <<>> /\ durable = {} /\ withheld = {} /\ revoked = {}
    /\ batches = {}

StorageNext ==
    \/ Append1 \/ AppendFails
    \/ \E n \in BatchSizes :
           \/ AppendBatch(n)
           \/ PowerLossInBatch(n)
           \/ \E k \in 0 .. n + 2 : AppendBatchFails(n, k)
    \/ Sync
    \/ BeginFence \/ CommitFence \/ CancelFence
    \/ Close \/ WriteArtifact
    \/ PowerLoss \/ PowerLossInRotation
    \/ \E fast \in FastStarts, lenient \in BOOLEAN : Open(fast, lenient)
    \/ OpenCompleted

Spec == Init /\ [][StorageNext]_vars

-----------------------------------------------------------------------------
(* Properties.                                                             *)

Running == status \in {"opening", "up", "closing", "compacting"}

\* Every event whose acknowledgement an fsync covered is in the index of every
\* store that opens later: cold start keeps what was promised.
DurableSurvives == Running => durable \subseteq Indexed

\* A directory this code wrote, failed on or lost power over opens again.
OpenSucceeds == status # "refused"

\* Power loss alone makes a directory unreadable only where it cut a frame of a
\* segment that is not the newest: a torn tail of the newest is recovered from.
OnlyOlderRefused ==
    status = "refused" =>
        \E i \in DOMAIN segments : /\ i < Max(DOMAIN segments)
                                   /\ Piece("torn") \in ToSet(segments[i].frames)

\* All of a batch is indexed or none of it, whatever interrupted it and however
\* the index was rebuilt.
BatchesAtomic ==
    Running => \A b \in batches : b \subseteq Indexed \/ b \cap Indexed = {}

\* Sequences order events as they were written, and no event is indexed twice.
OrderKept ==
    \A e, f \in index : /\ e.id < f.id => e.seq < f.seq
                        /\ e.id = f.id => e = f

\* An event keeps the sequence its receipt names; hidden ranges, cursors and
\* idempotent replays are stated in sequences.
SequencesStable ==
    \A e \in index : e.id \in DOMAIN acked => e.seq = acked[e.id]

\* The events of a cancelled fence stay hidden, through every way to open.
RevokedHidden == revoked \cap VisibleIds = {}

\* The events of a fence stay hidden until the fence commits.
FencedHidden == withheld \cap VisibleIds = {}

\* The disk position of an index entry holds that event.
IndexReadable ==
    \A e \in index : read_entry(segments, e.segment_id, e.offset) = e.id

\* Fast start and rebuild are two ways to the same index and allocator.
ColdStartsAgree ==
    status = "down" =>
        open_index(disk, artifact, TRUE, FALSE) = open_index(disk, artifact, FALSE, FALSE)

-----------------------------------------------------------------------------
\* An acknowledged event in the index is visible.  The code does not keep this
\* through a power loss: a cancelled range may outlive its events.
AckedVisible ==
    \A e \in index : e.id \in DOMAIN acked => IsVisible(e)
=============================================================================
