------------------------------ MODULE ColdStart ------------------------------
(***************************************************************************)
(* What cold start computes from a data directory: the operators behind    *)
(* cold_start/rebuild.rs, cold_start/rebuild/topology.rs and the frame     *)
(* scanner of segment/scan/recovery.rs.                                    *)
(*                                                                         *)
(* A segment is a sequence of frames.  An offset is a frame's place in it, *)
(* and 0 stands for an offset that points inside a frame.  A "torn" piece  *)
(* holds a frame's header and part of its payload, a "short" one less than *)
(* a header; whatever was written behind such a piece is out of step with  *)
(* the offsets the writer recorded for it.                                 *)
(***************************************************************************)
EXTENDS Integers, SequencesExt

Event(id) == [kind |-> "event", id |-> id, count |-> 0]
Begin(n) == [kind |-> "begin", id |-> 0, count |-> n]
Commit == [kind |-> "commit", id |-> 0, count |-> 0]
Piece(kind) == [kind |-> kind, id |-> 0, count |-> 0]

Pieces == {"torn", "short"}
Whole(frame) == frame.kind \notin Pieces

NoFooter == [present |-> FALSE, entries |-> <<>>]
EmptySegment == [frames |-> <<>>, synced |-> 0, footer |-> NoFooter]

\* Segment::write_frame counts the bytes of the frames it wrote completely.
WrittenFrames(frames) == Len(SelectSeq(frames, Whole))
NextOffset(frames) == IF \A i \in DOMAIN frames : Whole(frames[i]) THEN Len(frames) + 1 ELSE 0

\* The length of the file: the footer ends it.
FileLen(segment) == Len(segment.frames) + IF segment.footer.present THEN 1 ELSE 0

\* Reader::read_entry: the event at a position, 0 when there is none.
read_entry(segments, segment_id, offset) ==
    IF /\ segment_id \in DOMAIN segments
       /\ offset \in DOMAIN segments[segment_id].frames
       /\ segments[segment_id].frames[offset].kind = "event"
    THEN segments[segment_id].frames[offset].id
    ELSE 0

-----------------------------------------------------------------------------
(* The frame scanner.  Its state: the batch recovery state, the entries    *)
(* found, the sequence the next one without a recorded one gets, and the   *)
(* watermark below which entries are known already.                        *)

NoWatermark == [segment_id |-> 0, offset |-> 0]

ScanFrom(next, watermark) ==
    [in_batch |-> FALSE, remaining |-> 0, staged |-> <<>>, entries |-> {},
     next |-> next, watermark |-> watermark, ok |-> TRUE]

Known(scan, found) ==
    /\ found.segment_id = scan.watermark.segment_id
    /\ found.offset <= scan.watermark.offset

\* Mutant: SequenceTracker skips a sequence behind every entry it notes.
SinkSkipping(scan, found, seq) ==
    IF Known(scan, found) THEN scan
    ELSE [scan EXCEPT
            !.entries = @ \cup {[id |-> found.id, seq |-> seq,
                                 segment_id |-> found.segment_id, offset |-> found.offset]},
            !.next = IF seq >= @ THEN seq + 2 ELSE @]

\* Mutant: SequenceTracker notes the entry's own sequence as the next.
SinkBehind(scan, found, seq) ==
    IF Known(scan, found) THEN scan
    ELSE [scan EXCEPT
            !.entries = @ \cup {[id |-> found.id, seq |-> seq,
                                 segment_id |-> found.segment_id, offset |-> found.offset]},
            !.next = IF seq >= @ THEN seq ELSE @]

\* The sink of a scan: an entry is indexed under its sequence and noted by
\* SequenceTracker.
SinkAt(scan, found, seq) ==
    IF Known(scan, found) THEN scan
    ELSE [scan EXCEPT
            !.entries = @ \cup {[id |-> found.id, seq |-> seq,
                                 segment_id |-> found.segment_id, offset |-> found.offset]},
            !.next = IF seq >= @ THEN seq + 1 ELSE @]

Sink(scan, found) == SinkAt(scan, found, scan.next)

\* Mutant: the state of a finished batch is kept.
LeaveBatchOpen(scan) == [scan EXCEPT !.remaining = 0, !.staged = <<>>]

LeaveBatch(scan) == [scan EXCEPT !.in_batch = FALSE, !.remaining = 0, !.staged = <<>>]

\* A COMMIT marker inside a batch.
CommitBatch(scan) ==
    LeaveBatch(IF scan.remaining = 0 THEN FoldLeft(Sink, scan, scan.staged) ELSE scan)

\* Mutant: an entry of an unfinished batch is released at once.
StageEagerly(scan, found) == Sink(scan, found)

\* BatchRecoveryState::stage_entry; one entry too many discards the batch.
StageEntry(scan, found) ==
    IF scan.remaining = 0 THEN LeaveBatch(scan)
    ELSE [scan EXCEPT !.staged = Append(@, found), !.remaining = @ - 1]

ScanFrame(scan, frame, found) ==
    CASE frame.kind = "begin" ->
            [scan EXCEPT !.in_batch = TRUE, !.remaining = frame.count, !.staged = <<>>]
      [] frame.kind = "commit" -> IF scan.in_batch THEN CommitBatch(scan) ELSE scan
      [] OTHER -> IF scan.in_batch THEN StageEntry(scan, found) ELSE Sink(scan, found)

\* Reader::sidx_covers_segment_tail
sidx_covers_segment_tail(segment) ==
    /\ segment.footer.present
    /\ segment.footer.entries # <<>>
    /\ Last(segment.footer.entries).offset = Len(segment.frames)

\* Mutant: no tail is torn, every piece is corruption.
ToleratedNever(segment, piece, recoverTail, lenient) == FALSE

\* A piece at the end of the file is a torn tail.  One with frames or a footer
\* behind it swallows bytes of those, and what the scanner makes of it depends
\* on them: lenient chooses.
Tolerated(segment, piece, recoverTail, lenient) ==
    IF piece = FileLen(segment)
    THEN recoverTail \/ segment.frames[piece].kind = "short"
    ELSE recoverTail /\ lenient

ScanFrames(scan, segment, segment_id, recoverTail, lenient) ==
    LET pieces == {i \in DOMAIN segment.frames : ~Whole(segment.frames[i])}
        end == IF pieces = {} THEN Len(segment.frames) ELSE Min(pieces) - 1
        Step(s, i) == ScanFrame(s, segment.frames[i],
                                [id |-> segment.frames[i].id, segment_id |-> segment_id,
                                 offset |-> i])
        scanned == FoldLeftDomain(Step, scan, SubSeq(segment.frames, 1, end))
    IN  [scanned EXCEPT !.ok = pieces = {} \/
                               Tolerated(segment, end + 1, recoverTail, lenient)]

SinkFooter(scan, segment, segment_id) ==
    FoldLeft(LAMBDA s, e : SinkAt(s, [id |-> e.id, segment_id |-> segment_id,
                                      offset |-> e.offset], e.seq),
             scan, segment.footer.entries)

\* Reader::scan_segment_index_into_with_tail_policy, after the file name was
\* found to be a segment's.
ScanSegment(scan, segment, segment_id, isActive, recoverTail, lenient) ==
    IF ~scan.ok THEN scan
    ELSE IF ~isActive /\ ~scan.in_batch /\ sidx_covers_segment_tail(segment)
         THEN SinkFooter(scan, segment, segment_id)
         ELSE ScanFrames(scan, segment, segment_id, recoverTail, lenient)

-----------------------------------------------------------------------------
(* The segment files a rebuild reads.  disk holds the directory: segments, *)
(* the source set aside by a compaction (a sequence of at most one) and    *)
(* the pending-compaction marker (merged_id is 0 without one).             *)

NoMarker == [merged_id |-> 0, source_segment_ids |-> {}]

\* segment_paths: which segments, whether the first is the set-aside source,
\* and whether every source of an unfinished compaction is there.
segment_paths(disk) ==
    LET ids == DOMAIN disk.segments
        merged == disk.marker.merged_id
        others == disk.marker.source_segment_ids \ {merged}
        setAside == disk.compact_src # <<>>
    IN  IF merged = 0 \/ (merged \in ids /\ ~setAside /\ others \cap ids = {})
        THEN [ids |-> ids, setAside |-> FALSE, ok |-> TRUE]
        ELSE IF merged \in ids
        THEN [ids |-> ids \ others, setAside |-> FALSE, ok |-> TRUE]
        ELSE [ids |-> ids \cup (IF setAside THEN {merged} ELSE {}), setAside |-> setAside,
              ok |-> others \subseteq ids]

Ascending(ids) == SetToSortSeq(ids, <)

\* The file of segment i: compact_src has a segment's footer, but its name is
\* not a segment's and the frame scanner passes over it.
SetAside(disk, paths, i) == paths.setAside /\ i = disk.marker.merged_id

\* scanned_entries_from_sidx_footer reads back the extensions of every entry.
FooterUsable(disk, paths, i) ==
    LET file == IF SetAside(disk, paths, i) THEN disk.compact_src[1] ELSE disk.segments[i]
    IN  /\ file.footer.present
        /\ \A k \in DOMAIN file.footer.entries :
               read_entry(disk.segments, i, file.footer.entries[k].offset) # 0

ScanAll(scan, disk, paths, ids, recoverable, lenient) ==
    FoldLeft(LAMBDA s, i :
                 IF SetAside(disk, paths, i) THEN s
                 ELSE ScanSegment(s, disk.segments[i], i, FALSE, i = recoverable, lenient),
             scan, Ascending(ids))

\* read_sealed_sidx_entries_parallel
SinkFooters(disk, ids) ==
    FoldLeft(LAMBDA s, i : SinkFooter(s, disk.segments[i], i),
             ScanFrom(0, NoWatermark), Ascending(ids))

\* collect_rebuild_entries; active is 0 while a store opens.
collect_rebuild_entries(disk, active, lenient) ==
    LET paths == segment_paths(disk)
        sealed == {i \in paths.ids : active = 0 \/ i < active}
        recoverable == IF paths.ids = {} THEN 0 ELSE Max(paths.ids)
        history == IF \A i \in sealed : FooterUsable(disk, paths, i)
                   THEN SinkFooters(disk, sealed)
                   ELSE ScanAll(ScanFrom(0, NoWatermark), disk, paths, sealed, recoverable,
                                lenient)
        scan == IF active \in paths.ids
                THEN ScanSegment(LeaveBatch(history), disk.segments[active], active, TRUE,
                                 TRUE, lenient)
                ELSE history
    IN  [ok |-> paths.ok /\ scan.ok, entries |-> scan.entries, allocator |-> scan.next]

\* validate_watermark_segment
WatermarkValid(disk, watermark) ==
    /\ watermark.segment_id \in DOMAIN disk.segments
    /\ FileLen(disk.segments[watermark.segment_id]) >= watermark.offset

\* build_snapshot_plan with collect_tail_entries: the entries of the artifact
\* and those the segments hold behind its watermark.
build_snapshot_plan(disk, artifact, lenient) ==
    LET paths == segment_paths(disk)
        tail == {i \in paths.ids : i >= artifact.watermark.segment_id}
        scan == ScanAll(ScanFrom(artifact.allocator, artifact.watermark), disk, paths, tail,
                        Max(paths.ids), lenient)
    IN  [ok |-> scan.ok, entries |-> artifact.entries \cup scan.entries,
         allocator |-> scan.next]

\* RestorePlanner::build; fast is the configured cold-start policy.
open_index(disk, artifact, fast, lenient) ==
    IF /\ fast /\ artifact.present
       /\ disk.marker.merged_id = 0
       /\ WatermarkValid(disk, artifact.watermark)
    THEN build_snapshot_plan(disk, artifact, lenient)
    ELSE collect_rebuild_entries(disk, 0, lenient)
=============================================================================
