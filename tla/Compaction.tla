------------------------------ MODULE Compaction ------------------------------
(***************************************************************************)
(* Compaction of the sealed segments (lifecycle_compact.rs) over the       *)
(* storage of Storage, one action for each file operation that can fail or *)
(* be the last before power is lost, and the point reads that run beside   *)
(* it: Store::get takes a position from the index and reads it through the *)
(* reader's cache of mapped segments, which compaction evicts.             *)
(*                                                                         *)
(* compact holds the lifecycle gate, so nothing is appended meanwhile;     *)
(* commands about a fence do not pass that gate.  Directory changes reach  *)
(* the disk in the order they are made.                                    *)
(***************************************************************************)
EXTENDS Storage

CONSTANTS
    Strategies,      \* subset of {"merge", "rewrite"}; see CopyFrames
    MaxCompactions,  \* bound: compactions started
    MinSegments,     \* CompactionConfig::min_segments
    FaultSteps,      \* steps at which the disk may refuse
    CrashSteps,      \* steps before which power may be lost
    MaxFaults,       \* bound: such refusals
    MaxReads         \* bound: point reads

Steps == {"evict", "relocate", "create", "copy", "sync", "rebuild", "swap", "remove", "clear",
          "artifact"}

ASSUME CompactionAssumption ==
    /\ Strategies \subseteq {"merge", "rewrite"}
    /\ {MaxCompactions, MaxFaults, MaxReads} \subseteq Nat
    /\ MinSegments \in Nat \ {0}
    /\ FaultSteps \subseteq Steps /\ CrashSteps \subseteq Steps

VARIABLES
    compaction,      \* the call of compact in progress
    fresh,           \* the index it rebuilt off-side, with the hidden ranges
    dropped,         \* history: events a Retention predicate gave up
    sealed_maps,     \* Reader: the contents mapped for a sealed segment
    reader,          \* a Store::get between its lookup and its read
    misread,         \* history: a read answered with another event
    left             \* what the bounds leave of compactions and reads

compactVars == <<compaction, fresh, dropped, left>>
readVars == <<sealed_maps, reader, misread>>
allVars == <<vars, compactVars, readVars>>

NoCompaction == [at |-> "idle", strategy |-> "merge", sealed |-> {}, moved |-> FALSE,
                 lost |-> {}]
NoPlan == [ok |-> FALSE, entries |-> {}, allocator |-> 0, hidden |-> {}]
NoRead == [busy |-> FALSE, entry |-> [id |-> 0, seq |-> 0, segment_id |-> 0, offset |-> 0]]

At(step) == compaction.at = step
GoTo(step) == compaction' = [compaction EXCEPT !.at = step]

\* The disk refuses the step compaction is at.
Fault ==
    /\ compaction.at \in FaultSteps
    /\ left.faults > 0
    /\ left' = [left EXCEPT !.faults = @ - 1]

merged_id == Min(compaction.sealed)

\* What a step leaves alone unless it says otherwise.
Memory == <<index, gateVars, writerVars, budget, history>>

-----------------------------------------------------------------------------
(* Before the swap.                                                        *)

\* compact: sync, list the sealed segments, leave a marker.
Begun(strategy) ==
    LET sealed == {i \in DOMAIN segments : i < Max(DOMAIN segments)}
    IN  /\ Up
        /\ left.compactions > 0
        /\ left' = [left EXCEPT !.compactions = @ - 1]
        /\ segments' = Synced(segments, segment_id)
        /\ durable' = durable \cup Held(acked, index)
        /\ IF Cardinality(sealed) < MinSegments
           THEN UNCHANGED <<marker, status, compaction>>
           ELSE /\ marker' = [merged_id |-> Min(sealed), source_segment_ids |-> sealed]
                /\ status' = "compacting"
                /\ compaction' = [at |-> "evict", strategy |-> strategy, sealed |-> sealed,
                                  moved |-> FALSE, lost |-> {}]
        /\ UNCHANGED <<compact_src, hidden_file, artifact, index, gateVars, writerVars, budget,
                       acked, withheld, revoked, batches, fresh, dropped, readVars>>

\* materialize_compacted_segment evicts every sealed segment from the reader.
Evict ==
    /\ At("evict")
    /\ sealed_maps' = [i \in DOMAIN sealed_maps \ compaction.sealed |-> sealed_maps[i]]
    /\ GoTo("relocate")
    /\ UNCHANGED <<vars, fresh, dropped, left, reader, misread>>

\* relocate_merged_source_if_present
Relocate ==
    /\ At("relocate")
    /\ compact_src' = <<segments[merged_id]>>
    /\ segments' = [i \in DOMAIN segments \ {merged_id} |-> segments[i]]
    /\ compaction' = [compaction EXCEPT !.at = "create", !.moved = TRUE]
    /\ UNCHANGED <<marker, hidden_file, artifact, status, Memory, fresh, dropped, left, readVars>>

\* create_with_created_ns_on syncs the header and the directory.
Create ==
    /\ At("create")
    /\ segments' = (merged_id :> EmptySegment) @@ segments
    /\ GoTo("copy")
    /\ UNCHANGED <<compact_src, marker, hidden_file, artifact, status, Memory, fresh, dropped,
                   left, readVars>>

\* Mutant: the source set aside is copied last.
SourcesRotated ==
    [k \in 1 .. Cardinality(compaction.sealed) - 1 |->
        segments[Ascending(compaction.sealed)[k + 1]]] \o compact_src

\* The sources in order; the first is the file set aside.
Sources ==
    compact_src \o [k \in 1 .. Cardinality(compaction.sealed) - 1 |->
                        segments[Ascending(compaction.sealed)[k + 1]]]

SourceFrames == FlattenSeq([k \in DOMAIN Sources |-> Sources[k].frames])

\* Merge copies frames as they are (append_frames_from_segment).  Retention and
\* Tombstone decode the events, refusing a torn frame, and write those they
\* keep without the batch markers.
CopyFrames(lost) ==
    IF compaction.strategy = "merge" THEN SourceFrames
    ELSE SelectSeq(SourceFrames, LAMBDA f : f.kind = "event" /\ f.id \notin lost)

\* Reader::scan_segment ends cleanly at a piece too short for a header.
CopyReadable ==
    \/ compaction.strategy = "merge"
    \/ \A k \in DOMAIN Sources : \A i \in DOMAIN Sources[k].frames :
           Whole(Sources[k].frames[i]) \/ Tolerated(Sources[k], i, FALSE, FALSE)

\* The events a Retention predicate may turn down.
Expendable == {f.id : f \in {f \in ToSet(SourceFrames) : f.kind = "event"}}

Copy ==
    /\ At("copy") /\ CopyReadable
    /\ \E lost \in IF compaction.strategy = "merge" THEN {{}}
                   ELSE {{}} \cup {{i} : i \in Expendable} :
           /\ segments' = [segments EXCEPT ![merged_id].frames = CopyFrames(lost)]
           /\ compaction' = [compaction EXCEPT !.at = "sync", !.lost = lost]
    /\ UNCHANGED <<compact_src, marker, hidden_file, artifact, status, Memory, fresh, dropped,
                   left, readVars>>

\* Mutant: the merged segment is left to the page cache.
SyncMergedSkipped ==
    /\ At("sync")
    /\ GoTo("rebuild")
    /\ UNCHANGED <<vars, fresh, dropped, left, readVars>>

SyncMerged ==
    /\ At("sync")
    /\ segments' = Synced(segments, merged_id)
    /\ GoTo("rebuild")
    /\ UNCHANGED <<compact_src, marker, hidden_file, artifact, status, Memory, fresh, dropped,
                   left, readVars>>

\* rebuild_fresh_compaction_index
Rebuild(lenient) ==
    /\ At("rebuild")
    /\ LET plan == collect_rebuild_entries(disk, segment_id, lenient)
       IN  /\ plan.ok
           /\ fresh' = [ok |-> TRUE, entries |-> plan.entries, allocator |-> plan.allocator,
                        hidden |-> hidden_file]
    /\ GoTo("swap")
    /\ UNCHANGED <<vars, dropped, left, readVars>>

\* rollback_compaction_disk_state
rollback_compaction_disk_state(segs, source, moved) ==
    LET cleared == [i \in DOMAIN segs \ {merged_id} |-> segs[i]]
    IN  IF moved THEN [segments |-> (merged_id :> source[1]) @@ cleared, compact_src |-> <<>>]
        ELSE [segments |-> cleared, compact_src |-> source]

\* failed_compaction_with_rollback
RollBack ==
    LET restored == rollback_compaction_disk_state(segments, compact_src, compaction.moved)
    IN  /\ segments' = restored.segments
        /\ compact_src' = restored.compact_src
        /\ marker' = NoMarker
        /\ status' = "up"
        /\ compaction' = NoCompaction

\* A step before the swap fails: at a refusal of the disk, or because the
\* sources or the merged layout cannot be read.
PreSwapFails ==
    /\ compaction.at \in {"relocate", "create", "copy", "sync", "rebuild"}
    /\ \/ Fault
       \/ /\ \/ At("copy") /\ ~CopyReadable
             \/ At("rebuild") /\ \E lenient \in BOOLEAN :
                                     ~collect_rebuild_entries(disk, segment_id, lenient).ok
          /\ UNCHANGED left
    /\ RollBack
    /\ UNCHANGED <<hidden_file, artifact, Memory, fresh, dropped, readVars>>

-----------------------------------------------------------------------------
(* From the swap on.                                                       *)

\* Mutant: the gate is swapped and the entries are not.
SwapKeepingIndex ==
    /\ allocated' = fresh.allocator
    /\ visible' = fresh.allocator
    /\ cancelled' = fresh.hidden
    /\ fence' = NoFence
    /\ UNCHANGED index

\* The index walks by_id, where the last of several entries for an event won.
ById(entries) ==
    {e \in entries : \A f \in entries : f.id = e.id => f.seq <= e.seq}

\* replace_contents_from_fresh: the gate is cleared, an open fence with it.
replace_contents_from_fresh ==
    /\ index' = ById(fresh.entries)
    /\ allocated' = fresh.allocator
    /\ visible' = fresh.allocator
    /\ cancelled' = fresh.hidden
    /\ fence' = NoFence

Swap ==
    /\ At("swap")
    /\ replace_contents_from_fresh
    /\ dropped' = dropped \cup compaction.lost
    /\ fresh' = NoPlan
    /\ GoTo("remove")
    /\ UNCHANGED <<diskVars, writerVars, status, budget, history, left, readVars>>

\* One source a step, the one set aside first.
RemoveSource ==
    LET others == (compaction.sealed \ {merged_id}) \cap DOMAIN segments
    IN  /\ At("remove")
        /\ IF compact_src # <<>>
           THEN compact_src' = <<>> /\ UNCHANGED <<segments, compaction>>
           ELSE IF others # {}
           THEN /\ segments' = [i \in DOMAIN segments \ {Min(others)} |-> segments[i]]
                /\ UNCHANGED <<compact_src, compaction>>
           ELSE GoTo("clear") /\ UNCHANGED <<segments, compact_src>>
        /\ UNCHANGED <<marker, hidden_file, artifact, status, Memory, fresh, dropped, left,
                       readVars>>

\* clear_pending_compaction
ClearMarker ==
    /\ At("clear")
    /\ marker' = NoMarker
    /\ GoTo("artifact")
    /\ UNCHANGED <<segments, compact_src, hidden_file, artifact, status, Memory, fresh, dropped,
                   left, readVars>>

\* A source or the marker cannot be removed: compact returns the error as it is.
CleanupFails ==
    /\ compaction.at \in {"remove", "clear"} /\ Fault
    /\ status' = "up"
    /\ compaction' = NoCompaction
    /\ UNCHANGED <<diskVars, Memory, fresh, dropped, readVars>>

\* The cold-start artifacts are refreshed if they can be.
Refresh ==
    /\ At("artifact")
    /\ \/ TRUE \in FastStarts /\ artifact' = NewArtifact /\ UNCHANGED left
       \/ FALSE \in FastStarts /\ UNCHANGED <<artifact, left>>
       \/ Fault /\ UNCHANGED artifact
    /\ status' = "up"
    /\ compaction' = NoCompaction
    /\ UNCHANGED <<segments, compact_src, marker, hidden_file, Memory, fresh, dropped, readVars>>

\* Power is lost before the step compaction is at.
CompactPowerLoss ==
    /\ status = "compacting" /\ compaction.at \in CrashSteps
    /\ LosePower
    /\ dropped' = dropped \cup compaction.lost
    /\ compaction' = NoCompaction
    /\ fresh' = NoPlan
    /\ sealed_maps' = <<>>
    /\ reader' = NoRead
    /\ UNCHANGED <<left, misread>>

-----------------------------------------------------------------------------
(* Point reads.                                                            *)

\* Store::get finds the entry in the index...
Lookup(e) ==
    /\ Serving /\ ~reader.busy
    /\ left.reads > 0
    /\ IsVisible(e)
    /\ left' = [left EXCEPT !.reads = @ - 1]
    /\ reader' = [busy |-> TRUE, entry |-> e]
    /\ UNCHANGED <<vars, compaction, fresh, dropped, sealed_maps, misread>>

\* Reader::get_or_map_sealed
get_or_map_sealed(i) ==
    IF i < segment_id /\ i \notin DOMAIN sealed_maps /\ i \in DOMAIN segments
    THEN (i :> segments[i]) @@ sealed_maps
    ELSE sealed_maps

\* ... and reads it: a sealed segment through its mapping, the active one from
\* its file.
Fetch ==
    LET e == reader.entry
        maps == get_or_map_sealed(e.segment_id)
        answer == read_entry(IF e.segment_id < segment_id THEN maps ELSE segments,
                             e.segment_id, e.offset)
    IN  /\ Serving /\ reader.busy
        /\ sealed_maps' = maps
        /\ misread' = (misread \/ answer \notin {0, e.id})
        /\ reader' = NoRead
        /\ UNCHANGED <<vars, compactVars>>

-----------------------------------------------------------------------------
\* A step of Storage; a store that goes down takes its reader with it.
OnStorage(step) ==
    /\ step
    /\ UNCHANGED <<compactVars, misread>>
    /\ IF status' = "down" THEN sealed_maps' = <<>> /\ reader' = NoRead
       ELSE UNCHANGED <<sealed_maps, reader>>

StorageStep == OnStorage(StorageNext)

CompactionInit ==
    /\ Init
    /\ compaction = NoCompaction /\ fresh = NoPlan /\ dropped = {}
    /\ sealed_maps = <<>> /\ reader = NoRead /\ misread = FALSE
    /\ left = [compactions |-> MaxCompactions, reads |-> MaxReads,
              faults |-> MaxFaults]

CompactionNext ==
    \/ StorageStep
    \/ \E strategy \in Strategies : Begun(strategy)
    \/ Evict \/ Relocate \/ Create \/ Copy \/ SyncMerged
    \/ \E lenient \in BOOLEAN : Rebuild(lenient)
    \/ PreSwapFails
    \/ Swap \/ RemoveSource \/ ClearMarker \/ CleanupFails \/ Refresh
    \/ CompactPowerLoss
    \/ \E e \in index : Lookup(e)
    \/ Fetch

CompactionSpec == CompactionInit /\ [][CompactionNext]_allVars

-----------------------------------------------------------------------------
(* Properties.                                                             *)

\* Compaction, its failures and its interruptions lose no durable event: what
\* is not in the index was given up by a Retention predicate.
DurableKept == Running => durable \ (dropped \cup compaction.lost) \subseteq Indexed

\* A compaction that returned, performed or failed, leaves every position of
\* the index pointing at its event.
ReadableAtRest == status # "compacting" => IndexReadable

\* Store::get answers with the event it was asked for or with an error, never
\* with another event, whatever compaction does meanwhile.
ReadsRight == ~misread

-----------------------------------------------------------------------------
(* What the code documents of compaction and does not keep.                *)

\* Of each batch all is indexed that a predicate did not give up, or nothing:
\* Retention and Tombstone copy an interrupted batch without its markers.
BatchesWhole ==
    Running => \A b \in batches : \/ b \ (dropped \cup compaction.lost) \subseteq Indexed
                                  \/ b \cap Indexed = {}

\* What the reader keeps mapped is what the files hold once no compaction is
\* under way: a read between eviction and removal maps a source again.
MappingsFresh ==
    Up => \A i \in DOMAIN sealed_maps :
              i \in DOMAIN segments /\ sealed_maps[i].frames = segments[i].frames
=============================================================================
