----------------------------- MODULE Idempotency -----------------------------
(***************************************************************************)
(* Appends with an idempotency key over the storage of Compaction: the     *)
(* writer answers a key it knows with the receipt of the first append, and *)
(* the sidecar index.idemp is to keep that memory through close, power     *)
(* loss, cold start and compaction, whether or not Retention has given up  *)
(* the event since.                                                        *)
(*                                                                         *)
(* The key of an append is the id of its event; Storage numbers events, so *)
(* key_of holds the key in the frame of each.  The sidecar is replaced     *)
(* atomically and fsynced.  Fences are left out: what Retention does to    *)
(* hidden ranges is Compaction's subject, and a key is recorded alike      *)
(* inside a fence and outside.                                             *)
(***************************************************************************)
EXTENDS Compaction, IdempotencyStore

CONSTANTS
    Keys,            \* idempotency keys the clients use
    MaxSnapshots     \* bound: snapshots and forks taken

ASSUME IdempotencyAssumption == MaxSnapshots \in Nat

VARIABLES
    idemp,           \* StoreIndex::idemp
    idemp_file,      \* index.idemp
    key_of,          \* the key in the frame of each keyed event
    receipts,        \* history: the event and sequence of each key's first receipt
    snapshots        \* what the bound leaves of snapshots

idempVars == <<idemp, idemp_file, key_of, receipts, snapshots>>
everything == <<allVars, idempVars>>

\* Events of the index with this key; by_id keeps the one inserted last.
Carrying(k) == {e \in index : e.id \in DOMAIN key_of /\ key_of[e.id] = k}

\* Mutant: a key is looked up in the sidecar's map only.
AnswersFromMap(k) ==
    IF k \in DOMAIN idemp THEN {[id |-> idemp[k].id, seq |-> idemp[k].seq]} ELSE {}

\* What a keyed append is answered with instead of being committed: the map
\* first, then the visible event by_id has.  At most one.
Answers(k) ==
    IF k \in DOMAIN idemp THEN {[id |-> idemp[k].id, seq |-> idemp[k].seq]}
    ELSE {[id |-> e.id, seq |-> e.seq] :
             e \in {e \in Carrying(k) : IsVisible(e) /\ \A f \in Carrying(k) : f.seq <= e.seq}}

KnownKey(k) == Answers(k) # {}

\* The entries a write of keys ks makes: one event each, in order.
Recorded(map, ks) ==
    FoldLeftDomain(LAMBDA m, i : record(m, ks[i], NewEntry(NextId + i - 1, allocated + i - 1)),
                   map, ks)

\* The frames and the sidecar's entries of keys ks.
WriteKeys(admitted, ks) ==
    /\ idemp' = Recorded(admitted, ks)
    /\ key_of' = [i \in NextId .. NextId + Len(ks) - 1 |-> ks[i - NextId + 1]] @@ key_of
    /\ receipts' = [k \in ToSet(ks) |-> LET e == idemp'[k] IN [id |-> e.id, seq |-> e.seq]]
                   @@ receipts
    /\ UNCHANGED <<idemp_file, snapshots>>

\* handle_append with a key it does not know.
AppendKeyed(k) ==
    LET admission == admit_unique_new_count(idemp, 1, allocated)
    IN  /\ ~KnownKey(k) /\ admission.ok
        /\ OnStorage(Append1)
        /\ WriteKeys(admission.map, <<k>>)

\* preflight_batch_idempotency and admit_new_keys: a batch of keys not one of
\* which is known, and no two equal.
AppendBatchKeyed(ks) ==
    LET admission == admit_unique_new_count(idemp, Len(ks), allocated)
    IN  /\ \A k \in ToSet(ks) : ~KnownKey(k)
        /\ IsInjective(ks)
        /\ admission.ok
        /\ OnStorage(AppendBatch(Len(ks)))
        /\ WriteKeys(admission.map, ks)

\* The cap refuses new keys; admission may have aged others out before.
Refuse(ks) ==
    LET admission == admit_unique_new_count(idemp, Len(ks), allocated)
    IN  /\ Up
        /\ \A k \in ToSet(ks) : ~KnownKey(k)
        /\ IsInjective(ks)
        /\ ~admission.ok
        /\ idemp' = admission.map
        /\ UNCHANGED <<allVars, idemp_file, key_of, receipts, snapshots>>

-----------------------------------------------------------------------------
(* The sidecar file.                                                       *)

\* Mutant: the journal is not synced first.
SnapshotUnsynced ==
    /\ Up
    /\ snapshots > 0
    /\ snapshots' = snapshots - 1
    /\ idemp_file' = idemp
    /\ UNCHANGED <<allVars, idemp, key_of, receipts>>

\* snapshot and fork hold the lifecycle gate and a fence of their own, sync and
\* flush the sidecar before they copy the directory.
Snapshot ==
    /\ snapshots > 0
    /\ snapshots' = snapshots - 1
    /\ OnStorage(Sync)
    /\ idemp_file' = idemp
    /\ UNCHANGED <<idemp, key_of, receipts>>

\* close flushes the sidecar between the writer's shutdown and the artifacts.
FlushOnClose ==
    /\ status = "closing" /\ idemp_file # idemp
    /\ idemp_file' = idemp
    /\ UNCHANGED <<allVars, idemp, key_of, receipts, snapshots>>

\* What the tail of compact makes of the map: mark_idemp_evicted_against_live,
\* then evict.
CompactionTail == evict(mark_evicted(idemp, Indexed), allocated)

TailDone == idemp = CompactionTail /\ idemp_file = idemp

FlushAfterCompaction ==
    /\ At("artifact") /\ ~TailDone
    /\ idemp' = CompactionTail
    /\ idemp_file' = idemp'
    /\ UNCHANGED <<allVars, key_of, receipts, snapshots>>

\* The file cannot be replaced: compact returns the error.
FlushFails ==
    /\ At("artifact") /\ ~TailDone /\ Fault
    /\ idemp' = CompactionTail
    /\ status' = "up"
    /\ compaction' = NoCompaction
    /\ UNCHANGED <<diskVars, Memory, fresh, dropped, readVars, idemp_file, key_of, receipts,
                   snapshots>>

\* read_idemp_file and restore.
RestoreIdemp == idemp' = idemp_file

-----------------------------------------------------------------------------
\* The steps that concern no key; the artifacts follow the sidecar.
Unkeyed ==
    /\ \/ OnStorage(Sync \/ Close \/ OpenCompleted)
       \/ idemp_file = idemp /\ OnStorage(WriteArtifact)
       \/ \E strategy \in Strategies : Begun(strategy)
       \/ Evict \/ Relocate \/ Create \/ Copy \/ SyncMerged
       \/ Rebuild(FALSE)
       \/ PreSwapFails
       \/ Swap \/ RemoveSource \/ ClearMarker \/ CleanupFails
       \/ TailDone /\ Refresh
    /\ UNCHANGED idempVars

\* A key the file does not have when power is lost is not owed any more.
ForgetKeys ==
    /\ idemp' = <<>>
    /\ receipts' = Restrict(receipts, {k \in DOMAIN receipts \cap DOMAIN idemp_file :
                                          idemp_file[k].id = receipts[k].id})
    /\ UNCHANGED <<idemp_file, key_of, snapshots>>

PowerLost ==
    /\ OnStorage(PowerLoss) \/ CompactPowerLoss
    /\ ForgetKeys

Reopen ==
    /\ \E fast \in FastStarts : OnStorage(Open(fast, FALSE))
    /\ RestoreIdemp
    /\ UNCHANGED <<idemp_file, key_of, receipts, snapshots>>

IdempotencyInit ==
    /\ CompactionInit
    /\ idemp = <<>> /\ idemp_file = <<>> /\ key_of = <<>> /\ receipts = <<>>
    /\ snapshots = MaxSnapshots

Batches == UNION {[1 .. n -> Keys] : n \in BatchSizes}

IdempotencyNext ==
    \/ \E k \in Keys : AppendKeyed(k) \/ Refuse(<<k>>)
    \/ \E ks \in Batches : AppendBatchKeyed(ks) \/ Refuse(ks)
    \/ Snapshot \/ FlushOnClose \/ FlushAfterCompaction \/ FlushFails
    \/ Unkeyed \/ PowerLost \/ Reopen

IdempotencySpec == IdempotencyInit /\ [][IdempotencyNext]_everything

-----------------------------------------------------------------------------
(* Properties.                                                             *)

\* Within keep_sequences of the frontier, counted in the events written since.
Owed(k) == retention = "unbounded" \/ NextId - receipts[k].id <= keep_sequences

\* A key is answered with its first receipt for as long as its window lasts,
\* through close, cold start, Retention and renumbering, and through each power
\* loss the sidecar had it at: a repeated append within it commits nothing.
WindowKept ==
    Up => \A k \in DOMAIN receipts : Owed(k) => Answers(k) = {receipts[k]}

\* No two visible events carry the same key, whatever the sidecar has lost: an
\* append is repeated only once its event is out of reach of every reader.
KeyOnce ==
    \A e, f \in index :
        /\ e.id \in DOMAIN key_of /\ f.id \in DOMAIN key_of
        /\ key_of[e.id] = key_of[f.id]
        /\ IsVisible(e) /\ IsVisible(f)
        => e = f

\* A key the sidecar answers for has an event in the index or one Retention gave
\* up, and says which: never one that power loss took.
SidecarHonest ==
    Up => \A k \in DOMAIN idemp :
              IF idemp[k].id \in Indexed THEN ~idemp[k].evicted
              ELSE idemp[k].id \in dropped

\* Where the policy is to refuse, the map never outgrows the soft cap.
CapKept ==
    (retention = "hybrid" /\ overflow = "fail_closed") => Cardinality(DOMAIN idemp) <= max_keys

-----------------------------------------------------------------------------
\* What the sidecar is documented to give every key: one whose event was durable
\* is known while its window lasts.  A power loss before the next flush leaves
\* the key to its event, and Retention then takes that.
DurableWindow ==
    Up => \A k \in Keys : \A i \in durable :
              /\ i \in DOMAIN key_of /\ key_of[i] = k
              /\ NextId - i <= keep_sequences
              => KnownKey(k)
=============================================================================
