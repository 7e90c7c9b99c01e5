------------------------------- MODULE Writer -------------------------------
(***************************************************************************)
(* The writer thread (store/write/writer.rs and writer/).  It takes        *)
(* commands from a bounded channel, one at a time, and is the only one to  *)
(* allocate sequences, write frames, fill the index and publish.           *)
(*                                                                         *)
(* A command runs in several steps because other threads look at the gate, *)
(* the index and the watermarks in between, and because an I/O step may    *)
(* fail or the thread may panic.  pc is the step the thread is at.         *)
(*                                                                         *)
(* Abstracted: payloads, hashes and wall clocks; a frame is what it holds, *)
(* a segment is full after SegmentFrames frames.                           *)
(***************************************************************************)
EXTENDS SequenceGate, Frontier, Sequences

CONSTANTS
    Lane0,             \* the lane of the store's own lifecycle events
    MaxRequests,       \* bound: commands issued in a behaviour
    GroupCommitBudget, \* group_commit_drain_budget
    DrainLimit,        \* shutdown_drain_limit
    SyncEvery,         \* sync.every_n_events
    SegmentFrames,     \* segment_max_bytes, in frames
    MaxFaults,         \* bound: refused appends and failing I/O calls
    MaxPanics,         \* bound: panics of the writer thread
    MaxRestarts        \* RestartPolicy: restarts before the thread gives up

Requests == 1 .. MaxRequests

ASSUME WriterAssumption ==
    /\ Lane0 \in Lanes
    /\ MaxRequests \in Nat
    /\ GroupCommitBudget \in Nat
    /\ DrainLimit \in Nat
    /\ SyncEvery \in Nat
    /\ SegmentFrames \in Nat \ {0}
    /\ MaxFaults \in Nat
    /\ MaxPanics \in Nat
    /\ MaxRestarts \in Nat

VARIABLES
    request,       \* the commands: operation, fence token, lane of each item
    reply,         \* what the responder of each command has been told
    queue,         \* the command channel
    pc,            \* step of the writer thread
    cur,           \* the command it executes
    phase,         \* WriterLoopPhase
    work,          \* next item, first sequence, lane points of the command
    barrier_ok,    \* result of the sync barrier before a deferred reply
    drained,       \* events of this group commit, commands of the shutdown drain
    since_sync,    \* events_since_sync
    fence_ledger,  \* FenceLedger of the open fence, or NoLedger
    entries,       \* the index: sequence, lane and command of each event
    log,           \* frames in the order they were written
    stable,        \* positions of log that survive a power loss
    segment,       \* id of the active segment
    segment_len,   \* frames written to it
    newest_file,   \* highest segment id that has a file
    hidden_file,   \* sequences in the persisted hidden-ranges file
    notified,      \* sequences broadcast to subscribers
    faults, panics, restarts

indexVars  == <<entries, notified, hidden_file>>
diskVars   == <<log, stable, segment, segment_len, newest_file>>
loopVars   == <<pc, cur, phase, work, barrier_ok, drained, since_sync>>
budgetVars == <<faults, panics, restarts>>
writerVars == <<gateVars, frontierVars, request, reply, queue, loopVars,
                fence_ledger, indexVars, diskVars, budgetVars>>

-----------------------------------------------------------------------------
(* Commands.                                                               *)

AppendOps == {"Append", "FenceAppend", "AppendBatch", "FenceAppendBatch"}
FenceOps  == {"BeginVisibilityFence", "CommitVisibilityFence", "CancelVisibilityFence"}
Ops       == AppendOps \cup FenceOps \cup {"Sync", "Shutdown"}

NoRequest == [op |-> "None", token |-> 0, lanes |-> <<>>]
Command   == [op : Ops, token : Nat, lanes : Seq(Lanes)]
Replies   == {"unsent", "sent", "ok", "error", "cancelled", "dropped"}

Steps     == {"recv", "execute", "accept", "rotate", "write", "sync_batch", "index", "publish",
              "broadcast", "deferred", "persist", "drain", "periodic", "shutdown_drain",
              "shutdown_sync", "exited", "crashed"}
Phases    == {"Main", "GroupCommitDrain", "ShutdownDrain"}
Frame     == [kind : {"begin", "event", "commit", "torn"}, seq : Nat, request : Requests,
              segment : Nat]

Fenced(r) == request[r].op \in {"FenceAppend", "FenceAppendBatch"}
Batch(r)  == request[r].op \in {"AppendBatch", "FenceAppendBatch"}
Count(r)  == Len(request[r].lanes)

\* Mutant: only the command at hand is answered.
AnswerCurrent(rs, how) ==
    reply' = [r \in Requests |-> IF r \in rs /\ r = cur THEN how ELSE reply[r]]

\* A command that is executing or waits in the channel or in the ledger holds
\* its responder; how is what the responders of rs are told.
Answer(rs, how) ==
    reply' = [r \in Requests |-> IF r \in rs THEN how ELSE reply[r]]

NoWork   == [item |-> 0, first |-> 0, points |-> NoLanePoints]
NoLedger == [token |-> 0, up_to |-> 0, points |-> NoLanePoints, seqs |-> {}, requests |-> {}]

\* Sequences of the command at hand.

\* Mutant: a batch is taken to end with its first event.
LastSeqFirst == work.first

LastSeq == work.first + Count(cur) - 1
CurSeqs == work.first .. LastSeq

\* settle_command_result: where the loop goes after a command.  A command that
\* is not an append breaks a group commit; a single append starts one.
AfterCommand ==
    CASE phase = "Main" -> IF request[cur].op = "Append" THEN "drain" ELSE "periodic"
      [] phase = "GroupCommitDrain" ->
             IF request[cur].op \in AppendOps THEN "drain" ELSE "periodic"
      [] phase = "ShutdownDrain" -> "shutdown_drain"

Settle(delta) ==
    /\ pc' = AfterCommand
    /\ drained' = CASE pc' = "shutdown_drain" -> drained + 1
                    [] pc' = "drain" /\ phase = "GroupCommitDrain" -> drained + delta
                    [] OTHER -> 0
    /\ since_sync' = since_sync + delta
    /\ work' = NoWork
    /\ UNCHANGED <<cur, phase, barrier_ok>>

\* After a sync barrier the count starts again.
SettleSynced ==
    /\ pc' = AfterCommand
    /\ drained' = 0
    /\ since_sync' = 0
    /\ work' = NoWork
    /\ UNCHANGED <<cur, phase, barrier_ok>>

Spend == faults < MaxFaults /\ faults' = faults + 1 /\ UNCHANGED <<panics, restarts>>

-----------------------------------------------------------------------------
(* The loop: receive, drain, periodic sync.                                *)

Take(p) ==
    /\ queue # <<>>
    /\ cur' = Head(queue)
    /\ queue' = Tail(queue)
    /\ phase' = p
    /\ pc' = "execute"
    /\ UNCHANGED <<work, barrier_ok, drained, since_sync>>

Receive ==
    /\ \/ pc = "recv" /\ Take("Main")
       \/ pc = "drain" /\ drained < GroupCommitBudget /\ Take("GroupCommitDrain")
       \/ pc = "shutdown_drain" /\ drained < DrainLimit /\ Take("ShutdownDrain")
    /\ UNCHANGED <<gateVars, frontierVars, request, reply, fence_ledger, indexVars,
                   diskVars, budgetVars>>

EndDrain ==
    /\ pc = "drain"
    /\ queue = <<>> \/ drained >= GroupCommitBudget
    /\ pc' = "periodic"
    /\ drained' = 0
    /\ UNCHANGED <<gateVars, frontierVars, request, reply, queue, cur, phase, work,
                   barrier_ok, since_sync, fence_ledger, indexVars, diskVars, budgetVars>>

\* Mutant: durability is claimed without the fsync.
SyncUnflushed ==
    /\ advance_durable_to_accepted
    /\ UNCHANGED diskVars

\* sync_active_segment: fsync of the active segment file, and nothing but it.
SyncActive ==
    /\ stable' = stable \cup {i \in 1 .. Len(log) : log[i].segment = segment}
    /\ advance_durable_to_accepted
    /\ UNCHANGED <<log, segment, segment_len, newest_file>>

SyncFails == Spend /\ UNCHANGED <<frontierVars, diskVars>>

\* The periodic sync clears its counter whether or not the sync succeeds.
PeriodicSync ==
    /\ pc = "periodic"
    /\ IF since_sync < SyncEvery
       THEN UNCHANGED <<frontierVars, diskVars, budgetVars, since_sync>>
       ELSE /\ (SyncActive /\ UNCHANGED budgetVars) \/ SyncFails
            /\ since_sync' = 0
    /\ pc' = "recv"
    /\ UNCHANGED <<gateVars, request, reply, queue, cur, phase, work, barrier_ok,
                   drained, fence_ledger, indexVars>>
-----------------------------------------------------------------------------
(* handle_append and handle_append_batch.                                  *)

\* The command ends with an error.  A failed fenced append does not count
\* towards the next sync, a failed unfenced one does.
FailAppend ==
    /\ Answer({cur}, "error")
    /\ Settle(IF Fenced(cur) THEN 0 ELSE 1)

\* with_matching_fence_ledger: a fenced append without its ledger is refused.
LedgerMismatch == Fenced(cur) /\ fence_ledger.token # request[cur].token

\* A compare-and-swap or idempotency guard, a validation or an encoding step
\* refuses the append before it touches anything.
RefuseAppend ==
    /\ pc = "execute" /\ request[cur].op \in AppendOps
    /\ FailAppend
    /\ \/ LedgerMismatch /\ UNCHANGED budgetVars
       \/ ~LedgerMismatch /\ Spend
    /\ UNCHANGED <<gateVars, frontierVars, request, queue, fence_ledger, indexVars, diskVars>>

\* A batch reserves its sequences; a single append only looks at the allocator
\* and takes the sequence when it is indexed.
StartAppend ==
    /\ pc = "execute" /\ request[cur].op \in AppendOps
    /\ ~LedgerMismatch
    /\ IF Batch(cur) THEN reserve(Count(cur)) ELSE UNCHANGED allocated
    /\ work' = [item |-> 1, first |-> allocated, points |-> NoLanePoints]
    /\ pc' = "accept"
    /\ UNCHANGED <<published, fenceVars, next_fence_token, cancelVars, frontierVars,
                   request, reply, queue, cur, phase, barrier_ok, drained, since_sync,
                   fence_ledger, indexVars, diskVars, budgetVars>>

\* Mutant: the lane bound is the sequence itself instead of the one after it.
LanePointInclusive(i) == work.first + i - 1

\* lane_publish_points_from_notifications: the exclusive bound item i gives its lane.
LanePoint(i) == work.first + i

\* The accepted watermark moves, item by item, before a byte is written.
AcceptItem ==
    /\ pc = "accept"
    /\ LET lane == request[cur].lanes[work.item]
           last == work.item = Count(cur)
       IN  /\ advance_accepted_on_lane(lane, work.first + work.item - 1)
           /\ work' = [work EXCEPT
                  !.points[lane] = LanePoint(work.item),
                  !.item = IF ~last THEN work.item + 1 ELSE IF Batch(cur) THEN 0 ELSE 1]
           /\ pc' = IF ~last THEN "accept"
                    ELSE IF segment_len >= SegmentFrames THEN "rotate" ELSE "write"
    /\ UNCHANGED <<gateVars, request, reply, queue, cur, phase, barrier_ok, drained,
                   since_sync, fence_ledger, indexVars, diskVars, budgetVars>>

\* maybe_rotate_segment on a full segment: create the next file, fsync the old
\* segment, claim durability up to accepted, swap.
RotateSegment ==
    /\ pc = "rotate"
    /\ newest_file = segment
    /\ stable' = stable \cup {i \in 1 .. Len(log) : log[i].segment = segment}
    /\ advance_durable_to_accepted
    /\ segment' = segment + 1
    /\ newest_file' = segment + 1
    /\ segment_len' = 0
    /\ pc' = "write"
    /\ UNCHANGED <<gateVars, request, reply, queue, cur, phase, work, barrier_ok, drained,
                   since_sync, fence_ledger, indexVars, log, budgetVars>>

\* The file is created with create_new: once it exists, so also after a rotation
\* that failed behind the create, the rotation cannot succeed.
RotateFails ==
    /\ pc = "rotate"
    /\ \/ newest_file > segment /\ UNCHANGED <<newest_file, budgetVars>>
       \/ newest_file = segment /\ Spend /\ newest_file' \in {segment, segment + 1}
    /\ FailAppend
    /\ UNCHANGED <<gateVars, frontierVars, request, queue, fence_ledger, indexVars,
                   log, stable, segment, segment_len>>

\* Item 0 of a batch is its BEGIN marker, the item after the last its COMMIT.
FrameAt(i) ==
    IF i = 0 THEN [kind |-> "begin", seq |-> work.first, request |-> cur, segment |-> segment]
    ELSE IF i > Count(cur)
         THEN [kind |-> "commit", seq |-> work.first, request |-> cur, segment |-> segment]
         ELSE [kind |-> "event", seq |-> work.first + i - 1, request |-> cur,
               segment |-> segment]

WriteFrame ==
    /\ pc = "write"
    /\ log' = Append(log, FrameAt(work.item))
    /\ segment_len' = segment_len + 1
    /\ IF work.item \in 1 .. Count(cur)
       THEN advance_written_on_lane(request[cur].lanes[work.item], work.first + work.item - 1)
       ELSE UNCHANGED frontierVars
    /\ work' = [work EXCEPT !.item = @ + 1]
    /\ pc' = IF Batch(cur)
             THEN IF work.item <= Count(cur) THEN "write" ELSE "sync_batch"
             ELSE "index"
    /\ UNCHANGED <<gateVars, request, reply, queue, cur, phase, barrier_ok, drained,
                   since_sync, fence_ledger, indexVars, stable, segment, newest_file,
                   budgetVars>>

\* write_all fails before or in the middle of the frame: written_bytes keeps its
\* value, the file may hold a torn frame.
WriteFails ==
    /\ pc = "write"
    /\ Spend
    /\ \/ UNCHANGED log
       \/ log' = Append(log, [FrameAt(work.item) EXCEPT !.kind = "torn"])
    /\ FailAppend
    /\ UNCHANGED <<gateVars, frontierVars, request, queue, fence_ledger, indexVars,
                   stable, segment, segment_len, newest_file>>

SyncBatch ==
    /\ pc = "sync_batch"
    /\ \/ /\ SyncActive
          /\ pc' = "index"
          /\ UNCHANGED <<reply, cur, phase, work, barrier_ok, drained, since_sync, budgetVars>>
       \/ SyncFails /\ FailAppend
    /\ UNCHANGED <<gateVars, request, queue, fence_ledger, indexVars>>

\* Index insertion; a single append takes its sequence now.  Under a fence the
\* ledger records what the commit will publish and the reply waits there.
IndexAppend ==
    /\ pc = "index"
    /\ entries' = entries \cup
           {[seq |-> work.first + i - 1, lane |-> request[cur].lanes[i], request |-> cur] :
                i \in 1 .. Count(cur)}
    /\ IF Batch(cur) THEN UNCHANGED allocated ELSE reserve(1)
    /\ IF Fenced(cur)
       THEN /\ note_fence_progress(fence_ledger.token, work.first, LastSeq + 1)
            /\ fence_ledger' = [fence_ledger EXCEPT
                   !.up_to = Larger(@, LastSeq + 1),
                   !.points = [l \in Lanes |-> Larger(@[l], work.points[l])],
                   !.seqs = @ \cup CurSeqs,
                   !.requests = @ \cup {cur}]
            /\ Settle(1)
       ELSE /\ pc' = "publish"
            /\ UNCHANGED <<fenceVars, fence_ledger, cur, phase, work, barrier_ok, drained,
                           since_sync>>
    /\ UNCHANGED <<published, next_fence_token, cancelVars, frontierVars, request, reply,
                   queue, notified, hidden_file, diskVars, budgetVars>>

\* publish_then_broadcast_unfenced: the index boundary first ...
PublishAppend ==
    /\ pc = "publish"
    /\ publish_on_lanes(LastSeq + 1, work.points)
    /\ pc' = "broadcast"
    /\ UNCHANGED <<allocated, fenceVars, next_fence_token, cancelVars, frontierVars, request,
                   reply, queue, cur, phase, work, barrier_ok, drained, since_sync,
                   fence_ledger, indexVars, diskVars, budgetVars>>

\* ... then the subscribers, the watermarks and the caller.
BroadcastAppend ==
    /\ pc = "broadcast" /\ request[cur].op \in AppendOps
    /\ notified' = notified \cup CurSeqs
    /\ advance_visible_and_emitted(LastSeq, work.points)
    /\ Answer({cur}, "ok")
    /\ Settle(1)
    /\ UNCHANGED <<gateVars, request, queue, fence_ledger, entries, hidden_file, diskVars,
                   budgetVars>>
-----------------------------------------------------------------------------
(* Fences and sync barriers (fence_runtime.rs).                            *)

\* WriterCore::begin_visibility_fence and its answer.
BeginLedger ==
    LET token == request[cur].token
        opens == fence_ledger.token = 0 /\ active_fence = token
    IN  /\ fence_ledger' = IF opens THEN [NoLedger EXCEPT !.token = token] ELSE fence_ledger
        /\ Answer({cur}, IF opens THEN "ok" ELSE "error")

ExecuteBegin ==
    /\ pc = "execute" /\ request[cur].op = "BeginVisibilityFence"
    /\ phase # "GroupCommitDrain"
    /\ BeginLedger
    /\ Settle(0)
    /\ UNCHANGED <<gateVars, frontierVars, request, queue, indexVars, diskVars, budgetVars>>

\* Commands whose reply waits for a sync of the active segment.
NeedsBarrier ==
    \/ request[cur].op \in {"CommitVisibilityFence", "Sync"} /\ phase # "ShutdownDrain"
    \/ request[cur].op \in {"BeginVisibilityFence", "Shutdown"} /\ phase = "GroupCommitDrain"

SyncBarrier ==
    /\ pc = "execute" /\ NeedsBarrier
    /\ \/ SyncActive /\ barrier_ok' = TRUE /\ UNCHANGED budgetVars
       \/ SyncFails /\ barrier_ok' = FALSE
    /\ pc' = "deferred"
    /\ UNCHANGED <<gateVars, request, reply, queue, cur, phase, work, drained, since_sync,
                   fence_ledger, indexVars>>

DeferredSync ==
    /\ pc = "deferred" /\ request[cur].op = "Sync"
    /\ Answer({cur}, IF barrier_ok THEN "ok" ELSE "error")
    /\ SettleSynced
    /\ UNCHANGED <<gateVars, frontierVars, request, queue, fence_ledger, indexVars, diskVars,
                   budgetVars>>

\* After a failed barrier the fence is not begun, yet it stays open in the gate.
DeferredBegin ==
    /\ pc = "deferred" /\ request[cur].op = "BeginVisibilityFence"
    /\ IF barrier_ok THEN BeginLedger
       ELSE Answer({cur}, "error") /\ UNCHANGED fence_ledger
    /\ SettleSynced
    /\ UNCHANGED <<gateVars, frontierVars, request, queue, indexVars, diskVars, budgetVars>>

CommitHasLedger == barrier_ok /\ fence_ledger.token = request[cur].token
CommitAdmitted ==
    fence_ledger.up_to # 0 => PublishAdmitted(fence_ledger.up_to, fence_ledger.points)

\* The barrier failed or the ledger is not this fence's: the ledger is kept.
CommitRefused ==
    /\ pc = "deferred" /\ request[cur].op = "CommitVisibilityFence"
    /\ ~CommitHasLedger
    /\ Answer({cur}, "error")
    /\ SettleSynced
    /\ UNCHANGED <<gateVars, frontierVars, request, queue, fence_ledger, indexVars, diskVars,
                   budgetVars>>

\* The gate refuses to publish: the ledger and its responders are gone, the
\* fence stays open in the gate.
CommitFails ==
    /\ pc = "deferred" /\ request[cur].op = "CommitVisibilityFence"
    /\ CommitHasLedger /\ ~CommitAdmitted
    /\ reply' = [r \in Requests |-> IF r \in fence_ledger.requests THEN "dropped"
                                    ELSE IF r = cur THEN "error" ELSE reply[r]]
    /\ fence_ledger' = NoLedger
    /\ SettleSynced
    /\ UNCHANGED <<gateVars, frontierVars, request, queue, indexVars, diskVars, budgetVars>>

\* fence_finish_then_broadcast: everything staged becomes visible at once ...
CommitFence ==
    /\ pc = "deferred" /\ request[cur].op = "CommitVisibilityFence"
    /\ CommitHasLedger /\ CommitAdmitted
    /\ finish_fence_on_lanes(fence_ledger.token, fence_ledger.up_to, fence_ledger.points)
    /\ pc' = "broadcast"
    /\ UNCHANGED <<allocated, next_fence_token, cancelVars, frontierVars, request, reply,
                   queue, cur, phase, work, barrier_ok, drained, since_sync, fence_ledger,
                   indexVars, diskVars, budgetVars>>

\* ... and then subscribers, watermarks and all waiting callers are told.
BroadcastFence ==
    /\ pc = "broadcast" /\ request[cur].op = "CommitVisibilityFence"
    /\ notified' = notified \cup fence_ledger.seqs
    /\ advance_visible_and_emitted(fence_ledger.up_to - 1, fence_ledger.points)
    /\ Answer(fence_ledger.requests \cup {cur}, "ok")
    /\ fence_ledger' = NoLedger
    /\ SettleSynced
    /\ UNCHANGED <<gateVars, request, queue, entries, hidden_file, diskVars, budgetVars>>

\* StoreIndex::cancel_visibility_fence: hides the staged range, and on each
\* lane whatever is indexed inside that range.
CancelInIndex(token) ==
    cancel_fence(token, [l \in Lanes |->
        {e.seq : e \in {x \in entries : x.lane = l /\ x.seq \in FenceRange}}])

CancelRefused ==
    /\ pc = "execute" /\ request[cur].op = "CancelVisibilityFence"
    /\ fence_ledger.token # request[cur].token
    /\ Answer({cur}, "error")
    /\ Settle(0)
    /\ UNCHANGED <<gateVars, frontierVars, request, queue, fence_ledger, indexVars, diskVars,
                   budgetVars>>

CancelFence ==
    /\ pc = "execute" /\ request[cur].op = "CancelVisibilityFence"
    /\ fence_ledger.token = request[cur].token
    /\ CancelInIndex(fence_ledger.token)
    /\ pc' = "persist"
    /\ UNCHANGED <<allocated, published, next_fence_token, frontierVars, request, reply, queue,
                   cur, phase, work, barrier_ok, drained, since_sync, fence_ledger, indexVars,
                   diskVars, budgetVars>>

\* Mutant: only the ranges this step adds are written.
PersistAdded == hidden_file' = cancelled_ranges' \ cancelled_ranges

\* persist_cancelled_visibility_ranges: the file is replaced as a whole.
PersistHidden == hidden_file' = cancelled_ranges'

\* The hidden ranges are written; if that fails the waiting responders are
\* dropped and the cancel reports the error.
PersistCancel ==
    /\ pc = "persist"
    /\ UNCHANGED gateVars
    /\ \/ /\ PersistHidden
          /\ reply' = [r \in Requests |-> IF r \in fence_ledger.requests THEN "cancelled"
                                          ELSE IF r = cur THEN "ok" ELSE reply[r]]
          /\ UNCHANGED budgetVars
       \/ /\ Spend
          /\ reply' = [r \in Requests |-> IF r \in fence_ledger.requests THEN "dropped"
                                          ELSE IF r = cur THEN "error" ELSE reply[r]]
          /\ UNCHANGED hidden_file
    /\ fence_ledger' = NoLedger
    /\ Settle(0)
    /\ UNCHANGED <<frontierVars, request, queue, entries, notified, diskVars>>

-----------------------------------------------------------------------------
(* Shutdown, panic and restart (runtime.rs).                               *)

Queued == {queue[i] : i \in 1 .. Len(queue)}

\* Shutdown found by a group commit: sync, answer, exit.  What is left in the
\* channel and in the ledger is dropped; an open fence is not cancelled.
DeferredShutdown ==
    /\ pc = "deferred" /\ request[cur].op = "Shutdown"
    /\ reply' = [r \in Requests |-> IF r = cur THEN (IF barrier_ok THEN "ok" ELSE "error")
                                    ELSE IF r \in Queued \cup fence_ledger.requests
                                         THEN "dropped" ELSE reply[r]]
    /\ fence_ledger' = NoLedger
    /\ queue' = <<>>
    /\ pc' = "exited"
    /\ UNCHANGED <<gateVars, frontierVars, request, cur, phase, work, barrier_ok, drained,
                   since_sync, indexVars, diskVars, budgetVars>>

StartShutdown ==
    /\ pc = "execute" /\ request[cur].op = "Shutdown" /\ phase = "Main"
    /\ pc' = "shutdown_drain"
    /\ drained' = 0
    /\ UNCHANGED <<gateVars, frontierVars, request, reply, queue, cur, phase, work, barrier_ok,
                   since_sync, fence_ledger, indexVars, diskVars, budgetVars>>

\* auto_cancel_fence_on_shutdown, once the channel is empty or the drain limit
\* is reached; a failure to persist is only logged.
AutoCancelFence ==
    /\ pc = "shutdown_drain"
    /\ queue = <<>> \/ drained >= DrainLimit
    /\ IF fence_ledger.token = 0
       THEN UNCHANGED <<fenceVars, cancelVars, reply, hidden_file, budgetVars>>
       ELSE /\ CancelInIndex(fence_ledger.token)
            /\ Answer(fence_ledger.requests, "cancelled")
            /\ \/ PersistHidden /\ UNCHANGED budgetVars
               \/ Spend /\ UNCHANGED hidden_file
    /\ fence_ledger' = NoLedger
    /\ pc' = "shutdown_sync"
    /\ UNCHANGED <<allocated, published, next_fence_token, frontierVars, request, queue, cur,
                   phase, work, barrier_ok, drained, since_sync, entries, notified, diskVars>>

\* The Shutdown whose drain is under way; its responder is held by the loop.
Draining == {r \in Requests : request[r].op = "Shutdown" /\ reply[r] = "sent"}

\* The last sync decides the answer; commands left in the channel are dropped
\* with the receiver.
FinishShutdown ==
    /\ pc = "shutdown_sync"
    /\ LET how(ok) == [r \in Requests |->
               IF r \in Draining THEN (IF ok THEN "ok" ELSE "error")
               ELSE IF r \in Queued THEN "dropped" ELSE reply[r]]
       IN  \/ SyncActive /\ reply' = how(TRUE) /\ UNCHANGED budgetVars
           \/ SyncFails /\ reply' = how(FALSE)
    /\ queue' = <<>>
    /\ pc' = "exited"
    /\ UNCHANGED <<gateVars, request, cur, phase, work, barrier_ok, drained, since_sync,
                   fence_ledger, indexVars>>

\* Responders the unwinding thread drops.
Unwound ==
    {r \in Requests : reply[r] = "sent" /\ r \notin Queued
                      /\ r \in fence_ledger.requests \cup {cur} \cup Draining}

\* writer_thread_main after a panic: the fence in the gate is cancelled and
\* persisted, the ledger and the active segment (not fsynced) are gone; within
\* the restart budget the loop starts again on a new segment.  The thread ends,
\* and the channel with it, when the budget is used up or the segment cannot be
\* created; a failure to persist is only logged.
Panic ==
    /\ pc \notin {"recv", "exited", "crashed"}
    /\ panics < MaxPanics
    /\ panics' = panics + 1
    /\ \E lost, stopped \in {0, 1} :
           /\ faults + lost + stopped <= MaxFaults
           /\ faults' = faults + lost + stopped
           /\ IF active_fence = 0
              THEN lost = 0 /\ UNCHANGED <<fenceVars, cancelVars, hidden_file>>
              ELSE /\ CancelInIndex(active_fence)
                   /\ IF lost = 0 THEN PersistHidden ELSE UNCHANGED hidden_file
           /\ IF restarts < MaxRestarts /\ stopped = 0
              THEN /\ restarts' = restarts + 1
                   /\ segment' = newest_file + 1
                   /\ newest_file' = newest_file + 1
                   /\ segment_len' = 0
                   /\ Answer(Unwound, "dropped")
                   /\ pc' = "recv"
                   /\ UNCHANGED queue
              ELSE /\ restarts < MaxRestarts \/ stopped = 0
                   /\ Answer(Unwound \cup Queued, "dropped")
                   /\ queue' = <<>>
                   /\ pc' = "crashed"
                   /\ UNCHANGED <<restarts, segment, newest_file, segment_len>>
    /\ fence_ledger' = NoLedger
    /\ work' = NoWork
    /\ drained' = 0
    /\ since_sync' = 0
    /\ UNCHANGED <<allocated, published, next_fence_token, frontierVars, request, cur, phase,
                   barrier_ok, entries, notified, log, stable>>

-----------------------------------------------------------------------------
\* A store that has just been opened: sequence 0, on lane 0, is its open event,
\* published and synced.
WriterInit ==
    /\ allocated = 1
    /\ visible = 1
    /\ lane_visible = [NoLanePoints EXCEPT ![Lane0] = 1]
    /\ active_fence = 0
    /\ active_fence_start = Unset
    /\ active_fence_end = 0
    /\ next_fence_token = 1
    /\ cancelled_ranges = {}
    /\ lane_cancelled_ranges = [l \in Lanes |-> {}]
    /\ watermarks = Points(0)
    /\ lane_watermarks = [l \in Lanes |-> Points(0)]
    /\ request = [r \in Requests |-> NoRequest]
    /\ reply = [r \in Requests |-> "unsent"]
    /\ queue = <<>>
    /\ pc = "recv" /\ cur = 0 /\ phase = "Main" /\ work = NoWork
    /\ barrier_ok = TRUE /\ drained = 0 /\ since_sync = 0
    /\ fence_ledger = NoLedger
    /\ entries = {} /\ notified = {} /\ hidden_file = {}
    /\ log = <<>> /\ stable = {}
    /\ segment = 1 /\ segment_len = 0 /\ newest_file = 1
    /\ faults = 0 /\ panics = 0 /\ restarts = 0

AppendStep ==
    \/ StartAppend \/ RefuseAppend \/ AcceptItem \/ RotateSegment \/ RotateFails
    \/ WriteFrame \/ WriteFails \/ SyncBatch \/ IndexAppend \/ PublishAppend
    \/ BroadcastAppend

FenceStep ==
    \/ ExecuteBegin \/ DeferredBegin
    \/ CommitRefused \/ CommitFails \/ CommitFence \/ BroadcastFence
    \/ CancelRefused \/ CancelFence \/ PersistCancel

LoopStep ==
    \/ Receive \/ EndDrain \/ PeriodicSync \/ SyncBarrier \/ DeferredSync
    \/ DeferredShutdown \/ StartShutdown \/ AutoCancelFence \/ FinishShutdown

WriterStep == AppendStep \/ FenceStep \/ LoopStep

-----------------------------------------------------------------------------
(* The type of each group of variables.                                    *)

FrontierTypeOK == watermarks \in PointsType /\ lane_watermarks \in [Lanes -> PointsType]

CommandTypeOK ==
    /\ request \in [Requests -> Command \cup {NoRequest}]
    /\ reply \in [Requests -> Replies]
    /\ queue \in Seq(Requests)

LoopTypeOK ==
    /\ pc \in Steps /\ phase \in Phases /\ cur \in Requests \cup {0}
    /\ work \in [item : Nat, first : Nat, points : [Lanes -> Nat]]
    /\ barrier_ok \in BOOLEAN /\ drained \in Nat /\ since_sync \in Nat

LedgerTypeOK ==
    fence_ledger \in [token : Nat, up_to : Nat, points : [Lanes -> Nat],
                      seqs : SUBSET Nat, requests : SUBSET Requests]

IndexTypeOK ==
    /\ entries \in SUBSET [seq : Nat, lane : Lanes, request : Requests]
    /\ notified \in SUBSET Nat /\ hidden_file \in SUBSET Nat

DiskTypeOK ==
    /\ log \in Seq(Frame) /\ stable \in SUBSET (1 .. Len(log))
    /\ segment \in Nat /\ segment_len \in Nat /\ newest_file \in Nat

BudgetTypeOK == faults \in Nat /\ panics \in Nat /\ restarts \in Nat
=============================================================================
