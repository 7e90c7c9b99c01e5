------------------------------ MODULE Delivery ------------------------------
(***************************************************************************)
(* Delivery of visible events: a supervised cursor worker that pulls them  *)
(* in order, runs a typed reactor over each batch and saves a checkpoint   *)
(* (delivery/cursor.rs, cursor/worker.rs, reactor_typed.rs), and a push    *)
(* subscriber behind a bounded channel (write/fanout.rs,                   *)
(* delivery/subscription.rs).  Beside them run the writer, which publishes *)
(* and then wakes whoever is parked on the visibility epoch, and a         *)
(* compaction that swaps the index.                                        *)
(*                                                                         *)
(* An event is its global sequence, counted from 0; of its content only    *)
(* whether it lies in the consumers' region is kept.                       *)
(***************************************************************************)
EXTENDS Integers, Sequences, FiniteSetsExt

CONSTANTS
    batch_size,      \* CursorWorkerConfig::batch_size
    policy,          \* RestartPolicy: "once" or "bounded"
    max_restarts,    \* of "bounded"
    Capacity,        \* capacity of the subscriber's channel
    MaxEvents,       \* bound: events written
    MaxFences,       \* bound: visibility fences
    MaxIncidents,    \* bound: panics and errors of the handler, failed checkpoint
                     \* writes, ends of the process without notice, compactions
    MaxSpawns,       \* bound: workers started after the first
    LostTail         \* unsynced events the end of the process may take with it

ASSUME DeliveryAssumption ==
    /\ batch_size \in Nat \ {0}
    /\ policy \in {"once", "bounded"}
    /\ {max_restarts, Capacity, MaxEvents, MaxFences, MaxIncidents, MaxSpawns, LostTail}
           \subseteq Nat

VARIABLES
    log,             \* for each sequence, whether its event is in the region
    visible,         \* SequenceGate: exclusive bound of what readers see
    cancelled,       \* SequenceGate: sequences hidden for good
    fence,           \* whether a fence is open; it holds what lies above visible
    moved,           \* whether visibility_epoch has moved since the worker read it
    writer,          \* the writer's place in a publish, and what it has to broadcast
    swapping,        \* place of replace_contents_from_fresh
    worker,          \* the cursor worker
    ckpt,            \* the checkpoint file
    subscriber,      \* the subscriber's channel, and history
    handled,         \* history: events whose reactions were flushed
    dropped,         \* history: hits that had no entry because of a swap
    budget           \* what the bounds leave

gateVars == <<log, visible, cancelled, fence>>
vars == <<gateVars, moved, writer, swapping, worker, ckpt, subscriber, handled, dropped, budget>>

Sequences0 == 0 .. Len(log) - 1
InRegion(s) == log[s + 1]
IsVisible(s) == s < visible /\ s \notin cancelled

Spend(what) == budget[what] > 0 /\ budget' = [budget EXCEPT ![what] = @ - 1]

NotStarted == [position |-> 0, started |-> FALSE]
\* The cursor goes with the thread that held it.
NoWorker == [at |-> "stopped", bound |-> 0, hits |-> {}, batch |-> {},
             cursor |-> NotStarted, committed |-> NotStarted, restarts |-> 0]
Idle == [at |-> "idle", gated |-> FALSE, broadcast |-> {}]
\* A subscriber from the start; one that comes later is due what comes later.
Subscribed == [open |-> TRUE, queue |-> <<>>, got |-> <<>>, due |-> <<>>]

-----------------------------------------------------------------------------
(* The writer.                                                             *)

\* Writes of one event or two; the region of each is free.
Writes == {w \in UNION {[1 .. n -> BOOLEAN] : n \in {1, 2}} : Len(log) + Len(w) <= MaxEvents}

\* SequenceGate::publish: the bound is moved, the waking up follows.
publish(events, gated) ==
    /\ visible' = Len(events)
    /\ writer' = [at |-> "bump", gated |-> gated,
                  broadcast |-> {s \in (visible .. Len(events) - 1) \ cancelled : events[s + 1]}]

\* An append or a batch, which the lifecycle gate keeps out of a compaction:
\* outside a fence it is published.
Write(w) ==
    /\ writer.at = "idle" /\ swapping = "no"
    /\ log' = log \o w
    /\ IF fence THEN UNCHANGED <<visible, writer>> ELSE publish(log', TRUE)
    /\ UNCHANGED <<cancelled, fence, moved, swapping, worker, ckpt, subscriber, handled, dropped,
                   budget>>

\* No gate keeps the commands of a fence out of a compaction.
BeginFence ==
    /\ writer.at = "idle" /\ ~fence
    /\ Spend("fences")
    /\ fence' = TRUE
    /\ UNCHANGED <<log, visible, cancelled, moved, writer, swapping, worker, ckpt, subscriber,
                   handled, dropped>>

\* A fence opened while the index is cleared has nothing staged.
Staged == IF swapping = "cleared" THEN {} ELSE (visible .. Len(log) - 1) \ cancelled

CommitFence ==
    /\ writer.at = "idle" /\ fence
    /\ fence' = FALSE
    /\ IF Staged = {} THEN UNCHANGED <<visible, writer>> ELSE publish(log, FALSE)
    /\ UNCHANGED <<log, cancelled, moved, swapping, worker, ckpt, subscriber, handled, dropped,
                   budget>>

\* cancel_fence hides the events and wakes nobody.
CancelFence ==
    /\ writer.at = "idle" /\ fence
    /\ fence' = FALSE
    /\ cancelled' = cancelled \cup Staged
    /\ UNCHANGED <<log, visible, moved, writer, swapping, worker, ckpt, subscriber, handled,
                   dropped, budget>>

\* Mutant: the epoch is bumped after the notification.
NotifyWithoutBump ==
    /\ writer.at = "bump"
    /\ writer' = [writer EXCEPT !.at = "notify"]
    /\ UNCHANGED <<gateVars, moved, swapping, worker, ckpt, subscriber, handled, dropped, budget>>

\* signal_visibility_change: the epoch first ...
Bump ==
    /\ writer.at = "bump"
    /\ moved' = TRUE
    /\ writer' = [writer EXCEPT !.at = "notify"]
    /\ UNCHANGED <<gateVars, swapping, worker, ckpt, subscriber, handled, dropped, budget>>

Woken(w) == IF w.at = "parked" THEN [w EXCEPT !.at = "loop"] ELSE w

\* ... then whoever waits, under the mutex the waiter checked the epoch under.
Notify ==
    /\ writer.at = "notify"
    /\ worker' = Woken(worker)
    /\ writer' = [writer EXCEPT !.at = "broadcast"]
    /\ UNCHANGED <<gateVars, moved, swapping, ckpt, subscriber, handled, dropped, budget>>

\* Mutant: a full channel loses the notification and is kept.
OfferKeepingFull(sub, s) ==
    [sub EXCEPT !.due = Append(@, s),
                !.queue = IF Len(@) < Capacity THEN Append(@, s) ELSE @]

\* try_send to a channel with room; a full one is dropped from the list.
Offer(sub, s) ==
    IF Len(sub.queue) < Capacity
    THEN [sub EXCEPT !.due = Append(@, s), !.queue = Append(@, s)]
    ELSE [sub EXCEPT !.due = Append(@, s), !.open = FALSE]

\* broadcast: in order, and only what lies in the region.
Broadcast ==
    /\ writer.at = "broadcast"
    /\ IF writer.broadcast = {} THEN writer' = Idle /\ UNCHANGED subscriber
       ELSE LET s == Min(writer.broadcast)
            IN  /\ writer' = [writer EXCEPT !.broadcast = @ \ {s}]
                /\ subscriber' = IF subscriber.open THEN Offer(subscriber, s) ELSE subscriber
    /\ UNCHANGED <<gateVars, moved, swapping, worker, ckpt, handled, dropped, budget>>

-----------------------------------------------------------------------------
(* The swap of a compaction that merges segments: every event keeps its    *)
(* sequence.  What becomes of a fence cancelled between the rebuild and    *)
(* the swap is the subject of Compaction.                                  *)

\* replace_contents_from_fresh takes the write side of the swap gate; a query
\* holds the read side, an upgrade neither.  The compaction has synced, so every
\* append is through, but a fence's commit may be under way.  The gate is
\* cleared with the index, an open fence with it.
SwapClear ==
    /\ swapping = "no" /\ ~writer.gated /\ worker.at # "query"
    /\ Spend("incidents")
    /\ swapping' = "cleared"
    /\ fence' = FALSE
    /\ UNCHANGED <<log, visible, cancelled, moved, writer, worker, ckpt, subscriber, handled,
                   dropped>>

\* The entries are back and the gate publishes them all, the lost fence's too.
SwapPublish ==
    /\ swapping = "cleared"
    /\ swapping' = "published"
    /\ visible' = Len(log)
    /\ moved' = TRUE
    /\ worker' = Woken(worker)
    /\ UNCHANGED <<log, cancelled, fence, writer, ckpt, subscriber, handled, dropped, budget>>

\* The hidden ranges are restored last.
SwapRestore ==
    /\ swapping = "published"
    /\ swapping' = "no"
    /\ UNCHANGED <<gateVars, moved, writer, worker, ckpt, subscriber, handled, dropped, budget>>

-----------------------------------------------------------------------------
(* The cursor worker.                                                      *)

GoTo(at) == worker' = [worker EXCEPT !.at = at]

\* build_worker_cursor with the saved checkpoint.
Spawn ==
    /\ worker.at = "stopped"
    /\ Spend("spawns")
    /\ worker' = [NoWorker EXCEPT !.at = "loop", !.cursor = ckpt, !.committed = ckpt]
    /\ UNCHANGED <<gateVars, moved, writer, swapping, ckpt, subscriber, handled, dropped>>

\* CursorWorkerLoop::run: the epoch is read before the poll.
Loop ==
    /\ worker.at = "loop"
    /\ GoTo("snapshot")
    /\ moved' = FALSE
    /\ UNCHANGED <<gateVars, writer, swapping, ckpt, subscriber, handled, dropped, budget>>

\* CursorWorkerHandle::stop, seen at the next check of the loop.
Stop ==
    /\ worker.at = "loop"
    /\ worker' = NoWorker
    /\ UNCHANGED <<gateVars, moved, writer, swapping, ckpt, subscriber, handled, dropped, budget>>

\* query_hits_after: the published bound is read first, the hidden ranges and
\* the entries later.
Snapshot ==
    /\ worker.at = "snapshot" /\ swapping = "no"
    /\ worker' = [worker EXCEPT !.at = "query", !.bound = visible]
    /\ UNCHANGED <<gateVars, moved, writer, swapping, ckpt, subscriber, handled, dropped, budget>>

\* Mutant: the first event is taken as delivered before anything was.
AfterUnstarted(cursor, s) == s > cursor.position

\* Cursor::started tells sequence 0 delivered from nothing delivered.
After(cursor, s) == ~cursor.started \/ s > cursor.position

\* The first batch_size events of the region that the snapshot shows.
query_hits_after(cursor, bound) ==
    LET candidates == {s \in Sequences0 : /\ InRegion(s)
                                          /\ s < bound /\ s \notin cancelled
                                          /\ After(cursor, s)}
    IN  {s \in candidates : Cardinality({r \in candidates : r < s}) < batch_size}

\* poll_batch moves the cursor to the last hit before it looks at any of them.
Poll ==
    /\ worker.at = "query"
    /\ LET hits == query_hits_after(worker.cursor, worker.bound)
       IN  worker' = IF hits = {} THEN [worker EXCEPT !.at = "park", !.bound = 0]
                     ELSE [worker EXCEPT !.at = "upgrade", !.bound = 0, !.hits = hits,
                                         !.cursor = [position |-> Max(hits), started |-> TRUE]]
    /\ UNCHANGED <<gateVars, moved, writer, swapping, ckpt, subscriber, handled, dropped, budget>>

\* Whether by_id has the event and the gate shows it.
Upgradable(s) ==
    CASE swapping = "cleared"   -> FALSE
      [] swapping = "published" -> s < visible
      [] OTHER                  -> IsVisible(s)

\* upgrade_hit, one hit after the other; what has no entry is left out.
Upgrade ==
    /\ worker.at = "upgrade"
    /\ IF worker.hits = {}
       THEN /\ worker' = IF worker.batch = {} THEN [worker EXCEPT !.at = "park"]
                         ELSE [worker EXCEPT !.at = "handle"]
            /\ UNCHANGED dropped
       ELSE LET s == Min(worker.hits)
            IN  IF Upgradable(s)
                THEN /\ worker' = [worker EXCEPT !.hits = @ \ {s}, !.batch = @ \cup {s}]
                     /\ UNCHANGED dropped
                ELSE /\ worker' = [worker EXCEPT !.hits = @ \ {s}]
                     /\ dropped' = IF swapping = "no" THEN dropped ELSE dropped \cup {s}
    /\ UNCHANGED <<gateVars, moved, writer, swapping, ckpt, subscriber, handled, budget>>

\* park_for_visibility_change: nobody waits if the epoch has moved.
Park ==
    /\ worker.at = "park"
    /\ GoTo(IF moved THEN "loop" ELSE "parked")
    /\ UNCHANGED <<gateVars, moved, writer, swapping, ckpt, subscriber, handled, dropped, budget>>

\* The wait times out.
Timeout ==
    /\ worker.at = "parked"
    /\ GoTo("loop")
    /\ UNCHANGED <<gateVars, moved, writer, swapping, ckpt, subscriber, handled, dropped, budget>>

\* dispatch_and_gather_batch dispatches every event, then flushes the reactions
\* of one event after the other.
Handle ==
    /\ worker.at = "handle"
    /\ IF worker.batch = {} THEN GoTo("save") /\ UNCHANGED handled
       ELSE LET s == Min(worker.batch)
            IN  /\ worker' = [worker EXCEPT !.batch = @ \ {s}]
                /\ handled' = handled \cup {s}
    /\ UNCHANGED <<gateVars, moved, writer, swapping, ckpt, subscriber, dropped, budget>>

\* Mutant: the worker goes on from where the failed batch ended.
ErrorGoesOn ==
    /\ worker.at = "handle"
    /\ Spend("incidents")
    /\ worker' = [worker EXCEPT !.at = "loop", !.batch = {}]
    /\ UNCHANGED <<gateVars, moved, writer, swapping, ckpt, subscriber, handled, dropped>>

\* A dispatch or a flush fails: StopWithRollback, and no save.
Error ==
    /\ worker.at = "handle"
    /\ Spend("incidents")
    /\ worker' = NoWorker
    /\ UNCHANGED <<gateVars, moved, writer, swapping, ckpt, subscriber, handled, dropped>>

\* handle_action on Continue, or on Stop: the checkpoint is saved and taken over.
Save ==
    /\ worker.at = "save"
    /\ ckpt' = worker.cursor
    /\ worker' \in {NoWorker, [worker EXCEPT !.at = "loop", !.committed = worker.cursor]}
    /\ UNCHANGED <<gateVars, moved, writer, swapping, subscriber, handled, dropped, budget>>

\* The checkpoint cannot be written: the worker stops.
SaveFails ==
    /\ worker.at = "save"
    /\ Spend("incidents")
    /\ worker' = NoWorker
    /\ UNCHANGED <<gateVars, moved, writer, swapping, ckpt, subscriber, handled, dropped>>

\* restart_budget_ok: the restarts counted after this panic, if it is allowed.
restart_budget_ok(restarts, elapsed) ==
    LET counted == IF policy = "bounded" /\ elapsed THEN 0 ELSE restarts
        most == IF policy = "once" THEN 1 ELSE max_restarts
    IN  [ok |-> counted < most, restarts |-> IF counted < most THEN counted + 1 ELSE counted]

\* handle_panic: within the budget the cursor is rebuilt at the last commit.
Panic ==
    /\ worker.at = "handle"
    /\ Spend("incidents")
    /\ \E elapsed \in BOOLEAN :
           LET restart == restart_budget_ok(worker.restarts, elapsed)
           IN  worker' = IF restart.ok
                         THEN [worker EXCEPT !.at = "loop", !.batch = {},
                                             !.cursor = worker.committed,
                                             !.restarts = restart.restarts]
                         ELSE NoWorker
    /\ UNCHANGED <<gateVars, moved, writer, swapping, ckpt, subscriber, handled, dropped>>

-----------------------------------------------------------------------------
(* The subscriber.                                                         *)

\* recv, or pull_batch of n items; a batch that meets the end of a channel loses
\* what it had taken.
Receive(n) ==
    LET short == Len(subscriber.queue) < n
        taken == IF short THEN subscriber.queue ELSE SubSeq(subscriber.queue, 1, n)
    IN  /\ subscriber.queue # <<>>
        /\ subscriber' = [subscriber EXCEPT
                              !.queue = SubSeq(@, Len(taken) + 1, Len(@)),
                              !.got = IF short /\ ~subscriber.open THEN @ ELSE @ \o taken]
        /\ UNCHANGED <<gateVars, moved, writer, swapping, worker, ckpt, handled, dropped, budget>>

-----------------------------------------------------------------------------
\* The process ends without notice and is started again.  What was staged under
\* a fence is visible then; unsynced events may be gone.
Crash ==
    /\ Spend("incidents")
    /\ \E kept \in 0 .. Len(log) :
           /\ Len(log) - kept <= LostTail
           /\ log' = SubSeq(log, 1, kept)
           /\ visible' = kept
           /\ cancelled' = {s \in cancelled : s < kept}
           /\ handled' = {s \in handled : s < kept}
           /\ dropped' = {s \in dropped : s < kept}
    /\ fence' = FALSE
    /\ moved' = FALSE
    /\ writer' = Idle
    /\ swapping' = "no"
    /\ worker' = NoWorker
    /\ subscriber' = Subscribed
    /\ UNCHANGED ckpt

Init ==
    /\ log = <<>> /\ visible = 0 /\ cancelled = {} /\ fence = FALSE
    /\ moved = FALSE /\ writer = Idle /\ swapping = "no"
    /\ worker = [NoWorker EXCEPT !.at = "loop"] /\ ckpt = NotStarted
    /\ subscriber = Subscribed
    /\ handled = {} /\ dropped = {}
    /\ budget = [fences |-> MaxFences, incidents |-> MaxIncidents, spawns |-> MaxSpawns]

\* What the worker's thread goes on with by itself.
WorkerStep == Loop \/ Snapshot \/ Poll \/ Upgrade \/ Park \/ Handle \/ Save
SignalStep == Bump \/ Notify \/ Broadcast
SwapStep == SwapPublish \/ SwapRestore

Next ==
    \/ \E w \in Writes : Write(w)
    \/ BeginFence \/ CommitFence \/ CancelFence
    \/ SignalStep
    \/ SwapClear \/ SwapStep
    \/ Spawn \/ WorkerStep \/ Stop \/ Timeout \/ Error \/ SaveFails \/ Panic
    \/ \E n \in {1, 2} : Receive(n)
    \/ Crash

Spec == Init /\ [][Next]_vars

\* The threads run: the worker's, the writer's once it has published, and the
\* compaction's once it has cleared the index.  A timeout is not relied on.
FairSpec ==
    /\ Spec
    /\ WF_vars(WorkerStep) /\ WF_vars(SignalStep) /\ WF_vars(SwapStep)

-----------------------------------------------------------------------------
(* Properties.                                                             *)

Delivered(s) == s \in handled \cup dropped

\* At least once across errors, panics, failed saves and the end of the process:
\* the checkpoint has passed no event of the region that was not handled, one
\* that is still staged under a fence included.
NothingSkipped ==
    \A s \in Sequences0 \ cancelled :
        InRegion(s) /\ ~After(ckpt, s) => Delivered(s)

\* The handler meets events in order: none before an earlier one of the region.
InOrder ==
    \A s \in handled : \A r \in Sequences0 \ cancelled :
        r < s /\ InRegion(r) => Delivered(r)

\* A visible event of the region is handled or the worker stops, with no help
\* from the timeout of its wait: no wake-up is lost.
EventuallyDelivered ==
    \A s \in 0 .. MaxEvents - 1 :
        (s \in Sequences0 /\ InRegion(s) /\ IsVisible(s))
            ~> (Delivered(s) \/ worker.at = "stopped")

\* A slow subscriber loses the end of the stream, never a part of the middle.
SubscriberNoGaps ==
    LET stream == subscriber.got \o subscriber.queue
    IN  Len(stream) <= Len(subscriber.due) /\ stream = SubSeq(subscriber.due, 1, Len(stream))

-----------------------------------------------------------------------------
\* What the documentation of Cursor says of every event.  The hits of a poll are
\* upgraded outside the swap gate, with the cursor already past them.
NothingDropped == dropped = {}
=============================================================================
