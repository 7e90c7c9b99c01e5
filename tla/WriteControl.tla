---------------------------- MODULE WriteControl ----------------------------
(***************************************************************************)
(* Producers and the writer together: the submission paths of write_api.rs *)
(* and write/control/ (appends, batches, visibility fences, sync, close)   *)
(* running in any number of threads against the writer thread.             *)
(*                                                                         *)
(* A submission checks the route (no public fence open) and only later     *)
(* sends its command; opening a fence swaps the token into the gate first  *)
(* and sends its command later.  Single appends and batches hold the       *)
(* lifecycle gate while they send; fence commands and Sync do not.         *)
(***************************************************************************)
EXTENDS Writer

CONSTANTS
    Clients,          \* producer threads
    ChannelCapacity,  \* writer.channel_capacity
    Batches,          \* the batches producers submit, as tuples of lanes
    Uses              \* which parts of the API the producers use

ASSUME ControlAssumption ==
    /\ ChannelCapacity \in Nat
    /\ Batches \subseteq Seq(Lanes)
    /\ <<>> \notin Batches
    /\ Uses \subseteq {"append", "batch", "fence", "sync", "close"}

VARIABLES
    client,    \* where each producer is, the fence token it holds, its command
    helpers,   \* tokens whose drop-time cancel waits in a helper thread
    issued,    \* commands issued so far
    budget,    \* bound: commands that may still be issued
    closing,   \* how far close() or drop has come with the store
    close_req  \* the command it waits for

closeVars == <<closing, close_req>>
controlVars == <<client, helpers, issued, budget, closeVars>>
vars == <<writerVars, controlVars>>

Idle == [at |-> "idle", token |-> 0, req |-> 0]
ClientType == [at : {"idle", "routed", "begun", "beginning", "fenced", "finishing"},
               token : Nat, req : Nat]

Gone == pc \in {"exited", "crashed"}
HasRoom == ~Gone /\ Len(queue) < ChannelCapacity

\* A command gets the next id; an enqueued one holds its responder.
Prepare(command) ==
    /\ issued < MaxRequests
    /\ issued' = issued + 1
    /\ request' = [request EXCEPT ![issued + 1] = command]

Enqueue(r) ==
    /\ HasRoom
    /\ queue' = Append(queue, r)
    /\ reply' = [reply EXCEPT ![r] = "sent"]

PrepareAndEnqueue(command) == Prepare(command) /\ Enqueue(issued + 1)

Charge(n) == budget >= n /\ budget' = budget - n

Move(c, at) == client' = [client EXCEPT ![c].at = at]

\* Threads other than the writer leave its state alone.
WriterAside ==
    UNCHANGED <<frontierVars, loopVars, fence_ledger, indexVars, diskVars, budgetVars>>

\* submit_prepared_internal sends while it holds the lifecycle gate.
LifecycleGateFree ==
    \A d \in Clients : client[d].at = "routed" => Batch(client[d].req)

-----------------------------------------------------------------------------
(* Appends and batches, outside and inside a fence.                        *)

\* What producer c may submit where it stands.
Submissions(c) ==
    LET token == client[c].token
    IN  {[op |-> IF token = 0 THEN "Append" ELSE "FenceAppend", token |-> token,
          lanes |-> <<l>>] : l \in {l \in Lanes : "append" \in Uses}}
        \cup
        {[op |-> IF token = 0 THEN "AppendBatch" ELSE "FenceAppendBatch", token |-> token,
          lanes |-> b] : b \in {b \in Batches : "batch" \in Uses}}

\* validate_route: outside a fence nothing is submitted while one is open.
Route(c) ==
    /\ closing = "no"
    /\ client[c].at = IF client[c].token = 0 THEN "idle" ELSE "fenced"
    /\ client[c].token = 0 => active_fence = 0
    /\ Charge(1)
    /\ \E s \in Submissions(c) :
           /\ s.op \in {"Append", "FenceAppend"} => LifecycleGateFree
           /\ Prepare(s)
           /\ client' = [client EXCEPT ![c].at = "routed", ![c].req = issued + 1]
    /\ WriterAside
    /\ UNCHANGED <<gateVars, reply, queue, helpers, closeVars>>

AfterSend(c) == IF client[c].token = 0 THEN "idle" ELSE "fenced"

Send(c) ==
    /\ client[c].at = "routed"
    /\ Batch(client[c].req) => LifecycleGateFree
    /\ Enqueue(client[c].req)
    /\ Move(c, AfterSend(c))
    /\ WriterAside
    /\ UNCHANGED <<gateVars, request, helpers, issued, budget, closeVars>>

\* The channel is disconnected: the caller gets WriterCrashed.
SendFails(c) ==
    /\ client[c].at = "routed" /\ Gone
    /\ reply' = [reply EXCEPT ![client[c].req] = "error"]
    /\ Move(c, AfterSend(c))
    /\ WriterAside
    /\ UNCHANGED <<gateVars, request, queue, helpers, issued, budget, closeVars>>

SubmitSync(c) ==
    /\ closing = "no" /\ "sync" \in Uses
    /\ client[c].at \in {"idle", "fenced"}
    /\ Charge(1)
    /\ PrepareAndEnqueue([op |-> "Sync", token |-> 0, lanes |-> <<>>])
    /\ WriterAside
    /\ UNCHANGED <<gateVars, client, helpers, closeVars>>

-----------------------------------------------------------------------------
(* Fences.                                                                 *)

\* The token enters the gate before the writer knows; a fence is charged for
\* its begin and its end.
BeginFence(c) ==
    /\ closing = "no" /\ "fence" \in Uses
    /\ client[c].at = "idle"
    /\ \/ /\ begin_fence
          /\ Charge(2)
          /\ client' = [client EXCEPT ![c].at = "begun", ![c].token = next_fence_token]
       \/ /\ begin_fence_refused
          /\ Charge(1)
          /\ UNCHANGED client
    /\ WriterAside
    /\ UNCHANGED <<allocated, published, cancelVars, request, reply, queue, helpers, issued,
                   closeVars>>

SendBegin(c) ==
    /\ client[c].at = "begun"
    /\ PrepareAndEnqueue([op |-> "BeginVisibilityFence", token |-> client[c].token,
                          lanes |-> <<>>])
    /\ client' = [client EXCEPT ![c].at = "beginning", ![c].req = issued + 1]
    /\ WriterAside
    /\ UNCHANGED <<gateVars, helpers, budget, closeVars>>

\* The writer has ended and the call fails: found dead by writer_handle the
\* token stays in the gate, found dead by the send it is taken out again.
SendBeginFails(c) ==
    /\ client[c].at = "begun" /\ Gone
    /\ \/ CancelInIndex(client[c].token)
       \/ UNCHANGED <<fenceVars, cancelVars>>
    /\ client' = [client EXCEPT ![c] = Idle]
    /\ WriterAside
    /\ UNCHANGED <<allocated, published, next_fence_token, request, reply, queue, helpers,
                   issued, budget, closeVars>>

\* On an error reply the caller gets no handle and the token stays in the gate.
AwaitBegin(c) ==
    /\ client[c].at = "beginning"
    /\ reply[client[c].req] # "sent"
    /\ client' = [client EXCEPT ![c] =
           IF reply[@.req] = "ok" THEN [@ EXCEPT !.at = "fenced"] ELSE Idle]
    /\ WriterAside
    /\ UNCHANGED <<gateVars, request, reply, queue, helpers, issued, budget, closeVars>>

FinishFence(c) ==
    /\ client[c].at = "fenced"
    /\ \E op \in {"CommitVisibilityFence", "CancelVisibilityFence"} :
           PrepareAndEnqueue([op |-> op, token |-> client[c].token, lanes |-> <<>>])
    /\ client' = [client EXCEPT ![c].at = "finishing", ![c].req = issued + 1]
    /\ WriterAside
    /\ UNCHANGED <<gateVars, helpers, budget, closeVars>>

\* commit and cancel consume the handle, whatever the answer is.
AwaitFinish(c) ==
    /\ client[c].at = "finishing"
    /\ reply[client[c].req] # "sent"
    /\ client' = [client EXCEPT ![c] = Idle]
    /\ WriterAside
    /\ UNCHANGED <<gateVars, request, reply, queue, helpers, issued, budget, closeVars>>

CancelCommand(token) == [op |-> "CancelVisibilityFence", token |-> token, lanes |-> <<>>]

\* Dropping the handle cancels without waiting; with a full channel a helper
\* thread takes over the blocking send.
DropFence(c) ==
    /\ client[c].at = "fenced"
    /\ \/ PrepareAndEnqueue(CancelCommand(client[c].token)) /\ UNCHANGED helpers
       \/ /\ ~Gone /\ ~HasRoom
          /\ helpers' = helpers \cup {client[c].token}
          /\ UNCHANGED <<request, reply, queue, issued>>
       \/ Gone /\ UNCHANGED <<request, reply, queue, issued, helpers>>
    /\ client' = [client EXCEPT ![c] = Idle]
    /\ WriterAside
    /\ UNCHANGED <<gateVars, budget, closeVars>>

HelperSend ==
    \E token \in helpers :
        /\ \/ PrepareAndEnqueue(CancelCommand(token))
           \/ Gone /\ UNCHANGED <<request, reply, queue, issued>>
        /\ helpers' = helpers \ {token}
        /\ WriterAside
        /\ UNCHANGED <<gateVars, client, budget, closeVars>>

\* close() and drop own the store: no fence handle is left and no call is
\* waiting for its reply.
StoreOwned ==
    /\ closing = "no" /\ "close" \in Uses
    /\ \A c \in Clients : client[c].at = "idle"
    /\ \A r \in Requests : request[r].op = "Sync" => reply[r] # "sent"

\* close() first appends its lifecycle event, unless a fence is still open.
CloseEvent ==
    /\ StoreOwned
    /\ active_fence = 0
    /\ Charge(2)
    /\ PrepareAndEnqueue([op |-> "Append", token |-> 0, lanes |-> <<Lane0>>])
    /\ closing' = "event"
    /\ close_req' = issued + 1
    /\ WriterAside
    /\ UNCHANGED <<gateVars, client, helpers>>

\* close() after its event, or drop, which has none; and drop again when the
\* writer panicked under the first Shutdown.
SendShutdown ==
    /\ \/ StoreOwned /\ Charge(1)
       \/ closing = "event" /\ reply[close_req] # "sent" /\ UNCHANGED budget
       \/ closing = "shutdown" /\ reply[close_req] = "dropped" /\ Charge(1)
    /\ PrepareAndEnqueue([op |-> "Shutdown", token |-> 0, lanes |-> <<>>])
    /\ closing' = "shutdown"
    /\ close_req' = issued + 1
    /\ WriterAside
    /\ UNCHANGED <<gateVars, client, helpers>>

-----------------------------------------------------------------------------
Init ==
    /\ WriterInit
    /\ client = [c \in Clients |-> Idle]
    /\ helpers = {}
    /\ issued = 0
    /\ budget = MaxRequests
    /\ closing = "no" /\ close_req = 0

ClientStep(c) ==
    \/ Route(c) \/ Send(c) \/ SendFails(c) \/ SubmitSync(c)
    \/ BeginFence(c) \/ SendBegin(c) \/ SendBeginFails(c) \/ AwaitBegin(c)
    \/ FinishFence(c) \/ AwaitFinish(c) \/ DropFence(c)

WriterMoves == (WriterStep \/ Panic) /\ UNCHANGED controlVars

Next ==
    \/ WriterMoves
    \/ \E c \in Clients : ClientStep(c)
    \/ HelperSend
    \/ CloseEvent
    \/ SendShutdown

Spec == Init /\ [][Next]_vars

\* The writer thread runs whenever it has something to do, and so does a helper
\* thread.  Producers and faults are under no obligation.
FairSpec ==
    /\ Spec
    /\ WF_vars(WriterStep /\ UNCHANGED controlVars)
    /\ WF_vars(HelperSend)

-----------------------------------------------------------------------------
(* Properties.                                                             *)

ControlTypeOK ==
    /\ client \in [Clients -> ClientType]
    /\ helpers \in SUBSET Nat /\ issued \in Nat /\ budget \in Nat
    /\ closing \in {"no", "event", "shutdown"} /\ close_req \in Requests \cup {0}

\* Type invariant.
TypeOK ==
    /\ GateTypeOK /\ FrontierTypeOK /\ CommandTypeOK /\ LoopTypeOK /\ LedgerTypeOK
    /\ IndexTypeOK /\ DiskTypeOK /\ BudgetTypeOK /\ ControlTypeOK

EntriesOf(r) == {e \in entries : e.request = r}
SeenOnLane(e) == is_visible_on_lane(e.seq, e.lane)
Seen(e) == is_visible(e.seq) /\ SeenOnLane(e)
Hidden(e) == ~is_visible(e.seq) /\ ~SeenOnLane(e)
Survives(e) ==
    \E i \in stable : log[i].kind = "event" /\ log[i].request = e.request /\ log[i].seq = e.seq

\* The step between the publish of a fence commit and its replies.
Committing == pc = "broadcast" /\ request[cur].op = "CommitVisibilityFence"

\* Read your writes: an append or batch acknowledged with a receipt is in the
\* index and every reader sees all of it, for as long as the store runs
\* (handle_append answers only after publish_then_broadcast_unfenced).
AckedVisible ==
    \A r \in Requests : request[r].op \in AppendOps /\ reply[r] = "ok" =>
        EntriesOf(r) # {} /\ \A e \in EntriesOf(r) : Seen(e)

\* What was staged under a fence stays hidden until the fence commits, and for
\* good once it is cancelled (VisibilityFence).
FenceHides ==
    \A e \in entries :
        \/ e.request \in fence_ledger.requests /\ ~Committing
        \/ reply[e.request] = "cancelled"
        => Hidden(e)

\* A cancelled fence hides its events for good (INV-FENCE-CANCELLED-STAYS-HIDDEN).
CancelledHidden ==
    \A e \in entries : reply[e.request] = "cancelled" => Hidden(e)

\* The events of a batch are seen together or not at all: by a reader of the
\* global sequence, and by a reader of any one lane (append_batch).
BatchAtomic ==
    \A e, f \in entries : e.request = f.request =>
        /\ is_visible(e.seq) <=> is_visible(f.seq)
        /\ e.lane = f.lane => (SeenOnLane(e) <=> SeenOnLane(f))

\* A lane reader and a global reader agree on every event (the lane bounds that
\* publish_on_lanes derives from the notifications move with the global bound).
LanesAgree ==
    \A e \in entries : is_visible(e.seq) <=> SeenOnLane(e)

\* Events have distinct sequences, all of them allocated, though a single append
\* takes its sequence only when it is indexed, steps after it read it.
UniqueSequence ==
    \A e \in entries :
        /\ e.seq < allocated
        /\ \A f \in entries : e.seq = f.seq => e = f

\* A subscriber woken by a notification finds the event visible, or cancelled
\* (publish_then_broadcast_unfenced, fence_finish_then_broadcast).
NotifiedPublished ==
    \A e \in entries : e.seq \in notified => e.seq < visible /\ e.seq < lane_visible[e.lane]

\* wait_for(Visible, p) returns only when the index shows p: the visible
\* watermark is behind the gate, globally and on each lane.
VisibleWatermarkSound ==
    /\ watermarks.visible < visible
    /\ \A l \in Lanes : LET v == lane_watermarks[l].visible
                        IN  v = 0 \/ v < lane_visible[l]

\* The order between the watermarks that snapshot_view asserts, except that the
\* global written point is not compared with durable.
FrontierOrdered ==
    /\ watermarks.accepted >= watermarks.written
    /\ watermarks.accepted >= watermarks.visible
    /\ watermarks.accepted >= watermarks.durable
    /\ \A l \in Lanes : LET w == lane_watermarks[l] IN
           /\ w.accepted >= w.written /\ w.accepted >= w.visible
           /\ w.written >= w.durable /\ watermarks.durable >= w.durable

\* The watermarks a waiter is woken by are in order, and never ahead of what
\* readers see.
WatermarksSound == FrontierOrdered /\ VisibleWatermarkSound

\* The durable watermark covers only events that were fsynced
\* (advance_durable_to_accepted).
DurableSound ==
    \A e \in entries : e.seq <= watermarks.durable => Survives(e)

\* An acknowledged batch survives a power loss, whatever the sync policy is
\* (handle_prepared_batch syncs before it publishes).
AckedBatchSurvives ==
    \A r \in Requests : Batch(r) /\ reply[r] = "ok" => \A e \in EntriesOf(r) : Survives(e)

\* The writer's ledger and the gate agree on the open fence: the ledger's token
\* is the gate's, and the gate's range holds what the ledger staged.
LedgerOwnsFence ==
    fence_ledger.token # 0 /\ ~Committing /\ pc # "persist" =>
        /\ active_fence = fence_ledger.token
        /\ fence_ledger.seqs \subseteq FenceRange
        /\ fence_ledger.up_to = active_fence_end

\* The gate never refuses the publish of an unfenced append or batch.
PublishNeverRefused ==
    pc = "publish" => PublishAdmitted(LastSeq + 1, work.points)

\* The writer and the gate never come apart, though a sequence is read, indexed
\* and published in three steps, a fence's range is kept in two places and a
\* panic may end any step: sequences are unique, ledger and gate mean the same
\* fence, no publish is refused once its event is indexed, and nobody is told of
\* an event before it is published.
WriterOwnsGate ==
    UniqueSequence /\ LedgerOwnsFence /\ PublishNeverRefused /\ NotifiedPublished

\* When the writer has ended, a fenced event that readers could not see is in
\* the hidden-ranges file: the next open shows whatever is not in it.
ExitKeepsHidden ==
    Gone => \A e \in entries : Fenced(e.request) /\ Hidden(e) => e.seq \in hidden_file

\* An event a reader has seen is never hidden again.
SeenForever ==
    [][\A e \in entries : Seen(e) => Seen(e)']_vars

\* A Sync acknowledged as successful leaves no indexed event unsynced.
SyncCovers ==
    [][\A r \in Requests :
          request[r].op = "Sync" /\ reply[r] # "ok" /\ reply'[r] = "ok" =>
              \A e \in entries : Survives(e)']_vars

\* The global written point covers the durable point: the debug assertion of
\* snapshot_view that FrontierOrdered leaves out, because a rotation breaks it.
WrittenCoversDurable == watermarks.written >= watermarks.durable

\* A rotation always finds the id of the next segment free, so that an append
\* that failed in a rotation can be retried, as maybe_rotate_segment says; a
\* failed fsync breaks it.
RotationCanRetry == pc = "rotate" => newest_file = segment

\* Every command that reached the channel is answered, or its responder is
\* dropped; a fenced append waits for its fence, so only once that is finished.
Answered ==
    \A r \in Requests :
        /\ reply[r] = "sent" /\ ~Fenced(r) ~> reply[r] # "sent"
        /\ reply[r] = "sent" /\ Fenced(r) /\ active_fence # request[r].token
               ~> reply[r] # "sent"

\* A fence whose handle is gone does not stay open in the gate, where it would
\* lock out every unfenced append.
FenceReleased ==
    \A t \in 1 .. MaxRequests :
        active_fence = t /\ (\A c \in Clients : client[c].token # t) ~> active_fence # t

-----------------------------------------------------------------------------
(* The abstract specification this one implements.                         *)

Status(r) ==
    LET es == EntriesOf(r) IN
    CASE es = {} -> "none"
      [] es # {} /\ \A e \in es : Seen(e) -> "visible"
      [] es # {} /\ \E e \in es : e.seq \in cancelled_ranges -> "hidden"
      [] OTHER -> "staged"

J == INSTANCE Journal WITH
    status <- [r \in Requests |-> Status(r)],
    group  <- [r \in Requests |-> IF EntriesOf(r) = {} THEN 0 ELSE request[r].token],
    answer <- [r \in Requests |->
        IF request[r].op \in AppendOps /\ reply[r] \notin {"unsent", "sent"}
        THEN reply[r] ELSE "waiting"]

\* Seen by its callers and readers the store is a Journal: transactions appear
\* whole or not at all, what is decided is final, answers are honest.
RefinesJournal == J!Spec
=============================================================================
