-------------------------- MODULE WriteInvariants ---------------------------
(***************************************************************************)
(* The inductive invariant of the write path: what its safety invariants   *)
(* rest on, in layers, each inductive together with the ones before it.    *)
(***************************************************************************)
EXTENDS WriteControl

\* The writer holds a command from the moment it takes one.
Busy == pc \notin {"recv", "exited", "crashed"}
InAppend == pc \in {"accept", "rotate", "write", "sync_batch", "index", "publish"}

\* An append has items, a single append one, and only a fenced one names a fence.
WellFormed(command) ==
    /\ command.op \in AppendOps => Len(command.lanes) > 0
    /\ command.op \in {"Append", "FenceAppend"} => Len(command.lanes) = 1
    /\ command.op \in {"FenceAppend", "FenceAppendBatch"} => command.token # 0
    /\ command.op \in {"Append", "AppendBatch"} => command.token = 0

CommandsOK ==
    /\ issued <= MaxRequests
    /\ \A r \in Requests : WellFormed(request[r])

\* What the writer can be doing with the command it holds.
StepOK ==
    /\ Busy => cur \in 1 .. issued
    /\ InAppend => request[cur].op \in AppendOps
    /\ pc = "publish" => ~Fenced(cur)
    /\ pc = "broadcast" => request[cur].op \in {"Append", "AppendBatch", "CommitVisibilityFence"}
    /\ pc = "persist" => request[cur].op = "CancelVisibilityFence"
    /\ pc = "accept" => work.item \in 1 .. Count(cur)
    /\ pc = "rotate" => work.item \in {0, 1} /\ (~Batch(cur) => work.item = 1)
    /\ pc = "write" => work.item \in 0 .. Count(cur) + 1 /\ (~Batch(cur) => work.item = 1)

\* Commands in the channel and in the producers' hands were issued.
IssuedOK ==
    /\ \A i \in 1 .. Len(queue) : queue[i] <= issued
    /\ \A c \in Clients : client[c].req <= issued /\ (client[c].at = "routed" => client[c].req # 0)

ControlOK == TypeOK /\ CommandsOK /\ StepOK /\ IssuedOK

-----------------------------------------------------------------------------
(* Who holds the responder of a command.                                   *)

Executing == Busy /\ pc \notin {"drain", "periodic", "shutdown_drain", "shutdown_sync"}
Ended == pc \in {"shutdown_sync", "exited", "crashed"}

\* A responder is in one place: with a producer that has not sent the command,
\* in the channel, with the writer, or in the ledger.
RespondersOK ==
    /\ \A i \in 1 .. Len(queue) : reply[queue[i]] = "sent" /\ queue[i] \notin fence_ledger.requests
    /\ \A i, j \in 1 .. Len(queue) : queue[i] = queue[j] => i = j
    /\ Executing => /\ reply[cur] = "sent"
                    /\ cur \notin fence_ledger.requests
                    /\ \A i \in 1 .. Len(queue) : queue[i] # cur
    /\ \A r \in fence_ledger.requests : reply[r] = "sent"
    /\ \A r \in Requests : r > issued => reply[r] = "unsent"
    /\ \A c \in Clients : client[c].at = "routed" => reply[client[c].req] = "unsent"
    /\ \A c, d \in Clients : client[c].at = "routed" /\ client[d].at = "routed"
                              /\ client[c].req = client[d].req => c = d
    /\ Ended => fence_ledger = NoLedger

-----------------------------------------------------------------------------
(* Fence tokens: each is begun once.                                       *)

Begins == {r \in Requests : request[r].op = "BeginVisibilityFence"}
Pending(r) == reply[r] \in {"unsent", "sent"}

\* The fence of token t has no ledger yet and staged nothing.
Fresh(t) ==
    t # 0 /\ fence_ledger.token # t /\ (active_fence = t => active_fence_start = Unset)

TokensOK ==
    /\ active_fence < next_fence_token
    /\ fence_ledger.token < next_fence_token
    /\ \A c \in Clients : client[c].token < next_fence_token
    /\ \A r \in Begins : request[r].token < next_fence_token
    /\ \A r, s \in Begins : request[r].token = request[s].token => r = s
    /\ \A c, d \in Clients : client[c].at = "begun" /\ client[d].at = "begun"
                              /\ client[c].token = client[d].token => c = d
    /\ \A c \in Clients : client[c].at = "begun" =>
           /\ Fresh(client[c].token)
           /\ \A r \in Begins : request[r].token # client[c].token
    /\ \A r \in Begins : Pending(r) => Fresh(request[r].token)

-----------------------------------------------------------------------------
(* The sequences of the append at hand, the gate and the ledger.           *)

Unindexed == pc \in {"accept", "rotate", "write", "sync_batch", "index"}
AppendBroadcast == pc = "broadcast" /\ ~Committing

\* Events have distinct allocated sequences; those of an append under way are
\* above all others.
SequencesOK ==
    /\ UniqueSequence
    /\ \A s \in notified \cup fence_ledger.seqs : s < allocated
    /\ Unindexed =>
           /\ allocated = IF Batch(cur) THEN work.first + Count(cur) ELSE work.first
           /\ \A e \in entries : e.seq < work.first
           /\ \A s \in notified \cup fence_ledger.seqs : s < work.first
    /\ pc = "publish" \/ AppendBroadcast =>
           /\ allocated = LastSeq + 1
           /\ \A i \in 1 .. Count(cur) :
                  [seq |-> work.first + i - 1, lane |-> request[cur].lanes[i],
                   request |-> cur] \in entries

\* The lane points of the append at hand.
PointsOK ==
    InAppend \/ AppendBroadcast =>
        /\ \A l \in Lanes : work.points[l] # 0 =>
               work.first < work.points[l] /\ work.points[l] <= work.first + Count(cur)
        /\ \A i \in 1 .. Count(cur) :
               pc # "accept" \/ i < work.item =>
                   work.points[request[cur].lanes[i]] >= work.first + i

\* The gate's bounds, and the room above them for the publish that is due.
BoundsOK ==
    /\ GateBound
    /\ InAppend => visible <= work.first /\ \A l \in Lanes : lane_visible[l] <= work.first
    /\ AppendBroadcast =>
           /\ visible = LastSeq + 1
           /\ \A l \in Lanes : work.points[l] <= lane_visible[l]

\* The ledger and the gate agree on the open fence.
LedgerOK ==
    /\ LedgerOwnsFence
    /\ fence_ledger.token = 0 => fence_ledger = NoLedger
    /\ InAppend /\ Fenced(cur) => fence_ledger.token # 0
    /\ \A l \in Lanes : fence_ledger.points[l] <= fence_ledger.up_to
    /\ \A e \in entries : e.seq \in fence_ledger.seqs =>
           e.seq < fence_ledger.up_to /\ e.seq < fence_ledger.points[e.lane]
    /\ Committing => /\ fence_ledger.up_to <= visible
                     /\ \A l \in Lanes : fence_ledger.points[l] <= lane_visible[l]
    /\ pc = "persist" => fence_ledger.seqs \subseteq cancelled_ranges

GateOK == SequencesOK /\ PointsOK /\ BoundsOK /\ FenceRangeSound /\ LedgerOK /\ NotifiedPublished

-----------------------------------------------------------------------------
(* The watermarks.                                                         *)

\* accepted covers what the append at hand and the ledger will publish.
AcceptedOK ==
    /\ \A l \in Lanes :
           /\ fence_ledger.points[l] <= lane_watermarks[l].accepted + 1
           /\ InAppend \/ AppendBroadcast => work.points[l] <= lane_watermarks[l].accepted + 1
    /\ fence_ledger.up_to <= watermarks.accepted + 1
    /\ InAppend \/ AppendBroadcast =>
           /\ pc # "accept" => work.first + Count(cur) <= watermarks.accepted + 1
           /\ \A l \in Lanes : work.points[l] <= watermarks.accepted + 1

WatermarksOK == AcceptedOK /\ FrontierOrdered /\ VisibleWatermarkSound

-----------------------------------------------------------------------------
(* The segment files.                                                      *)

\* Position i of the log holds the event of command r with sequence s.
Holds(i, r, s) == log[i].kind = "event" /\ log[i].request = r /\ log[i].seq = s

\* It is on disk, or in the segment the next sync writes.
OnDisk(r, s) == \E i \in stable : Holds(i, r, s)
InActive(r, s) == \E i \in 1 .. Len(log) : log[i].segment = segment /\ Holds(i, r, s)

\* A batch writes all its frames to one segment, syncs it, and only then is
\* indexed.
BatchDiskOK ==
    /\ \A e \in entries : e.request <= issued /\ (Batch(e.request) => OnDisk(e.request, e.seq))
    /\ pc = "sync_batch" => Batch(cur)
    /\ pc \in {"write", "sync_batch"} /\ Batch(cur) =>
           \A k \in 1 .. Count(cur) :
               pc = "sync_batch" \/ k < work.item => InActive(cur, work.first + k - 1)
    /\ pc = "index" /\ Batch(cur) =>
           \A k \in 1 .. Count(cur) : OnDisk(cur, work.first + k - 1)

\* While no panic abandons the active segment, whatever is indexed is on disk
\* or will be with the next sync.
SyncedOK ==
    /\ \A e \in entries : OnDisk(e.request, e.seq) \/ InActive(e.request, e.seq)
    /\ pc = "index" /\ ~Batch(cur) => InActive(cur, work.first)
    /\ pc = "deferred" /\ barrier_ok => \A e \in entries : OnDisk(e.request, e.seq)
    /\ \A r \in fence_ledger.requests : r <= issued /\ Fenced(r)

-----------------------------------------------------------------------------
(* The commands behind the entries.                                        *)

\* An indexed command that is not answered waits in the ledger or is about to
\* be published.
HeldOK ==
    \A e \in entries :
        /\ reply[e.request] # "unsent"
        /\ reply[e.request] = "sent" =>
               \/ e.request \in fence_ledger.requests
               \/ e.request = cur /\ pc \in {"publish", "broadcast"}

\* What waits is staged, what was cancelled is hidden.
HiddenOK ==
    \A e \in entries :
        /\ e.request \in fence_ledger.requests => e.seq \in fence_ledger.seqs
        /\ reply[e.request] = "cancelled" => e.seq \in cancelled_ranges

-----------------------------------------------------------------------------
(* Batches are not cut.                                                    *)

\* No command has events on both sides of n; no command has events of lane l
\* on both sides of n.
Cut(n) ==
    \A e, f \in entries : e.request = f.request => (e.seq < n <=> f.seq < n)
LaneCut(l, n) ==
    \A e, f \in entries :
        e.request = f.request /\ e.lane = l /\ f.lane = l => (e.seq < n <=> f.seq < n)

CancelledOK ==
    /\ \A s \in cancelled_ranges : s < allocated
    /\ Unindexed => /\ active_fence_end <= work.first
                    /\ \A s \in cancelled_ranges : s < work.first
    /\ \A l \in Lanes : lane_cancelled_ranges[l] \subseteq cancelled_ranges

CutsOK ==
    /\ Cut(visible) /\ Cut(fence_ledger.up_to)
    /\ Cut(active_fence_start) /\ Cut(active_fence_end)
    /\ \A l \in Lanes : LaneCut(l, lane_visible[l]) /\ LaneCut(l, fence_ledger.points[l])
    /\ \A e, f \in entries : e.request = f.request =>
           (e.seq \in cancelled_ranges <=> f.seq \in cancelled_ranges)

-----------------------------------------------------------------------------
(* One producer: what keeps unfenced appends out of an open fence.         *)

PendingUnfenced == {r \in Requests : request[r].op \in {"Append", "AppendBatch"} /\ Pending(r)}
RoutedBy(c, r) == client[c].at = "routed" /\ client[c].req = r

\* An unfenced append waits in the channel, with the writer or with a producer;
\* whoever begins a fence waits for the answer.
RoutesOK ==
    /\ \A r \in PendingUnfenced :
           r \in Queued \/ (Executing /\ cur = r) \/ \E c \in Clients : RoutedBy(c, r)
    /\ \A r \in Begins : Pending(r) =>
           reply[r] = "sent" /\ \E c \in Clients : client[c].at = "beginning" /\ client[c].req = r

\* The unfenced appends of a single producer are all ahead of the begin of its
\* fence, and done when the ledger is opened.
FenceAloneOK ==
    /\ fence_ledger.token # 0 /\ fence_ledger.token = active_fence => PendingUnfenced = {}
    /\ \A b \in Begins : Pending(b) /\ request[b].token = active_fence =>
           /\ Executing /\ cur = b => PendingUnfenced = {}
           /\ \A i \in 1 .. Len(queue) : queue[i] = b =>
                  \A r \in PendingUnfenced :
                      (Executing /\ cur = r) \/ \E j \in 1 .. i - 1 : queue[j] = r

\* So nothing is published past what the fence has staged, and all that is above
\* its first sequence belongs to it.
StagedOK ==
    active_fence_start # Unset =>
        /\ ~Committing /\ pc # "persist"
        /\ visible <= active_fence_start
        /\ \A l \in Lanes : lane_visible[l] <= active_fence_start
        /\ \A l \in Lanes : fence_ledger.points[l] # 0 => active_fence_start < fence_ledger.points[l]
        /\ \A s \in cancelled_ranges : s < active_fence_start
        /\ fence_ledger.token = active_fence \/ Gone
        /\ ~Gone => \A e \in entries : active_fence_start <= e.seq => e.request \in fence_ledger.requests

\* Without panics, an event that is not seen is hidden for good, staged, or about
\* to be published.
PlacedOK ==
    \A e \in entries :
        \/ e.seq < visible /\ e.seq < lane_visible[e.lane]
        \/ e.seq \in cancelled_ranges
        \/ e.seq \in FenceRange
        \/ pc = "publish" /\ e.request = cur

\* What the ledger and the writer hold are whole commands that are not hidden.
TransactionOK ==
    /\ \A r \in fence_ledger.requests :
           EntriesOf(r) # {} /\ Fenced(r) /\ request[r].token = fence_ledger.token
    /\ InAppend /\ Fenced(cur) => request[cur].token = fence_ledger.token
    /\ Committing => \A s \in fence_ledger.seqs : s \notin cancelled_ranges
    /\ pc = "publish" \/ AppendBroadcast =>
           /\ \A s \in cancelled_ranges : s < work.first
           /\ \A e \in entries : e.request = cur <=> work.first <= e.seq
=============================================================================
