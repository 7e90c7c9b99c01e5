-------------------------- MODULE WriteTypeProofs ---------------------------
(***************************************************************************)
(* The write path keeps its types and its control structure: the first     *)
(* layer of the inductive invariant.  What each step touches comes first,  *)
(* then the types of the gate, the watermarks, the ledger, the index, the  *)
(* segments, the fault counters and the writer's loop, then the commands.  *)
(***************************************************************************)
EXTENDS WriteInvariants, TLAPS


-----------------------------------------------------------------------------
(* The operators.                                                          *)

\* Larger is the larger of two numbers.
LEMMA LargerBounds ==
    \A a, b \in Nat : Larger(a, b) \in Nat /\ a <= Larger(a, b) /\ b <= Larger(a, b)
BY DEF Larger

\* The sequence of item i of an append of n items that starts at f, and the
\* exclusive bound it gives its lane.
LEMMA ItemBounds ==
    \A f, n \in Nat : \A i \in 1 .. n :
        /\ i \in Nat /\ f + i \in Nat /\ f + i - 1 \in Nat /\ f + i - 1 < f + n
        /\ f < f + i /\ f + i <= f + n /\ f + i - 1 < f + i
OBVIOUS

\* Later items have larger bounds.
LEMMA ItemsOrdered ==
    \A f, i, j \in Nat : j <= i => f + i >= f + j
OBVIOUS

\* The sequences from a up to and excluding b.
LEMMA RangeMember ==
    \A a, b, s \in Nat : a <= s /\ s < b => s \in a .. b - 1
OBVIOUS

\* What is below m is below m + 1.
LEMMA BelowNext ==
    \A n, m \in Nat : n < m => n < m + 1
OBVIOUS

\* The command the writer holds was issued; an append has a lane for each item.
LEMMA CurrentCommand ==
    ASSUME ControlOK, Busy
    PROVE  /\ cur \in Requests
           /\ Count(cur) \in Nat
           /\ \A i \in 1 .. Count(cur) : request[cur].lanes[i] \in Lanes
           /\ InAppend \/ request[cur].op \in AppendOps => Count(cur) > 0 /\ LastSeq \in Nat
<1>1. cur \in Requests
  BY WriterAssumption DEF ControlOK, StepOK, CommandsOK, TypeOK, ControlTypeOK, Requests
<1>2. request[cur].lanes \in Seq(Lanes)
  <2>1. request[cur] \in Command \cup {NoRequest}
    BY Zenon, <1>1 DEF ControlOK, TypeOK, CommandTypeOK
  <2>2. CASE request[cur] \in Command
    BY Zenon, <2>2 DEF Command
  <2>3. CASE request[cur] = NoRequest
    <3>1. request[cur].lanes = <<>>
      BY <2>3 DEF NoRequest
    <3> QED
      BY <3>1
  <2> QED
    BY Zenon, <2>1, <2>2, <2>3
<1>3. Count(cur) \in Nat /\ \A i \in 1 .. Count(cur) : request[cur].lanes[i] \in Lanes
  BY <1>2 DEF Count
<1>4. InAppend \/ request[cur].op \in AppendOps => Count(cur) > 0
  BY Zenon, <1>1 DEF ControlOK, StepOK, CommandsOK, WellFormed, Count
<1>5. work.first \in Nat
  BY Zenon DEF ControlOK, TypeOK, LoopTypeOK
<1> QED
  BY <1>1, <1>3, <1>4, <1>5 DEF LastSeq

\* publish_on_lanes keeps the reader bounds numbers.
LEMMA PublishTypes ==
    ASSUME GateTypeOK, NEW n \in Nat, NEW p \in [Lanes -> Nat], publish_on_lanes(n, p)
    PROVE  visible' \in Nat /\ lane_visible' \in [Lanes -> Nat]
BY Zenon DEF GateTypeOK, publish_on_lanes

\* cancel_fence closes the fence and hides only sequences.
LEMMA CancelTypes ==
    ASSUME GateTypeOK, IndexTypeOK, NEW token, CancelInIndex(token)
    PROVE  /\ active_fence' \in Nat
           /\ active_fence_start' \in Nat \cup {Unset}
           /\ active_fence_end' \in Nat
           /\ cancelled_ranges' \in SUBSET Nat
           /\ lane_cancelled_ranges' \in [Lanes -> SUBSET Nat]
<1> DEFINE seqs(l) == {e.seq : e \in {x \in entries : x.lane = l /\ x.seq \in FenceRange}}
<1>1. FenceRange \in SUBSET Nat
  BY DEF GateTypeOK, FenceRange, Unset
<1>2. \A l \in Lanes : seqs(l) \in SUBSET Nat
  BY Zenon DEF IndexTypeOK
<1>3. cancelled_ranges' \in SUBSET Nat
  BY Zenon, <1>1 DEF GateTypeOK, CancelInIndex, cancel_fence
<1>4. lane_cancelled_ranges' = [l \in Lanes |-> lane_cancelled_ranges[l] \cup seqs(l)]
  BY Zenon DEF CancelInIndex, cancel_fence
<1>5. lane_cancelled_ranges' \in [Lanes -> SUBSET Nat]
  BY Zenon, <1>2, <1>4 DEF GateTypeOK
<1> QED
  BY Zenon, <1>3, <1>5 DEF CancelInIndex, cancel_fence, CloseFence, Unset

\* The watermarks stay points, whichever one advances.
LEMMA AcceptedTypes ==
    ASSUME FrontierTypeOK, NEW l \in Lanes, NEW s \in Nat, advance_accepted_on_lane(l, s)
    PROVE  FrontierTypeOK'
BY Zenon DEF FrontierTypeOK, PointsType, advance_accepted_on_lane, Larger

\* The written points keep their type.
LEMMA WrittenTypes ==
    ASSUME FrontierTypeOK, NEW l \in Lanes, NEW s \in Nat, advance_written_on_lane(l, s)
    PROVE  FrontierTypeOK'
BY Zenon DEF FrontierTypeOK, PointsType, advance_written_on_lane, Larger

\* The durable points keep their type.
LEMMA DurableTypes ==
    ASSUME FrontierTypeOK, advance_durable_to_accepted
    PROVE  FrontierTypeOK'
BY Zenon DEF FrontierTypeOK, PointsType, advance_durable_to_accepted, LaneDurableTo, Larger

\* The visible and emitted points keep their type.
LEMMA VisibleTypes ==
    ASSUME FrontierTypeOK, NEW s \in Int, NEW p \in [Lanes -> Nat],
           advance_visible_and_emitted(s, p)
    PROVE  FrontierTypeOK'
BY DEF FrontierTypeOK, PointsType, advance_visible_and_emitted, Larger

-----------------------------------------------------------------------------
(* Which steps touch what.                                                 *)

\* The steps that touch the gate.
LEMMA GateFrame ==
    ASSUME [Next]_vars
    PROVE  \/ UNCHANGED gateVars
           \/ StartAppend \/ IndexAppend \/ PublishAppend \/ CommitFence
           \/ CancelFence \/ AutoCancelFence \/ Panic
           \/ \E c \in Clients : BeginFence(c) \/ SendBeginFails(c)
<1>1. CASE AppendStep
  BY Zenon, <1>1 DEF AppendStep, RefuseAppend, AcceptItem, RotateSegment, RotateFails,
     WriteFrame, WriteFails, SyncBatch, BroadcastAppend
<1>2. CASE FenceStep
  BY Zenon, <1>2 DEF FenceStep, ExecuteBegin, DeferredBegin, CommitRefused, CommitFails,
     BroadcastFence, CancelRefused, PersistCancel
<1>3. CASE LoopStep
  BY Zenon, <1>3 DEF LoopStep, Receive, EndDrain, PeriodicSync, SyncBarrier, DeferredSync,
     DeferredShutdown, StartShutdown, FinishShutdown
<1>4. ASSUME NEW c \in Clients, ClientStep(c)
      PROVE  UNCHANGED gateVars \/ BeginFence(c) \/ SendBeginFails(c)
  BY Zenon, <1>4 DEF ClientStep, Route, Send, SendFails, SubmitSync, SendBegin, AwaitBegin,
     FinishFence, AwaitFinish, DropFence
<1>5. CASE HelperSend \/ CloseEvent \/ SendShutdown
  BY Zenon, <1>5 DEF HelperSend, CloseEvent, SendShutdown
<1>7. CASE UNCHANGED vars
  BY Zenon, <1>7 DEF vars, writerVars
<1> QED
  BY Zenon, <1>1, <1>2, <1>3, <1>4, <1>5, <1>7 DEF Next, WriterMoves, WriterStep

\* The steps that touch the watermarks.
LEMMA FrontierFrame ==
    ASSUME [Next]_vars
    PROVE  \/ UNCHANGED frontierVars
           \/ AcceptItem \/ RotateSegment \/ WriteFrame \/ SyncBatch \/ PeriodicSync
           \/ SyncBarrier \/ FinishShutdown \/ BroadcastAppend \/ BroadcastFence
<1>1. CASE AppendStep
  BY Zenon, <1>1 DEF AppendStep, StartAppend, RefuseAppend, RotateFails, WriteFails,
     IndexAppend, PublishAppend
<1>2. CASE FenceStep
  BY Zenon, <1>2 DEF FenceStep, ExecuteBegin, DeferredBegin, CommitRefused, CommitFails,
     CommitFence, CancelRefused, CancelFence, PersistCancel
<1>3. CASE LoopStep
  BY Zenon, <1>3 DEF LoopStep, Receive, EndDrain, DeferredSync, DeferredShutdown,
     StartShutdown, AutoCancelFence
<1>4. ASSUME NEW c \in Clients, ClientStep(c)
      PROVE  UNCHANGED frontierVars
  BY Zenon, <1>4 DEF ClientStep, Route, Send, SendFails, SubmitSync, BeginFence, SendBegin,
     SendBeginFails, AwaitBegin, FinishFence, AwaitFinish, DropFence, WriterAside
<1>5. CASE HelperSend \/ CloseEvent \/ SendShutdown
  BY Zenon, <1>5 DEF HelperSend, CloseEvent, SendShutdown, WriterAside
<1>6. CASE Panic
  BY Zenon, <1>6 DEF Panic
<1>7. CASE UNCHANGED vars
  BY Zenon, <1>7 DEF vars, writerVars
<1> QED
  BY Zenon, <1>1, <1>2, <1>3, <1>4, <1>5, <1>6, <1>7 DEF Next, WriterMoves, WriterStep

\* The steps that touch the ledger.
LEMMA LedgerFrame ==
    ASSUME [Next]_vars
    PROVE  \/ UNCHANGED fence_ledger
           \/ IndexAppend \/ ExecuteBegin \/ DeferredBegin \/ CommitFails
           \/ BroadcastFence \/ PersistCancel \/ DeferredShutdown \/ AutoCancelFence
           \/ Panic
<1>1. CASE AppendStep
  BY Zenon, <1>1 DEF AppendStep, StartAppend, RefuseAppend, AcceptItem, RotateSegment,
     RotateFails, WriteFrame, WriteFails, SyncBatch, PublishAppend, BroadcastAppend
<1>2. CASE FenceStep
  BY Zenon, <1>2 DEF FenceStep, CommitRefused, CommitFence, CancelRefused, CancelFence
<1>3. CASE LoopStep
  BY Zenon, <1>3 DEF LoopStep, Receive, EndDrain, PeriodicSync, SyncBarrier, DeferredSync,
     StartShutdown, FinishShutdown
<1>4. ASSUME NEW c \in Clients, ClientStep(c)
      PROVE  UNCHANGED fence_ledger
  BY Zenon, <1>4 DEF ClientStep, Route, Send, SendFails, SubmitSync, BeginFence, SendBegin,
     SendBeginFails, AwaitBegin, FinishFence, AwaitFinish, DropFence, WriterAside
<1>5. CASE HelperSend \/ CloseEvent \/ SendShutdown
  BY Zenon, <1>5 DEF HelperSend, CloseEvent, SendShutdown, WriterAside
<1>7. CASE UNCHANGED vars
  BY Zenon, <1>7 DEF vars, writerVars
<1> QED
  BY Zenon, <1>1, <1>2, <1>3, <1>4, <1>5, <1>7 DEF Next, WriterMoves, WriterStep

\* The steps that touch the index.
LEMMA IndexFrame ==
    ASSUME [Next]_vars
    PROVE  \/ UNCHANGED indexVars
           \/ IndexAppend \/ BroadcastAppend \/ BroadcastFence \/ PersistCancel
           \/ AutoCancelFence \/ Panic
<1>1. CASE AppendStep
  BY Zenon, <1>1 DEF AppendStep, StartAppend, RefuseAppend, AcceptItem, RotateSegment,
     RotateFails, WriteFrame, WriteFails, SyncBatch, PublishAppend
<1>2. CASE FenceStep
  BY Zenon, <1>2 DEF FenceStep, ExecuteBegin, DeferredBegin, CommitRefused, CommitFails,
     CommitFence, CancelRefused, CancelFence
<1>3. CASE LoopStep
  BY Zenon, <1>3 DEF LoopStep, Receive, EndDrain, PeriodicSync, SyncBarrier, DeferredSync,
     DeferredShutdown, StartShutdown, FinishShutdown
<1>4. ASSUME NEW c \in Clients, ClientStep(c)
      PROVE  UNCHANGED indexVars
  BY Zenon, <1>4 DEF ClientStep, Route, Send, SendFails, SubmitSync, BeginFence, SendBegin,
     SendBeginFails, AwaitBegin, FinishFence, AwaitFinish, DropFence, WriterAside
<1>5. CASE HelperSend \/ CloseEvent \/ SendShutdown
  BY Zenon, <1>5 DEF HelperSend, CloseEvent, SendShutdown, WriterAside
<1>7. CASE UNCHANGED vars
  BY Zenon, <1>7 DEF vars, writerVars
<1> QED
  BY Zenon, <1>1, <1>2, <1>3, <1>4, <1>5, <1>7 DEF Next, WriterMoves, WriterStep

\* The steps that touch the segment files.
LEMMA DiskFrame ==
    ASSUME [Next]_vars
    PROVE  \/ UNCHANGED diskVars
           \/ RotateSegment \/ RotateFails \/ WriteFrame \/ WriteFails \/ SyncBatch
           \/ PeriodicSync \/ SyncBarrier \/ FinishShutdown \/ Panic
<1>1. CASE AppendStep
  BY Zenon, <1>1 DEF AppendStep, StartAppend, RefuseAppend, AcceptItem, IndexAppend,
     PublishAppend, BroadcastAppend
<1>2. CASE FenceStep
  BY Zenon, <1>2 DEF FenceStep, ExecuteBegin, DeferredBegin, CommitRefused, CommitFails,
     CommitFence, BroadcastFence, CancelRefused, CancelFence, PersistCancel
<1>3. CASE LoopStep
  BY Zenon, <1>3 DEF LoopStep, Receive, EndDrain, DeferredSync, DeferredShutdown,
     StartShutdown, AutoCancelFence
<1>4. ASSUME NEW c \in Clients, ClientStep(c)
      PROVE  UNCHANGED diskVars
  BY Zenon, <1>4 DEF ClientStep, Route, Send, SendFails, SubmitSync, BeginFence, SendBegin,
     SendBeginFails, AwaitBegin, FinishFence, AwaitFinish, DropFence, WriterAside
<1>5. CASE HelperSend \/ CloseEvent \/ SendShutdown
  BY Zenon, <1>5 DEF HelperSend, CloseEvent, SendShutdown, WriterAside
<1>7. CASE UNCHANGED vars
  BY Zenon, <1>7 DEF vars, writerVars
<1> QED
  BY Zenon, <1>1, <1>2, <1>3, <1>4, <1>5, <1>7 DEF Next, WriterMoves, WriterStep

-----------------------------------------------------------------------------
(* The types of each group of variables.                                   *)

\* Every step keeps the type of the gate.
LEMMA GateTypeStep ==
    ASSUME ControlOK, [Next]_vars
    PROVE  GateTypeOK'
<1>1. GateTypeOK /\ IndexTypeOK /\ LoopTypeOK /\ LedgerTypeOK
  BY Zenon DEF ControlOK, TypeOK
<1>2. CASE UNCHANGED gateVars
  BY Zenon, <1>1, <1>2 DEF gateVars, GateTypeOK
<1>3. CASE StartAppend
  <2>1. Count(cur) \in Nat
    BY Zenon, <1>3, CurrentCommand DEF StartAppend, Busy
  <2> QED
    BY <1>1, <1>3, <2>1 DEF StartAppend, GateTypeOK, reserve, published, fenceVars, cancelVars
<1>4. CASE IndexAppend
  <2>1. work.first \in Nat /\ LastSeq + 1 \in Nat
    BY <1>1, <1>4, CurrentCommand DEF IndexAppend, Busy, InAppend, LoopTypeOK
  <2>2. allocated' \in Nat
    BY <1>1, <1>4 DEF IndexAppend, GateTypeOK, reserve
  <2>3. active_fence' \in Nat /\ active_fence_start' \in Nat \cup {Unset} /\ active_fence_end' \in Nat
    BY Zenon, <1>1, <1>4, <2>1 DEF IndexAppend, GateTypeOK, note_fence_progress, fenceVars
  <2> QED
    BY Zenon, <1>1, <1>4, <2>2, <2>3 DEF IndexAppend, GateTypeOK, published, cancelVars
<1>5. CASE PublishAppend
  <2>1. LastSeq + 1 \in Nat /\ work.points \in [Lanes -> Nat]
    BY <1>1, <1>5, CurrentCommand DEF PublishAppend, Busy, InAppend, LoopTypeOK
  <2>2. visible' \in Nat /\ lane_visible' \in [Lanes -> Nat]
    BY Zenon, <1>1, <1>5, <2>1, PublishTypes DEF PublishAppend
  <2> QED
    BY Zenon, <1>1, <1>5, <2>2 DEF PublishAppend, GateTypeOK, fenceVars, cancelVars
<1>6. CASE CommitFence
  <2>1. fence_ledger.up_to \in Nat /\ fence_ledger.points \in [Lanes -> Nat]
    BY Zenon, <1>1 DEF LedgerTypeOK
  <2>2. visible' \in Nat /\ lane_visible' \in [Lanes -> Nat]
    BY Zenon, <1>1, <1>6, <2>1, PublishTypes DEF CommitFence, finish_fence_on_lanes, GateTypeOK, published
  <2> QED
    BY Zenon, <1>1, <1>6, <2>2 DEF CommitFence, finish_fence_on_lanes, CloseFence, GateTypeOK, cancelVars
<1>7. CASE CancelFence
  BY Zenon, <1>1, <1>7, CancelTypes DEF CancelFence, GateTypeOK, published
<1>8. CASE AutoCancelFence
  BY Zenon, <1>1, <1>8, CancelTypes DEF AutoCancelFence, GateTypeOK, published, fenceVars, cancelVars
<1>9. CASE Panic
  BY Zenon, <1>1, <1>9, CancelTypes DEF Panic, GateTypeOK, published, fenceVars, cancelVars
<1>10. ASSUME NEW c \in Clients, BeginFence(c)
       PROVE  GateTypeOK'
  BY <1>1, <1>10 DEF BeginFence, begin_fence, begin_fence_refused, GateTypeOK, published,
     fenceVars, cancelVars, Unset
<1>11. ASSUME NEW c \in Clients, SendBeginFails(c)
       PROVE  GateTypeOK'
  BY Zenon, <1>1, <1>11, CancelTypes DEF SendBeginFails, GateTypeOK, published, fenceVars, cancelVars
<1> QED
  BY Zenon, <1>2, <1>3, <1>4, <1>5, <1>6, <1>7, <1>8, <1>9, <1>10, <1>11, GateFrame

\* Every step keeps the type of the watermarks.
LEMMA FrontierTypeStep ==
    ASSUME ControlOK, [Next]_vars
    PROVE  FrontierTypeOK'
<1>1. FrontierTypeOK /\ LoopTypeOK /\ LedgerTypeOK
  BY Zenon DEF ControlOK, TypeOK
<1>2. work.item \in Nat /\ work.first \in Nat /\ work.points \in [Lanes -> Nat]
  BY Zenon, <1>1 DEF LoopTypeOK
<1>3. CASE UNCHANGED frontierVars
  BY Zenon, <1>1, <1>3 DEF frontierVars, FrontierTypeOK
<1>4. CASE AcceptItem
  <2>1. work.item \in 1 .. Count(cur) /\ request[cur].lanes[work.item] \in Lanes
    BY Zenon, <1>4, CurrentCommand DEF AcceptItem, Busy, ControlOK, StepOK
  <2>2. advance_accepted_on_lane(request[cur].lanes[work.item], work.first + work.item - 1)
    BY Zenon, <1>4 DEF AcceptItem
  <2>3. work.first + work.item - 1 \in Nat
    BY <1>2, <2>1
  <2> QED
    BY Zenon, <1>1, <2>1, <2>2, <2>3, AcceptedTypes
<1>5. CASE WriteFrame
  <2>1. CASE work.item \in 1 .. Count(cur)
    <3>1. request[cur].lanes[work.item] \in Lanes
      BY Zenon, <1>5, <2>1, CurrentCommand DEF WriteFrame, Busy
    <3>2. advance_written_on_lane(request[cur].lanes[work.item], work.first + work.item - 1)
      BY Zenon, <1>5, <2>1 DEF WriteFrame
    <3>3. work.first + work.item - 1 \in Nat
      BY <1>2, <2>1
    <3> QED
      BY Zenon, <1>1, <3>1, <3>2, <3>3, WrittenTypes
  <2>2. CASE work.item \notin 1 .. Count(cur)
    BY Zenon, <1>3, <1>5, <2>2 DEF WriteFrame
  <2> QED
    BY Zenon, <2>1, <2>2
<1>6. CASE RotateSegment
  BY Zenon, <1>1, <1>6, DurableTypes DEF RotateSegment
<1>7. CASE SyncBatch \/ PeriodicSync \/ SyncBarrier \/ FinishShutdown
  <2>1. advance_durable_to_accepted \/ UNCHANGED frontierVars
    BY Zenon, <1>7 DEF SyncBatch, PeriodicSync, SyncBarrier, FinishShutdown, SyncActive, SyncFails
  <2> QED
    BY Zenon, <1>1, <1>3, <2>1, DurableTypes
<1>8. CASE BroadcastAppend
  <2>1. LastSeq \in Nat
    BY Zenon, <1>8, CurrentCommand DEF BroadcastAppend, Busy
  <2> QED
    BY <1>1, <1>2, <1>8, <2>1, VisibleTypes DEF BroadcastAppend
<1>9. CASE BroadcastFence
  <2>1. fence_ledger.up_to - 1 \in Int /\ fence_ledger.points \in [Lanes -> Nat]
    BY <1>1 DEF LedgerTypeOK
  <2> QED
    BY Zenon, <1>1, <1>9, <2>1, VisibleTypes DEF BroadcastFence
<1> QED
  BY Zenon, <1>3, <1>4, <1>5, <1>6, <1>7, <1>8, <1>9, FrontierFrame

\* Every step keeps the type of the fence ledger.
LEMMA LedgerTypeStep ==
    ASSUME ControlOK, [Next]_vars
    PROVE  LedgerTypeOK'
<1>1. LedgerTypeOK /\ LoopTypeOK /\ CommandTypeOK
  BY Zenon DEF ControlOK, TypeOK
<1>2. NoLedger \in [token : Nat, up_to : Nat, points : [Lanes -> Nat], seqs : SUBSET Nat,
                    requests : SUBSET Requests]
  BY Zenon DEF NoLedger, NoLanePoints
<1>3. CASE UNCHANGED fence_ledger \/ fence_ledger' = NoLedger
  BY Zenon, <1>1, <1>2, <1>3 DEF LedgerTypeOK
<1>4. CASE IndexAppend
  <2>1. cur \in Requests /\ LastSeq \in Nat /\ LastSeq + 1 \in Nat
    BY <1>4, CurrentCommand DEF IndexAppend, Busy, InAppend
  <2>2. work.first \in Nat /\ work.points \in [Lanes -> Nat]
    BY Zenon, <1>1 DEF LoopTypeOK
  <2>3. CurSeqs \in SUBSET Nat
    BY <2>1, <2>2 DEF CurSeqs
  <2>4. CASE Fenced(cur)
    <3>1. [l \in Lanes |-> Larger(fence_ledger.points[l], work.points[l])] \in [Lanes -> Nat]
      BY Zenon, <1>1, <2>2 DEF LedgerTypeOK, Larger
    <3>2. Larger(fence_ledger.up_to, LastSeq + 1) \in Nat
      BY Zenon, <1>1, <2>1 DEF LedgerTypeOK, Larger
    <3>3. fence_ledger' = [fence_ledger EXCEPT
                !.up_to = Larger(fence_ledger.up_to, LastSeq + 1),
                !.points = [l \in Lanes |-> Larger(fence_ledger.points[l], work.points[l])],
                !.seqs = fence_ledger.seqs \cup CurSeqs,
                !.requests = fence_ledger.requests \cup {cur}]
      BY Zenon, <1>4, <2>4 DEF IndexAppend
    <3> QED
      BY Zenon, <1>1, <2>1, <2>3, <3>1, <3>2, <3>3 DEF LedgerTypeOK
  <2>5. CASE ~Fenced(cur)
    BY Zenon, <1>3, <1>4, <2>5 DEF IndexAppend
  <2> QED
    BY Zenon, <2>4, <2>5
<1>5. ASSUME BeginLedger, cur \in Requests
      PROVE  LedgerTypeOK'
  <2>1. request[cur].token \in Nat
    BY <1>1, <1>5 DEF CommandTypeOK, Command, NoRequest
  <2> QED
    BY Zenon, <1>1, <1>2, <1>5, <2>1 DEF BeginLedger, LedgerTypeOK
<1>6. CASE ExecuteBegin \/ DeferredBegin
  <2>1. cur \in Requests
    BY Zenon, <1>6, CurrentCommand DEF ExecuteBegin, DeferredBegin, Busy
  <2> QED
    BY Zenon, <1>3, <1>5, <1>6, <2>1 DEF ExecuteBegin, DeferredBegin
<1>7. CASE CommitFails \/ BroadcastFence \/ PersistCancel \/ DeferredShutdown
           \/ AutoCancelFence \/ Panic
  BY Zenon, <1>3, <1>7 DEF CommitFails, BroadcastFence, PersistCancel, DeferredShutdown,
     AutoCancelFence, Panic
<1> QED
  BY Zenon, <1>3, <1>4, <1>6, <1>7, LedgerFrame

\* Every step keeps the type of the index, the notifications and the hidden file.
LEMMA IndexTypeStep ==
    ASSUME ControlOK, [Next]_vars
    PROVE  IndexTypeOK'
<1>1. IndexTypeOK /\ LoopTypeOK /\ LedgerTypeOK /\ GateTypeOK
  BY Zenon DEF ControlOK, TypeOK
<1>2. GateTypeOK'
  BY Zenon, GateTypeStep
<1>3. CASE UNCHANGED indexVars
  BY Zenon, <1>1, <1>3 DEF IndexTypeOK, indexVars
<1>4. CASE IndexAppend
  <2>1. cur \in Requests /\ Count(cur) \in Nat
        /\ \A i \in 1 .. Count(cur) : request[cur].lanes[i] \in Lanes
    BY Zenon, <1>4, CurrentCommand DEF IndexAppend, Busy
  <2>2. work.first \in Nat
    BY Zenon, <1>1 DEF LoopTypeOK
  <2>3. {[seq |-> work.first + i - 1, lane |-> request[cur].lanes[i], request |-> cur] :
            i \in 1 .. Count(cur)} \in SUBSET [seq : Nat, lane : Lanes, request : Requests]
    BY <2>1, <2>2
  <2> QED
    BY Zenon, <1>1, <1>4, <2>3 DEF IndexAppend, IndexTypeOK
<1>5. CASE BroadcastAppend
  <2>1. LastSeq \in Nat /\ work.first \in Nat
    BY Zenon, <1>1, <1>5, CurrentCommand DEF BroadcastAppend, Busy, LoopTypeOK
  <2>2. CurSeqs \in SUBSET Nat
    BY <2>1 DEF CurSeqs
  <2>3. UNCHANGED <<entries, hidden_file>> /\ notified' = notified \cup CurSeqs
    BY Zenon, <1>5 DEF BroadcastAppend
  <2> QED
    BY Zenon, <1>1, <2>2, <2>3 DEF IndexTypeOK
<1>6. CASE BroadcastFence
  BY Zenon, <1>1, <1>6 DEF BroadcastFence, IndexTypeOK, LedgerTypeOK
<1>7. CASE PersistCancel \/ AutoCancelFence \/ Panic
  <2>1. UNCHANGED <<entries, notified>> /\ (PersistHidden \/ UNCHANGED hidden_file)
    BY Zenon, <1>7 DEF PersistCancel, AutoCancelFence, Panic
  <2> QED
    BY Zenon, <1>1, <1>2, <2>1 DEF IndexTypeOK, GateTypeOK, PersistHidden
<1> QED
  BY Zenon, <1>3, <1>4, <1>5, <1>6, <1>7, IndexFrame

\* Every step keeps the type of the segments and the log.
LEMMA DiskTypeStep ==
    ASSUME ControlOK, [Next]_vars
    PROVE  DiskTypeOK'
<1>1. DiskTypeOK /\ LoopTypeOK
  BY Zenon DEF ControlOK, TypeOK
<1>2. CASE UNCHANGED diskVars
  BY Zenon, <1>1, <1>2 DEF DiskTypeOK, diskVars
<1>3. CASE SyncActive
  BY Zenon, <1>1, <1>3 DEF SyncActive, DiskTypeOK
<1>4. CASE SyncBatch \/ PeriodicSync \/ SyncBarrier \/ FinishShutdown
  BY Zenon, <1>2, <1>3, <1>4 DEF SyncBatch, PeriodicSync, SyncBarrier, FinishShutdown, SyncFails
<1>5. CASE RotateSegment
  <2>1. stable' \in SUBSET (1 .. Len(log')) /\ UNCHANGED log
    BY Zenon, <1>1, <1>5 DEF RotateSegment, DiskTypeOK
  <2> QED
    BY <1>1, <1>5, <2>1 DEF RotateSegment, DiskTypeOK
<1>6. CASE RotateFails
  BY <1>1, <1>6 DEF RotateFails, DiskTypeOK
<1>7. ASSUME pc = "write"
      PROVE  FrameAt(work.item) \in Frame /\ [FrameAt(work.item) EXCEPT !.kind = "torn"] \in Frame
  <2>1. cur \in Requests /\ Count(cur) \in Nat
    BY Zenon, <1>7, CurrentCommand DEF Busy
  <2>2. work.first \in Nat /\ work.item \in Nat /\ segment \in Nat
    BY Zenon, <1>1 DEF LoopTypeOK, DiskTypeOK
  <2> QED
    BY <2>1, <2>2 DEF FrameAt, Frame
<1>8. ASSUME NEW f \in Frame, log' = Append(log, f), stable' = stable
      PROVE  log' \in Seq(Frame) /\ stable' \in SUBSET (1 .. Len(log'))
  BY <1>1, <1>8 DEF DiskTypeOK
<1>9. CASE WriteFrame
  BY <1>1, <1>7, <1>8, <1>9 DEF WriteFrame, DiskTypeOK
<1>10. CASE WriteFails
  BY Zenon, <1>1, <1>7, <1>8, <1>10 DEF WriteFails, DiskTypeOK
<1>11. CASE Panic
  BY <1>1, <1>11 DEF Panic, DiskTypeOK
<1> QED
  BY Zenon, <1>2, <1>4, <1>5, <1>6, <1>9, <1>10, <1>11, DiskFrame

\* Every step keeps the type of the fault, panic and restart counters.
LEMMA BudgetTypeStep ==
    ASSUME ControlOK, [Next]_vars
    PROVE  BudgetTypeOK'
<1>1. BudgetTypeOK
  BY Zenon DEF ControlOK, TypeOK
<1>2. CASE Spend
  BY <1>1, <1>2 DEF Spend, BudgetTypeOK
<1>3. CASE UNCHANGED budgetVars
  BY Zenon, <1>1, <1>3 DEF BudgetTypeOK, budgetVars
<1>4. CASE Panic
  BY <1>1, <1>4 DEF Panic, BudgetTypeOK
<1>5. CASE AppendStep
  <2>1. UNCHANGED budgetVars \/ Spend
    BY Zenon, <1>5 DEF AppendStep, StartAppend, RefuseAppend, AcceptItem, RotateSegment, RotateFails,
       WriteFrame, WriteFails, SyncBatch, SyncFails, IndexAppend, PublishAppend, BroadcastAppend
  <2> QED
    BY Zenon, <1>2, <1>3, <2>1
<1>6. CASE FenceStep
  <2>1. UNCHANGED budgetVars \/ Spend
    BY Zenon, <1>6 DEF FenceStep, ExecuteBegin, DeferredBegin, CommitRefused, CommitFails, CommitFence,
       BroadcastFence, CancelRefused, CancelFence, PersistCancel
  <2> QED
    BY Zenon, <1>2, <1>3, <2>1
<1>7. CASE LoopStep
  <2>1. UNCHANGED budgetVars \/ Spend
    BY Zenon, <1>7 DEF LoopStep, Receive, EndDrain, PeriodicSync, SyncBarrier, SyncFails, DeferredSync,
       DeferredShutdown, StartShutdown, AutoCancelFence, FinishShutdown
  <2> QED
    BY Zenon, <1>2, <1>3, <2>1
<1>8. ASSUME NEW c \in Clients, ClientStep(c)
      PROVE  UNCHANGED budgetVars
  BY Zenon, <1>8 DEF ClientStep, WriterAside, Route, Send, SendFails, SubmitSync, BeginFence, SendBegin,
     SendBeginFails, AwaitBegin, FinishFence, AwaitFinish, DropFence
<1>9. CASE HelperSend \/ CloseEvent \/ SendShutdown
  <2>1. UNCHANGED budgetVars
    BY Zenon, <1>9 DEF WriterAside, HelperSend, CloseEvent, SendShutdown
  <2> QED
    BY Zenon, <1>3, <2>1
<1>10. CASE UNCHANGED vars
  BY Zenon, <1>3, <1>10 DEF vars, writerVars
<1> QED
  BY Zenon, <1>3, <1>4, <1>5, <1>6, <1>7, <1>8, <1>9, <1>10 DEF Next, WriterMoves, WriterStep

\* settle_command_result leaves the loop in one of its states.
LEMMA SettleTypes ==
    ASSUME LoopTypeOK, NEW delta \in Nat, Settle(delta) \/ SettleSynced
    PROVE  LoopTypeOK'
<1>1. AfterCommand \in Steps
  BY Zenon DEF AfterCommand, LoopTypeOK, Phases, Steps
<1>2. NoWork \in [item : Nat, first : Nat, points : [Lanes -> Nat]]
  BY Zenon DEF NoWork, NoLanePoints
<1>3. CASE Settle(delta)
  <2>1. drained' \in Nat
    BY <1>3 DEF Settle, LoopTypeOK
  <2> QED
    BY <1>1, <1>2, <1>3, <2>1 DEF Settle, LoopTypeOK
<1>4. CASE SettleSynced
  BY Zenon, <1>1, <1>2, <1>4 DEF SettleSynced, LoopTypeOK
<1> QED
  BY Zenon, <1>3, <1>4

\* Every step keeps the type of the writer's loop state.
LEMMA LoopTypeStep ==
    ASSUME ControlOK, [Next]_vars
    PROVE  LoopTypeOK'
<1>1. LoopTypeOK /\ CommandTypeOK /\ GateTypeOK
  BY Zenon DEF ControlOK, TypeOK
<1>2. ASSUME NEW delta \in Nat, Settle(delta) \/ SettleSynced
      PROVE  LoopTypeOK'
  BY Zenon, <1>1, <1>2, SettleTypes
<1>3. CASE UNCHANGED loopVars
  BY Zenon, <1>1, <1>3 DEF LoopTypeOK, loopVars
<1>4. CASE StartAppend
  BY Zenon, <1>1, <1>4 DEF StartAppend, LoopTypeOK, GateTypeOK, Steps, NoLanePoints
<1>5. CASE AcceptItem
  <2>1. request[cur].lanes[work.item] \in Lanes
    BY Zenon, <1>5, CurrentCommand DEF AcceptItem, Busy, ControlOK, StepOK
  <2>2. LanePoint(work.item) \in Nat
    BY <1>1 DEF LanePoint, LoopTypeOK
  <2>3. PICK n \in Nat : work' = [work EXCEPT
            !.points[request[cur].lanes[work.item]] = LanePoint(work.item), !.item = n]
    <3>1. work.item + 1 \in Nat /\ 0 \in Nat /\ 1 \in Nat
      BY <1>1 DEF LoopTypeOK
    <3> QED
      BY Zenon, <1>5, <3>1 DEF AcceptItem
  <2>4. work' \in [item : Nat, first : Nat, points : [Lanes -> Nat]]
    BY Zenon, <1>1, <2>1, <2>2, <2>3 DEF LoopTypeOK
  <2> QED
    BY Zenon, <1>1, <1>5, <2>4 DEF AcceptItem, LoopTypeOK, Steps
<1>6. CASE RotateSegment \/ PublishAppend
  BY Zenon, <1>1, <1>6 DEF RotateSegment, PublishAppend, LoopTypeOK, Steps
<1>7. CASE WriteFrame
  BY <1>1, <1>7 DEF WriteFrame, LoopTypeOK, Steps
<1>8. CASE RefuseAppend \/ RotateFails \/ WriteFails
  BY Zenon, <1>2, <1>8 DEF RefuseAppend, RotateFails, WriteFails, FailAppend
<1>9. CASE SyncBatch
  BY Zenon, <1>1, <1>2, <1>9 DEF SyncBatch, FailAppend, LoopTypeOK, Steps
<1>10. CASE IndexAppend
  BY Zenon, <1>1, <1>2, <1>10 DEF IndexAppend, LoopTypeOK, Steps
<1>11. CASE BroadcastAppend
  BY Zenon, <1>2, <1>11 DEF BroadcastAppend
<1>12. CASE FenceStep
  <2>1. CASE CommitFence \/ CancelFence
    BY Zenon, <1>1, <2>1 DEF CommitFence, CancelFence, LoopTypeOK, Steps
  <2>2. CASE ~(CommitFence \/ CancelFence)
    BY Zenon, <1>2, <1>12, <2>2 DEF FenceStep, ExecuteBegin, DeferredBegin, CommitRefused, CommitFails,
       BroadcastFence, CancelRefused, PersistCancel
  <2> QED
    BY Zenon, <2>1, <2>2
<1>13. CASE Receive
  <2>1. cur' \in Requests
    BY <1>1, <1>13 DEF Receive, Take, CommandTypeOK
  <2> QED
    BY Zenon, <1>1, <1>13, <2>1 DEF Receive, Take, LoopTypeOK, Steps, Phases
<1>14. CASE EndDrain \/ PeriodicSync \/ StartShutdown \/ AutoCancelFence
  <2>1. pc' \in Steps
    BY <1>1, <1>14 DEF EndDrain, PeriodicSync, StartShutdown, AutoCancelFence, LoopTypeOK, Steps
  <2>2. UNCHANGED <<cur, work, phase, barrier_ok>>
    BY Zenon, <1>14 DEF EndDrain, PeriodicSync, StartShutdown, AutoCancelFence
  <2>3. drained' \in Nat /\ since_sync' \in Nat
    BY <1>1, <1>14 DEF EndDrain, PeriodicSync, StartShutdown, AutoCancelFence, LoopTypeOK
  <2> QED
    BY Zenon, <1>1, <2>1, <2>2, <2>3 DEF LoopTypeOK
<1>15. CASE SyncBarrier
  BY Zenon, <1>1, <1>15 DEF SyncBarrier, LoopTypeOK, Steps
<1>16. CASE DeferredSync
  BY Zenon, <1>2, <1>16 DEF DeferredSync
<1>17. CASE DeferredShutdown \/ FinishShutdown
  BY Zenon, <1>1, <1>17 DEF DeferredShutdown, FinishShutdown, LoopTypeOK, Steps
<1>18. CASE Panic
  BY Zenon, <1>1, <1>18 DEF Panic, LoopTypeOK, Steps, NoWork, NoLanePoints
<1>19. ASSUME NEW c \in Clients, ClientStep(c)
       PROVE  UNCHANGED loopVars
  BY Zenon, <1>19 DEF ClientStep, WriterAside, Route, Send, SendFails, SubmitSync, BeginFence, SendBegin,
     SendBeginFails, AwaitBegin, FinishFence, AwaitFinish, DropFence
<1>20. CASE HelperSend \/ CloseEvent \/ SendShutdown \/ UNCHANGED vars
  <2>1. UNCHANGED loopVars
    BY Zenon, <1>20 DEF WriterAside, HelperSend, CloseEvent, SendShutdown, vars, writerVars
  <2> QED
    BY Zenon, <1>3, <2>1
<1> QED
  BY Zenon, <1>3, <1>4, <1>5, <1>6, <1>7, <1>8, <1>9, <1>10, <1>11, <1>12, <1>13, <1>14, <1>15, <1>16,
     <1>17, <1>18, <1>19, <1>20
     DEF Next, WriterMoves, WriterStep, AppendStep, LoopStep


-----------------------------------------------------------------------------
(* Commands, the channel and the responders.                               *)

\* Commands are only added, and every one is well formed.
LEMMA RequestFrame ==
    ASSUME ControlOK, [Next]_vars
    PROVE  \/ UNCHANGED <<request, issued>>
           \/ \E command \in Command : WellFormed(command) /\ Prepare(command)
<1>1. CASE WriterMoves
  <2>1. CASE AppendStep
    BY Zenon, <1>1, <2>1 DEF AppendStep, StartAppend, RefuseAppend, AcceptItem, RotateSegment, RotateFails,
       WriteFrame, WriteFails, SyncBatch, IndexAppend, PublishAppend, BroadcastAppend,
       controlVars, WriterMoves
  <2>2. CASE FenceStep
    BY Zenon, <1>1, <2>2 DEF FenceStep, ExecuteBegin, DeferredBegin, CommitRefused, CommitFails,
       CommitFence, BroadcastFence, CancelRefused, CancelFence, PersistCancel, controlVars,
       WriterMoves
  <2>3. CASE LoopStep
    BY Zenon, <1>1, <2>3 DEF LoopStep, Receive, EndDrain, PeriodicSync, SyncBarrier, DeferredSync,
       DeferredShutdown, StartShutdown, AutoCancelFence, FinishShutdown, controlVars, WriterMoves
  <2>4. CASE Panic
    BY Zenon, <1>1, <2>4 DEF Panic, controlVars, WriterMoves
  <2> QED
    BY Zenon, <1>1, <2>1, <2>2, <2>3, <2>4 DEF WriterMoves, WriterStep
<1>2. ASSUME NEW op \in Ops \ AppendOps, NEW token \in Nat
      PROVE  LET command == [op |-> op, token |-> token, lanes |-> <<>>]
             IN  command \in Command /\ WellFormed(command)
  BY <1>2 DEF Command, WellFormed, AppendOps
<1>3. ASSUME NEW c \in Clients, Route(c)
      PROVE  \E command \in Command : WellFormed(command) /\ Prepare(command)
  <2>1. PICK s \in Submissions(c) : Prepare(s)
    BY Zenon, <1>3 DEF Route
  <2>2. client[c].token \in Nat
    BY Zenon DEF ControlOK, TypeOK, ControlTypeOK, ClientType
  <2>3. CASE \E l \in Lanes : s = [op |-> IF client[c].token = 0 THEN "Append" ELSE "FenceAppend",
                                   token |-> client[c].token, lanes |-> <<l>>]
    <3>1. PICK l \in Lanes : s = [op |-> IF client[c].token = 0 THEN "Append" ELSE "FenceAppend",
                                  token |-> client[c].token, lanes |-> <<l>>]
      BY Zenon, <2>3
    <3>2. PICK b : b = <<l>>
      BY Zenon
    <3>3. b \in Seq(Lanes) /\ Len(b) = 1
      BY <3>2
    <3>4. s = [op |-> IF client[c].token = 0 THEN "Append" ELSE "FenceAppend",
               token |-> client[c].token, lanes |-> b]
      BY Zenon, <3>1, <3>2
    <3>5. s \in Command
      BY Zenon, <2>2, <3>3, <3>4 DEF Command, Ops, AppendOps
    <3>6. s.lanes = b /\ s.token = client[c].token
          /\ s.op = IF client[c].token = 0 THEN "Append" ELSE "FenceAppend"
      BY Zenon, <3>4
    <3>7. WellFormed(s)
      <4>1. Len(s.lanes) = 1
        BY Zenon, <3>3, <3>6
      <4>2. CASE client[c].token = 0
        <5>1. s.op = "Append" /\ s.token = 0
          BY Zenon, <3>6, <4>2
        <5> QED
          BY <4>1, <5>1 DEF WellFormed
      <4>3. CASE client[c].token # 0
        <5>1. s.op = "FenceAppend" /\ s.token # 0
          BY Zenon, <3>6, <4>3
        <5> QED
          BY <4>1, <5>1 DEF WellFormed
      <4> QED
        BY Zenon, <4>2, <4>3
    <3> QED
      BY Zenon, <2>1, <3>5, <3>7
  <2>4. CASE \E b \in Batches : s = [op |-> IF client[c].token = 0 THEN "AppendBatch"
                                            ELSE "FenceAppendBatch",
                                     token |-> client[c].token, lanes |-> b]
    <3>1. PICK b \in Batches : s = [op |-> IF client[c].token = 0 THEN "AppendBatch"
                                           ELSE "FenceAppendBatch",
                                    token |-> client[c].token, lanes |-> b]
      BY Zenon, <2>4
    <3>2. b \in Seq(Lanes) /\ Len(b) > 0
      BY ControlAssumption
    <3> QED
      BY Zenon, <2>1, <2>2, <3>1, <3>2 DEF Command, WellFormed, Ops, AppendOps
  <2> QED
    BY Zenon, <2>3, <2>4 DEF Submissions
<1>4. ASSUME NEW c \in Clients, ClientStep(c)
      PROVE  \/ UNCHANGED <<request, issued>>
             \/ \E command \in Command : WellFormed(command) /\ Prepare(command)
  <2>1. client[c].token \in Nat
    BY Zenon DEF ControlOK, TypeOK, ControlTypeOK, ClientType
  <2>2. CASE Send(c) \/ SendFails(c) \/ BeginFence(c) \/ SendBeginFails(c) \/ AwaitBegin(c)
             \/ AwaitFinish(c)
    BY Zenon, <2>2 DEF Send, SendFails, BeginFence, SendBeginFails, AwaitBegin, AwaitFinish
  <2>3. CASE SubmitSync(c)
    BY Zenon, <1>2, <2>3 DEF SubmitSync, PrepareAndEnqueue, Ops, AppendOps
  <2>4. CASE SendBegin(c)
    BY Zenon, <1>2, <2>1, <2>4 DEF SendBegin, PrepareAndEnqueue, Ops, AppendOps, FenceOps
  <2>5. CASE FinishFence(c)
    BY Zenon, <1>2, <2>1, <2>5 DEF FinishFence, PrepareAndEnqueue, Ops, AppendOps, FenceOps
  <2>6. CASE DropFence(c)
    BY Zenon, <1>2, <2>1, <2>6 DEF DropFence, PrepareAndEnqueue, CancelCommand, Ops, AppendOps, FenceOps
  <2> QED
    BY Zenon, <1>3, <1>4, <2>2, <2>3, <2>4, <2>5, <2>6 DEF ClientStep
<1>5. CASE HelperSend
  <2>1. helpers \in SUBSET Nat
    BY Zenon DEF ControlOK, TypeOK, ControlTypeOK
  <2> QED
    BY Zenon, <1>2, <1>5, <2>1 DEF HelperSend, PrepareAndEnqueue, CancelCommand, Ops, AppendOps, FenceOps
<1>6. CASE CloseEvent
  <2>1. LET command == [op |-> "Append", token |-> 0, lanes |-> <<Lane0>>]
        IN  command \in Command /\ WellFormed(command)
    BY WriterAssumption DEF Command, WellFormed, Ops, AppendOps
  <2> QED
    BY Zenon, <1>6, <2>1 DEF CloseEvent, PrepareAndEnqueue
<1>7. CASE SendShutdown
  BY Zenon, <1>2, <1>7 DEF SendShutdown, PrepareAndEnqueue, Ops, AppendOps
<1>8. CASE UNCHANGED vars
  BY Zenon, <1>8 DEF vars, writerVars, controlVars
<1> QED
  BY Zenon, <1>1, <1>4, <1>5, <1>6, <1>7, <1>8 DEF Next

\* An issued command stays what it is.
LEMMA CommandsFixed ==
    ASSUME ControlOK, [Next]_vars
    PROVE  /\ issued' \in Nat /\ issued <= issued'
           /\ request' \in [Requests -> Command \cup {NoRequest}]
           /\ CommandsOK'
           /\ \A r \in 1 .. issued : request'[r] = request[r]
<1>1. issued \in Nat /\ request \in [Requests -> Command \cup {NoRequest}]
  BY Zenon DEF ControlOK, TypeOK, ControlTypeOK, CommandTypeOK
<1>2. issued <= MaxRequests /\ \A r \in Requests : WellFormed(request[r])
  BY Zenon DEF ControlOK, CommandsOK
<1>3. CASE UNCHANGED <<request, issued>>
  <2>1. CommandsOK'
    BY Zenon, <1>2, <1>3 DEF CommandsOK, WellFormed
  <2> QED
    BY <1>1, <1>3, <2>1
<1>4. ASSUME NEW command \in Command, WellFormed(command), Prepare(command)
      PROVE  /\ issued' \in Nat /\ issued <= issued'
             /\ request' \in [Requests -> Command \cup {NoRequest}]
             /\ CommandsOK'
             /\ \A r \in 1 .. issued : request'[r] = request[r]
  <2>1. request' = [request EXCEPT ![issued + 1] = command] /\ issued' = issued + 1
        /\ issued < MaxRequests
    BY Zenon, <1>4 DEF Prepare
  <2>2. \A r \in Requests : request'[r] = IF r = issued + 1 THEN command ELSE request[r]
    BY Zenon, <1>1, <2>1
  <2>3. \A r \in Requests : WellFormed(request'[r])
    BY Zenon, <1>2, <1>4, <2>2
  <2>4. CommandsOK'
    BY <1>1, <2>1, <2>3, WriterAssumption DEF CommandsOK, WellFormed
  <2>5. \A r \in 1 .. issued : r \in Requests
    BY <1>1, <1>2, WriterAssumption DEF Requests
  <2>6. \A r \in 1 .. issued : request'[r] = request[r]
    BY <1>1, <2>2, <2>5
  <2>7. request' \in [Requests -> Command \cup {NoRequest}]
    BY Zenon, <1>1, <2>1
  <2> QED
    BY <1>1, <2>1, <2>4, <2>6, <2>7
<1> QED
  BY Zenon, <1>3, <1>4, RequestFrame

\* What a step does to the channel: nothing, take the first command, add an
\* issued one, or drop them all with the receiver.
LEMMA QueueFrame ==
    ASSUME ControlOK, [Next]_vars
    PROVE  \/ UNCHANGED queue
           \/ queue # <<>> /\ queue' = Tail(queue)
           \/ queue' = <<>>
           \/ \E r \in 1 .. issued' : r \in Requests /\ queue' = Append(queue, r)
<1>1. issued \in Nat /\ issued' \in Nat /\ issued <= issued' /\ issued' <= MaxRequests
  BY Zenon, CommandsFixed DEF ControlOK, TypeOK, ControlTypeOK, CommandsOK
<1>2. CASE AppendStep
  BY Zenon, <1>2 DEF AppendStep, StartAppend, RefuseAppend, AcceptItem, RotateSegment, RotateFails,
     WriteFrame, WriteFails, SyncBatch, IndexAppend, PublishAppend, BroadcastAppend
<1>3. CASE FenceStep
  BY Zenon, <1>3 DEF FenceStep, ExecuteBegin, DeferredBegin, CommitRefused, CommitFails, CommitFence,
     BroadcastFence, CancelRefused, CancelFence, PersistCancel
<1>4. CASE LoopStep
  BY Zenon, <1>4 DEF LoopStep, Receive, Take, EndDrain, PeriodicSync, SyncBarrier, DeferredSync,
     DeferredShutdown, StartShutdown, AutoCancelFence, FinishShutdown
<1>5. CASE Panic
  BY Zenon, <1>5 DEF Panic
<1>6. ASSUME NEW command, PrepareAndEnqueue(command)
      PROVE  \E r \in 1 .. issued' : r \in Requests /\ queue' = Append(queue, r)
  <2>1. issued + 1 \in 1 .. issued' /\ issued + 1 \in Requests
    BY <1>1, <1>6, WriterAssumption DEF PrepareAndEnqueue, Prepare, Requests
  <2> QED
    BY Zenon, <1>6, <2>1 DEF PrepareAndEnqueue, Enqueue
<1>7. ASSUME NEW c \in Clients, Send(c)
      PROVE  \E r \in 1 .. issued' : r \in Requests /\ queue' = Append(queue, r)
  <2>1. client[c].req \in Nat /\ client[c].req <= issued
    BY Zenon DEF ControlOK, IssuedOK, TypeOK, ControlTypeOK, ClientType
  <2>2. client[c].req # 0
    BY Zenon, <1>7 DEF Send, ControlOK, IssuedOK
  <2>3. client[c].req \in 1 .. issued' /\ client[c].req \in Requests
    BY <1>1, <2>1, <2>2, WriterAssumption DEF Requests
  <2> QED
    BY Zenon, <1>7, <2>3 DEF Send, Enqueue
<1>8. ASSUME NEW c \in Clients, ClientStep(c)
      PROVE  \/ UNCHANGED queue
             \/ \E r \in 1 .. issued' : r \in Requests /\ queue' = Append(queue, r)
  <2>1. CASE Send(c)
    BY Zenon, <1>7, <2>1
  <2>2. CASE Route(c) \/ SendFails(c) \/ BeginFence(c) \/ SendBeginFails(c) \/ AwaitBegin(c)
             \/ AwaitFinish(c)
    BY Zenon, <2>2 DEF Route, SendFails, BeginFence, SendBeginFails, AwaitBegin, AwaitFinish
  <2>3. CASE SubmitSync(c) \/ SendBegin(c)
    BY Zenon, <1>6, <2>3 DEF SubmitSync, SendBegin
  <2>4. CASE FinishFence(c) \/ DropFence(c)
    BY Zenon, <1>6, <2>4 DEF FinishFence, DropFence
  <2> QED
    BY Zenon, <1>8, <2>1, <2>2, <2>3, <2>4 DEF ClientStep
<1>9. CASE HelperSend \/ CloseEvent \/ SendShutdown
  BY Zenon, <1>6, <1>9 DEF HelperSend, CloseEvent, SendShutdown
<1>10. CASE UNCHANGED vars
  BY Zenon, <1>10 DEF vars, writerVars
<1> QED
  BY Zenon, <1>2, <1>3, <1>4, <1>5, <1>8, <1>9, <1>10 DEF Next, WriterMoves, WriterStep

\* Whoever is answered hears one of the answers.
LEMMA ReplyTypeStep ==
    ASSUME ControlOK, [Next]_vars
    PROVE  reply' \in [Requests -> Replies]
<1>1. reply \in [Requests -> Replies]
  BY Zenon DEF ControlOK, TypeOK, CommandTypeOK
<1>2. CASE UNCHANGED reply
  BY Zenon, <1>1, <1>2
<1>3. ASSUME NEW rs, NEW how \in Replies, Answer(rs, how)
      PROVE  reply' \in [Requests -> Replies]
  BY Zenon, <1>1, <1>3 DEF Answer
<1>4. "ok" \in Replies /\ "error" \in Replies /\ "cancelled" \in Replies /\ "dropped" \in Replies
      /\ "sent" \in Replies
  BY Zenon DEF Replies
<1>5. CASE AppendStep
  <2>1. UNCHANGED reply \/ Answer({cur}, "error") \/ Answer({cur}, "ok")
    BY Zenon, <1>5 DEF AppendStep, StartAppend, RefuseAppend, AcceptItem, RotateSegment, RotateFails,
       WriteFrame, WriteFails, SyncBatch, IndexAppend, PublishAppend, BroadcastAppend, FailAppend
  <2> QED
    BY Zenon, <1>2, <1>3, <1>4, <2>1
<1>6. CASE ExecuteBegin \/ DeferredBegin \/ CommitRefused \/ BroadcastFence \/ CancelRefused
           \/ DeferredSync
  BY Zenon, <1>3, <1>4, <1>6 DEF ExecuteBegin, DeferredBegin, BeginLedger, CommitRefused, BroadcastFence,
     CancelRefused, DeferredSync
<1>7. CASE CommitFence \/ CancelFence \/ Receive \/ EndDrain \/ PeriodicSync \/ SyncBarrier
           \/ StartShutdown
  BY Zenon, <1>2, <1>7 DEF CommitFence, CancelFence, Receive, EndDrain, PeriodicSync, SyncBarrier,
     StartShutdown
<1>8. CASE CommitFails
  BY Zenon, <1>1, <1>4, <1>8 DEF CommitFails
<1>9. CASE PersistCancel
  BY Zenon, <1>1, <1>4, <1>9 DEF PersistCancel
<1>10. CASE DeferredShutdown
  BY Zenon, <1>1, <1>4, <1>10 DEF DeferredShutdown
<1>11. CASE AutoCancelFence
  BY Zenon, <1>2, <1>3, <1>4, <1>11 DEF AutoCancelFence
<1>12. CASE FinishShutdown
  BY Zenon, <1>1, <1>4, <1>12 DEF FinishShutdown
<1>13. CASE Panic
  BY Zenon, <1>3, <1>4, <1>13 DEF Panic
<1>14. ASSUME NEW command, PrepareAndEnqueue(command)
       PROVE  reply' \in [Requests -> Replies]
  BY Zenon, <1>1, <1>4, <1>14 DEF PrepareAndEnqueue, Enqueue
<1>15. ASSUME NEW c \in Clients, ClientStep(c)
       PROVE  reply' \in [Requests -> Replies]
  <2>1. CASE Send(c) \/ SendFails(c)
    BY Zenon, <1>1, <1>4, <2>1 DEF Send, SendFails, Enqueue
  <2>2. CASE Route(c) \/ BeginFence(c) \/ SendBeginFails(c) \/ AwaitBegin(c) \/ AwaitFinish(c)
    BY Zenon, <1>2, <2>2 DEF Route, BeginFence, SendBeginFails, AwaitBegin, AwaitFinish
  <2>3. CASE SubmitSync(c) \/ SendBegin(c)
    BY Zenon, <1>14, <2>3 DEF SubmitSync, SendBegin
  <2>4. CASE FinishFence(c) \/ DropFence(c)
    BY Zenon, <1>2, <1>14, <2>4 DEF FinishFence, DropFence
  <2> QED
    BY Zenon, <1>15, <2>1, <2>2, <2>3, <2>4 DEF ClientStep
<1>16. CASE HelperSend \/ CloseEvent \/ SendShutdown
  BY Zenon, <1>2, <1>14, <1>16 DEF HelperSend, CloseEvent, SendShutdown
<1>17. CASE UNCHANGED vars
  BY Zenon, <1>2, <1>17 DEF vars, writerVars
<1> QED
  BY Zenon, <1>5, <1>6, <1>7, <1>8, <1>9, <1>10, <1>11, <1>12, <1>13, <1>15, <1>16, <1>17
     DEF Next, WriterMoves, WriterStep, FenceStep, LoopStep

\* Every step keeps the type of commands, replies and channel.
LEMMA CommandTypeStep ==
    ASSUME ControlOK, [Next]_vars
    PROVE  CommandTypeOK'
<1>1. queue \in Seq(Requests)
  BY Zenon DEF ControlOK, TypeOK, CommandTypeOK
<1>2. queue # <<>> /\ queue' = Tail(queue) => queue' \in Seq(Requests)
  BY <1>1
<1>3. (\E r \in 1 .. issued' : r \in Requests /\ queue' = Append(queue, r)) => queue' \in Seq(Requests)
  BY <1>1
<1>4. queue' = <<>> => queue' \in Seq(Requests)
  OBVIOUS
<1>5. queue' \in Seq(Requests)
  BY Zenon, <1>1, <1>2, <1>3, <1>4, QueueFrame
<1> QED
  BY Zenon, <1>5, CommandsFixed, ReplyTypeStep DEF CommandTypeOK

-----------------------------------------------------------------------------
(* Producers, and the step the writer is at.                               *)

\* Every step keeps the type of the producers' state.
LEMMA ControlTypeStep ==
    ASSUME ControlOK, [Next]_vars
    PROVE  ControlTypeOK'
<1>1. ControlTypeOK /\ GateTypeOK
  BY Zenon DEF ControlOK, TypeOK
<1>2. issued' \in Nat /\ issued \in Nat /\ issued <= MaxRequests
  BY Zenon, CommandsFixed DEF ControlOK, TypeOK, ControlTypeOK, CommandsOK
<1>3. CASE UNCHANGED controlVars
  BY Zenon, <1>1, <1>3 DEF ControlTypeOK, controlVars, closeVars
<1>4. ASSUME NEW c \in Clients, ClientStep(c)
      PROVE  ControlTypeOK'
  <2>1. Idle \in ClientType /\ client[c] \in ClientType
    BY Zenon, <1>1 DEF Idle, ClientType, ControlTypeOK
  <2>2. UNCHANGED closeVars
    BY Zenon, <1>4 DEF ClientStep, Route, Send, SendFails, SubmitSync, BeginFence, SendBegin,
       SendBeginFails, AwaitBegin, FinishFence, AwaitFinish, DropFence
  <2>3. budget' \in Nat
    <3>1. \A n \in {1, 2} : Charge(n) => budget' \in Nat
      BY <1>1 DEF Charge, ControlTypeOK
    <3>2. CASE UNCHANGED budget
      BY Zenon, <1>1, <3>2 DEF ControlTypeOK
    <3>3. UNCHANGED budget \/ Charge(1) \/ Charge(2)
      BY Zenon, <1>4 DEF ClientStep, Route, Send, SendFails, SubmitSync, BeginFence, SendBegin,
         SendBeginFails, AwaitBegin, FinishFence, AwaitFinish, DropFence
    <3> QED
      BY Zenon, <3>1, <3>2, <3>3
  <2>4. helpers' \in SUBSET Nat
    <3>1. client[c].token \in Nat
      BY Zenon, <2>1 DEF ClientType
    <3>2. UNCHANGED helpers \/ helpers' = helpers \cup {client[c].token}
      BY Zenon, <1>4 DEF ClientStep, Route, Send, SendFails, SubmitSync, BeginFence, SendBegin,
         SendBeginFails, AwaitBegin, FinishFence, AwaitFinish, DropFence
    <3> QED
      BY Zenon, <1>1, <3>1, <3>2 DEF ControlTypeOK
  <2>5. client' \in [Clients -> ClientType]
    <3>1. client \in [Clients -> ClientType] /\ issued + 1 \in Nat /\ next_fence_token \in Nat
      BY <1>1, <1>2 DEF ControlTypeOK, GateTypeOK
    <3>2. CASE Route(c)
      <4>1. client' = [client EXCEPT ![c].at = "routed", ![c].req = issued + 1]
        BY Zenon, <3>2 DEF Route
      <4> QED
        BY Zenon, <3>1, <4>1 DEF ClientType
    <3>3. CASE Send(c) \/ SendFails(c)
      BY <2>1, <3>1, <3>3 DEF Send, SendFails, Move, AfterSend, ClientType
    <3>4. CASE SubmitSync(c)
      BY Zenon, <3>1, <3>4 DEF SubmitSync
    <3>5. CASE BeginFence(c)
      BY <2>1, <3>1, <3>5 DEF BeginFence, ClientType
    <3>6. CASE SendBegin(c) \/ FinishFence(c)
      <4>1. PICK at \in {"beginning", "finishing"} :
                client' = [client EXCEPT ![c].at = at, ![c].req = issued + 1]
        BY Zenon, <3>6 DEF SendBegin, FinishFence
      <4> QED
        BY Zenon, <3>1, <4>1 DEF ClientType
    <3>7. CASE SendBeginFails(c) \/ AwaitFinish(c) \/ DropFence(c)
      BY Zenon, <2>1, <3>1, <3>7 DEF SendBeginFails, AwaitFinish, DropFence
    <3>8. CASE AwaitBegin(c)
      <4>1. [client[c] EXCEPT !.at = "fenced"] \in ClientType
        BY Zenon, <2>1 DEF ClientType
      <4> QED
        BY Zenon, <2>1, <3>1, <3>8, <4>1 DEF AwaitBegin
    <3> QED
      BY Zenon, <1>4, <3>2, <3>3, <3>4, <3>5, <3>6, <3>7, <3>8 DEF ClientStep
  <2> QED
    BY Zenon, <1>1, <1>2, <2>2, <2>3, <2>4, <2>5 DEF ControlTypeOK, closeVars
<1>5. CASE HelperSend
  BY Zenon, <1>1, <1>2, <1>5 DEF HelperSend, ControlTypeOK, closeVars
<1>6. CASE CloseEvent \/ SendShutdown
  <2>1. issued + 1 \in Requests
    BY <1>2, <1>6, WriterAssumption
       DEF CloseEvent, SendShutdown, PrepareAndEnqueue, Prepare, Requests
  <2>2. budget' \in Nat
    BY <1>1, <1>6 DEF CloseEvent, SendShutdown, Charge, ControlTypeOK
  <2> QED
    BY Zenon, <1>1, <1>2, <1>6, <2>1, <2>2 DEF CloseEvent, SendShutdown, ControlTypeOK
<1> QED
  BY Zenon, <1>3, <1>4, <1>5, <1>6 DEF Next, WriterMoves, vars

\* Nothing but the writer's own steps moves the writer.
LEMMA LoopFrame ==
    ASSUME [Next]_vars
    PROVE  WriterMoves \/ UNCHANGED loopVars
<1>1. ASSUME NEW c \in Clients, ClientStep(c)
      PROVE  UNCHANGED loopVars
  BY Zenon, <1>1 DEF ClientStep, WriterAside, Route, Send, SendFails, SubmitSync, BeginFence, SendBegin,
     SendBeginFails, AwaitBegin, FinishFence, AwaitFinish, DropFence
<1>2. CASE HelperSend \/ CloseEvent \/ SendShutdown \/ UNCHANGED vars
  BY Zenon, <1>2 DEF WriterAside, HelperSend, CloseEvent, SendShutdown, vars, writerVars
<1> QED
  BY Zenon, <1>1, <1>2 DEF Next

\* The writer's steps leave the commands alone.
LEMMA WriterFrame ==
    ASSUME WriterMoves
    PROVE  UNCHANGED <<request, client, issued>>
<1>1. CASE AppendStep
  BY Zenon, <1>1 DEF AppendStep, StartAppend, RefuseAppend, AcceptItem, RotateSegment, RotateFails,
     WriteFrame, WriteFails, SyncBatch, IndexAppend, PublishAppend, BroadcastAppend, WriterMoves,
     controlVars
<1>2. CASE FenceStep
  BY Zenon, <1>2 DEF FenceStep, ExecuteBegin, DeferredBegin, CommitRefused, CommitFails, CommitFence,
     BroadcastFence, CancelRefused, CancelFence, PersistCancel, WriterMoves, controlVars
<1>3. CASE LoopStep
  BY Zenon, <1>3 DEF LoopStep, Receive, EndDrain, PeriodicSync, SyncBarrier, DeferredSync,
     DeferredShutdown, StartShutdown, AutoCancelFence, FinishShutdown, WriterMoves, controlVars
<1>4. CASE Panic
  BY Zenon, <1>4 DEF Panic, WriterMoves, controlVars
<1> QED
  BY Zenon, <1>1, <1>2, <1>3, <1>4 DEF WriterMoves, WriterStep

\* After a command the writer is between commands.
LEMMA Settled ==
    ASSUME LoopTypeOK, NEW delta, Settle(delta) \/ SettleSynced
    PROVE  pc' \in {"drain", "periodic", "shutdown_drain"} /\ UNCHANGED cur
BY Zenon DEF LoopTypeOK, Phases, Settle, SettleSynced, AfterCommand

\* Only issued commands are in the channel or with a producer.
LEMMA IssuedStep ==
    ASSUME ControlOK, [Next]_vars
    PROVE  IssuedOK'
<1>1. /\ issued \in Nat /\ issued' \in Nat /\ issued <= issued'
      /\ queue \in Seq(Requests) /\ client \in [Clients -> ClientType]
  BY Zenon, CommandsFixed DEF ControlOK, TypeOK, ControlTypeOK, CommandTypeOK
<1>2. \A i \in 1 .. Len(queue) : queue[i] \in Nat /\ queue[i] <= issued
  BY <1>1, WriterAssumption DEF ControlOK, IssuedOK, Requests
<1>3. \A i \in 1 .. Len(queue') : queue'[i] <= issued'
  <2>1. CASE UNCHANGED queue
    BY <1>1, <1>2, <2>1
  <2>2. CASE queue # <<>> /\ queue' = Tail(queue)
    BY <1>1, <1>2, <2>2
  <2>3. CASE queue' = <<>>
    BY <2>3
  <2>4. ASSUME NEW r \in 1 .. issued', queue' = Append(queue, r)
        PROVE  \A i \in 1 .. Len(queue') : queue'[i] <= issued'
    BY <1>1, <1>2, <2>4
  <2> QED
    BY Zenon, <2>1, <2>2, <2>3, <2>4, QueueFrame
<1>4. \A c \in Clients : client[c].req \in Nat /\ client[c].req <= issued
                         /\ (client[c].at = "routed" => client[c].req # 0)
  BY Zenon, <1>1 DEF ControlOK, IssuedOK, ClientType
<1>5. CASE UNCHANGED client
  BY <1>1, <1>3, <1>4, <1>5 DEF IssuedOK
<1>6. ASSUME NEW c \in Clients, ClientStep(c)
      PROVE  IssuedOK'
  <2>1. CASE UNCHANGED client
    BY Zenon, <1>5, <2>1
  <2>2. CASE Route(c)
    BY <1>1, <1>3, <1>4, <2>2 DEF Route, Prepare, IssuedOK, ClientType
  <2>3. CASE Send(c) \/ SendFails(c)
    <3>1. PICK at \in {"idle", "fenced"} : client' = [client EXCEPT ![c].at = at]
      BY Zenon, <2>3 DEF Send, SendFails, Move, AfterSend
    <3>2. \A d \in Clients : client'[d].req = client[d].req
                              /\ (client'[d].at = "routed" => client[d].at = "routed")
      BY <1>1, <3>1 DEF ClientType
    <3>3. issued' \in Nat /\ issued <= issued'
      BY <1>1
    <3>4. \A d \in Clients : client'[d].req <= issued'
      BY <1>1, <1>4, <3>2, <3>3
    <3> QED
      BY Zenon, <1>3, <1>4, <3>2, <3>4 DEF IssuedOK
  <2>4. CASE BeginFence(c)
    <3>1. UNCHANGED issued /\ (UNCHANGED client \/ client' = [client EXCEPT ![c].at = "begun", ![c].token = next_fence_token])
      BY Zenon, <2>4 DEF BeginFence
    <3>2. ASSUME client' = [client EXCEPT ![c].at = "begun", ![c].token = next_fence_token]
          PROVE  \A d \in Clients : client'[d].req = client[d].req
                                     /\ (client'[d].at = "routed" => client[d].at = "routed")
      BY <1>1, <3>2 DEF ClientType
    <3> QED
      BY Zenon, <1>3, <1>4, <1>5, <3>1, <3>2 DEF IssuedOK
  <2>5. CASE SendBegin(c) \/ FinishFence(c)
    <3>1. issued' = issued + 1 /\ \E at \in {"beginning", "finishing"} :
              client' = [client EXCEPT ![c].at = at, ![c].req = issued + 1]
      BY Zenon, <2>5 DEF SendBegin, FinishFence, PrepareAndEnqueue, Prepare
    <3> QED
      BY <1>1, <1>3, <1>4, <3>1 DEF IssuedOK, ClientType
  <2>6. CASE client' = [client EXCEPT ![c] = Idle]
    BY <1>1, <1>3, <1>4, <2>6 DEF IssuedOK, Idle
  <2>7. CASE AwaitBegin(c)
    <3>1. CASE client' = [client EXCEPT ![c].at = "fenced"]
      BY <1>1, <1>3, <1>4, <3>1 DEF IssuedOK, ClientType
    <3>2. client' = [client EXCEPT ![c] = Idle] \/ client' = [client EXCEPT ![c].at = "fenced"]
      BY Zenon, <1>1, <2>7 DEF AwaitBegin
    <3> QED
      BY Zenon, <2>6, <3>1, <3>2
  <2> QED
    BY Zenon, <1>6, <2>1, <2>2, <2>3, <2>4, <2>5, <2>6, <2>7
       DEF ClientStep, SubmitSync, SendBeginFails, AwaitFinish, DropFence
<1>7. CASE HelperSend \/ CloseEvent \/ SendShutdown \/ UNCHANGED vars
  <2>1. UNCHANGED client
    BY Zenon, <1>7 DEF HelperSend, CloseEvent, SendShutdown, vars, controlVars
  <2> QED
    BY Zenon, <1>5, <2>1
<1> QED
  BY Zenon, <1>5, <1>6, <1>7, WriterFrame DEF Next

\* The writer's place fits the command it holds.
LEMMA StepStep ==
    ASSUME ControlOK, [Next]_vars
    PROVE  StepOK'
<1>1. StepOK /\ LoopTypeOK
  BY Zenon DEF ControlOK, TypeOK
<1>2. CASE UNCHANGED loopVars
  <2>1. Busy => request'[cur] = request[cur] /\ cur \in 1 .. issued'
    <3>1. issued \in Nat /\ issued' \in Nat /\ issued <= issued'
      BY Zenon, CommandsFixed DEF ControlOK, TypeOK, ControlTypeOK
    <3>2. Busy => cur \in 1 .. issued /\ request'[cur] = request[cur]
      BY Zenon, <1>1, CommandsFixed DEF StepOK
    <3> QED
      BY <3>1, <3>2
  <2> QED
    BY Zenon, <1>1, <1>2, <2>1 DEF StepOK, loopVars, Busy, InAppend, Fenced, Batch, Count
<1>3. CASE WriterMoves
  <2>1. UNCHANGED <<request, issued>>
    BY Zenon, <1>3, WriterFrame
  <2>2. ASSUME Busy, pc' \in {"drain", "periodic", "shutdown_drain", "recv", "exited", "crashed"},
               UNCHANGED cur
        PROVE  StepOK'
    BY Zenon, <1>1, <2>1, <2>2 DEF StepOK, Busy, InAppend
  <2>3. ASSUME Busy, NEW delta, Settle(delta) \/ SettleSynced
        PROVE  StepOK'
    BY Zenon, <1>1, <2>2, <2>3, Settled
  <2>4. Busy => /\ cur \in 1 .. issued /\ cur \in Requests
                /\ Count(cur) \in Nat
                /\ request[cur].op \in AppendOps => Count(cur) > 0
    BY Zenon, <1>1, CurrentCommand DEF StepOK
  <2>5. CASE StartAppend
    <3>1. Busy /\ pc' = "accept" /\ UNCHANGED cur /\ work'.item = 1 /\ request[cur].op \in AppendOps
      BY Zenon, <2>5 DEF StartAppend, Busy
    <3>2. Count(cur)' = Count(cur) /\ 1 \in 1 .. Count(cur)
      BY <2>1, <2>4, <3>1 DEF Count
    <3> QED
      BY Zenon, <2>1, <2>4, <3>1, <3>2 DEF StepOK
  <2>6. CASE AcceptItem
    BY <1>1, <2>1, <2>4, <2>6 DEF AcceptItem, StepOK, LoopTypeOK, Busy, InAppend, Fenced, Batch, Count
  <2>7. CASE RotateSegment
    <3>1. /\ Busy /\ InAppend /\ pc = "rotate" /\ pc' = "write" /\ UNCHANGED <<cur, work>>
      BY Zenon, <2>7 DEF RotateSegment, Busy, InAppend
    <3>2. Count(cur)' = Count(cur) /\ Batch(cur)' = Batch(cur) /\ request'[cur'].op = request[cur].op
      BY Zenon, <2>1, <3>1 DEF Count, Batch
    <3>3. work.item \in {0, 1} /\ (~Batch(cur) => work.item = 1)
      BY Zenon, <1>1, <3>1 DEF StepOK
    <3>4. work.item \in 0 .. Count(cur) + 1
      BY <2>4, <3>1, <3>3
    <3> QED
      BY Zenon, <1>1, <2>1, <2>4, <3>1, <3>2, <3>3, <3>4 DEF StepOK
  <2>8. CASE WriteFrame
    <3>1. /\ Busy /\ InAppend /\ pc = "write" /\ UNCHANGED cur
          /\ pc' = IF Batch(cur) THEN IF work.item <= Count(cur) THEN "write" ELSE "sync_batch"
                   ELSE "index"
      BY Zenon, <2>8 DEF WriteFrame, Busy, InAppend
    <3>2. work'.item = work.item + 1
      BY <1>1, <2>8 DEF WriteFrame, LoopTypeOK
    <3>3. Count(cur)' = Count(cur) /\ Batch(cur)' = Batch(cur) /\ request'[cur'].op = request[cur].op
      BY Zenon, <2>1, <3>1 DEF Count, Batch
    <3>4. pc' = "write" => work'.item \in 0 .. Count(cur) + 1 /\ Batch(cur)
      BY <1>1, <2>4, <3>1, <3>2 DEF StepOK
    <3> QED
      BY Zenon, <1>1, <2>1, <2>4, <3>1, <3>3, <3>4 DEF StepOK
  <2>9. CASE RefuseAppend \/ RotateFails \/ WriteFails \/ BroadcastAppend
    BY Zenon, <2>3, <2>9 DEF RefuseAppend, RotateFails, WriteFails, BroadcastAppend, FailAppend, Busy
  <2>10. CASE SyncBatch
    <3>1. CASE pc' = "index" /\ UNCHANGED <<cur, phase, work>>
      BY Zenon, <1>1, <2>1, <2>10, <3>1 DEF SyncBatch, StepOK, Busy, InAppend
    <3> QED
      BY Zenon, <2>3, <2>10, <3>1 DEF SyncBatch, FailAppend, Busy
  <2>11. CASE IndexAppend
    <3>1. CASE pc' = "publish" /\ UNCHANGED <<cur, work>> /\ ~Fenced(cur)
      BY Zenon, <1>1, <2>1, <2>11, <3>1 DEF IndexAppend, StepOK, Busy, InAppend, Fenced
    <3> QED
      BY Zenon, <2>3, <2>11, <3>1 DEF IndexAppend, Busy
  <2>12. CASE PublishAppend
    BY Zenon, <1>1, <2>1, <2>12 DEF PublishAppend, StepOK, Busy, InAppend, Fenced, AppendOps
  <2>13. CASE ExecuteBegin \/ DeferredBegin \/ CommitRefused \/ CommitFails \/ BroadcastFence
              \/ CancelRefused \/ PersistCancel \/ DeferredSync
    BY Zenon, <2>3, <2>13 DEF ExecuteBegin, DeferredBegin, CommitRefused, CommitFails, BroadcastFence,
       CancelRefused, PersistCancel, DeferredSync, Busy
  <2>14. CASE CommitFence \/ CancelFence
    BY Zenon, <1>1, <2>1, <2>14 DEF CommitFence, CancelFence, StepOK, Busy, InAppend
  <2>15. CASE Receive
    <3>1. cur' \in 1 .. issued
      BY <2>15, WriterAssumption
         DEF Receive, Take, ControlOK, TypeOK, CommandTypeOK, IssuedOK, Requests
    <3> QED
      BY Zenon, <2>1, <2>15, <3>1 DEF Receive, Take, StepOK, Busy, InAppend
  <2>16. CASE EndDrain \/ PeriodicSync \/ StartShutdown \/ DeferredShutdown \/ FinishShutdown
    BY Zenon, <2>2, <2>16 DEF EndDrain, PeriodicSync, StartShutdown, DeferredShutdown, FinishShutdown, Busy
  <2>17. CASE SyncBarrier \/ AutoCancelFence
    BY Zenon, <1>1, <2>1, <2>17 DEF SyncBarrier, AutoCancelFence, StepOK, Busy, InAppend
  <2>18. CASE Panic
    BY Zenon, <2>2, <2>18 DEF Panic, Busy
  <2> QED
    BY Zenon, <1>3, <2>5, <2>6, <2>7, <2>8, <2>9, <2>10, <2>11, <2>12, <2>13, <2>14, <2>15, <2>16, <2>17,
       <2>18 DEF WriterMoves, WriterStep, AppendStep, FenceStep, LoopStep
<1> QED
  BY Zenon, <1>2, <1>3, LoopFrame

-----------------------------------------------------------------------------

\* A store that has just been opened.
LEMMA ControlInit == Init => ControlOK
<1> SUFFICES ASSUME Init PROVE ControlOK
  BY Zenon
<1> USE WriterAssumption DEF Init, WriterInit
<1>1. GateTypeOK
  BY DEF GateTypeOK, NoLanePoints, Unset
<1>2. FrontierTypeOK
  BY Zenon DEF FrontierTypeOK, PointsType, Points
<1>3. CommandTypeOK
  BY DEF CommandTypeOK, Replies
<1>4. LoopTypeOK
  BY Zenon DEF LoopTypeOK, Steps, Phases, NoWork, NoLanePoints
<1>5. LedgerTypeOK
  BY Zenon DEF LedgerTypeOK, NoLedger, NoLanePoints
<1>6. IndexTypeOK /\ DiskTypeOK /\ BudgetTypeOK
  BY DEF IndexTypeOK, DiskTypeOK, BudgetTypeOK
<1>7. ControlTypeOK
  BY Zenon DEF ControlTypeOK, ClientType, Idle
<1>8. CommandsOK /\ IssuedOK
  BY DEF CommandsOK, WellFormed, IssuedOK, NoRequest, AppendOps, Idle
<1>9. StepOK
  BY Zenon DEF StepOK, Busy, InAppend
<1> QED
  BY Zenon, <1>1, <1>2, <1>3, <1>4, <1>5, <1>6, <1>7, <1>8, <1>9 DEF ControlOK, TypeOK

\* The control layer is inductive.
LEMMA ControlStep == ControlOK /\ [Next]_vars => ControlOK'
BY Zenon, GateTypeStep, FrontierTypeStep, CommandTypeStep, LoopTypeStep, LedgerTypeStep, IndexTypeStep,
   DiskTypeStep, BudgetTypeStep, ControlTypeStep, CommandsFixed, StepStep, IssuedStep
   DEF ControlOK, TypeOK

\* Every variable of the write path keeps its type, and the writer is never at a
\* step that does not fit the command it holds.
THEOREM WriteTypes == Spec => [](TypeOK /\ StepOK)
<1>1. ControlOK => TypeOK /\ StepOK
  BY Zenon DEF ControlOK
<1> QED
  BY <1>1, ControlInit, ControlStep, PTL DEF Spec

=============================================================================
