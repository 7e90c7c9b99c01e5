-------------------------- MODULE WriteGateProofs ---------------------------
(***************************************************************************)
(* The publish boundary and the fence ledger, the fourth layer of the      *)
(* inductive invariant.  Beside it, the watermarks, which rest on the      *)
(* fourth, and the segment files, which rest on the first.                 *)
(***************************************************************************)
EXTENDS WriteSequenceProofs

-----------------------------------------------------------------------------
(* The bounds of the gate.                                                 *)

\* The allocator only grows.
LEMMA AllocatedGrows ==
    ASSUME GateInv, [Next]_vars
    PROVE  allocated \in Nat /\ allocated' \in Nat /\ allocated <= allocated'
<1>1. ControlOK /\ GateTypeOK /\ LoopTypeOK
  BY Zenon DEF GateInv, HoldersOK, ControlOK, TypeOK
<1>2. CASE UNCHANGED allocated
  BY <1>1, <1>2 DEF GateTypeOK
<1>3. CASE StartAppend
  <2>1. Count(cur) \in Nat
    BY Zenon, <1>1, <1>3, CurrentCommand DEF StartAppend, Busy
  <2> QED
    BY <1>1, <1>3, <2>1 DEF StartAppend, reserve, GateTypeOK
<1>4. CASE IndexAppend
  BY <1>1, <1>4 DEF IndexAppend, reserve, GateTypeOK
<1> QED
  BY Zenon, <1>2, <1>3, <1>4, GateFrame DEF gateVars, PublishAppend, CommitFence, CancelFence,
     AutoCancelFence, Panic, BeginFence, SendBeginFails

\* BoundsOK is inductive.
LEMMA BoundsStep ==
    ASSUME GateInv, [Next]_vars
    PROVE  BoundsOK'
<1>1. /\ ControlOK /\ SequencesOK /\ PointsOK /\ BoundsOK /\ GateTypeOK /\ LoopTypeOK
      /\ allocated \in Nat /\ allocated' \in Nat /\ allocated <= allocated'
      /\ visible \in Nat /\ lane_visible \in [Lanes -> Nat]
  BY Zenon, AllocatedGrows DEF GateInv, GateOK, HoldersOK, ControlOK, TypeOK, GateTypeOK
<1>2. CASE PublishAppend
  <2>1. /\ publish_on_lanes(LastSeq + 1, work.points) /\ pc = "publish" /\ pc' = "broadcast"
        /\ UNCHANGED <<allocated, cur, work, request>>
    BY Zenon, <1>2 DEF PublishAppend
  <2>2. GateBound'
    BY Zenon, <1>1, <2>1 DEF publish_on_lanes, PublishAdmitted, BoundsOK, GateBound
  <2>3. visible' = LastSeq + 1 /\ LastSeq' = LastSeq
    BY Zenon, <2>1 DEF publish_on_lanes, LastSeq, Count
  <2>4. \A l \in Lanes : work.points[l] <= lane_visible'[l]
    BY <1>1, <2>1 DEF publish_on_lanes, PublishAdmitted, LoopTypeOK
  <2> QED
    BY Zenon, <2>1, <2>2, <2>3, <2>4 DEF BoundsOK, InAppend
<1>3. CASE UNCHANGED published
  <2>1. GateBound'
    BY <1>1, <1>3 DEF BoundsOK, GateBound, published
  <2>2. CASE ~InAppend' /\ ~AppendBroadcast'
    BY Zenon, <2>1, <2>2 DEF BoundsOK
  <2>3. CASE ~WriterMoves
    <3>1. UNCHANGED <<pc, cur, work>>
      BY Zenon, <1>1, <2>3, OutsideFrame DEF loopVars
    <3>2. Busy => request'[cur] = request[cur]
      BY Zenon, <1>1, <2>3, OutsideFrame
    <3> QED
      BY Zenon, <1>1, <1>3, <2>1, <3>1, <3>2
         DEF BoundsOK, InAppend, AppendBroadcast, Committing, Busy, LastSeq, Count, published
  <2>4. CASE StartAppend
    <3>1. pc' = "accept" /\ work'.first = allocated
      BY Zenon, <2>4 DEF StartAppend
    <3> QED
      BY Zenon, <1>1, <1>3, <2>1, <3>1 DEF BoundsOK, GateBound, AppendBroadcast, published
  <2>5. CASE AcceptItem \/ Continue
    <3>1. InAppend /\ work'.first = work.first /\ pc' # "broadcast"
      BY Zenon, <1>1, <2>5, AcceptFrame, ContinueFrame DEF InAppend
    <3> QED
      BY Zenon, <1>1, <1>3, <2>1, <3>1 DEF BoundsOK, AppendBroadcast, published
  <2>6. CASE IndexAppend
    <3>1. CASE Fenced(cur)
      BY Zenon, <1>1, <2>2, <2>6, <3>1, Settled DEF IndexAppend, InAppend, AppendBroadcast
    <3>2. CASE ~Fenced(cur)
      <4>1. pc = "index" /\ pc' = "publish" /\ UNCHANGED work
        BY Zenon, <2>6, <3>2 DEF IndexAppend
      <4> QED
        BY Zenon, <1>1, <1>3, <2>1, <4>1 DEF BoundsOK, InAppend, AppendBroadcast, published
    <3> QED
      BY Zenon, <3>1, <3>2
  <2> QED
    BY Zenon, <1>1, <2>2, <2>3, <2>4, <2>5, <2>6, <1>2, RestFrame
<1>4. CASE CommitFence
  <2>1. /\ UNCHANGED allocated /\ ~InAppend' /\ ~AppendBroadcast'
        /\ \/ UNCHANGED published
           \/ publish_on_lanes(fence_ledger.up_to, fence_ledger.points)
    BY Zenon, <1>1, <1>4 DEF CommitFence, finish_fence_on_lanes, InAppend, AppendBroadcast, Committing
  <2>2. CASE publish_on_lanes(fence_ledger.up_to, fence_ledger.points)
    <3>1. GateBound'
      BY Zenon, <1>1, <2>1, <2>2 DEF publish_on_lanes, PublishAdmitted, BoundsOK, GateBound
    <3> QED
      BY Zenon, <2>1, <3>1 DEF BoundsOK
  <2> QED
    BY Zenon, <1>3, <2>1, <2>2
<1> QED
  BY Zenon, <1>2, <1>3, <1>4, GateFrame DEF gateVars, published, StartAppend, IndexAppend, CancelFence,
     AutoCancelFence, Panic, BeginFence, SendBeginFails

\* The reader bounds only grow.
LEMMA PublishedGrows ==
    ASSUME ControlOK, [Next]_vars
    PROVE  visible <= visible' /\ \A l \in Lanes : lane_visible[l] <= lane_visible'[l]
<1>1. GateTypeOK
  BY Zenon DEF ControlOK, TypeOK
<1>2. ASSUME NEW n, NEW points, publish_on_lanes(n, points)
      PROVE  visible <= visible' /\ \A l \in Lanes : lane_visible[l] <= lane_visible'[l]
  BY <1>1, <1>2 DEF publish_on_lanes, PublishAdmitted, GateTypeOK
<1>3. CASE UNCHANGED published
  BY <1>1, <1>3 DEF published, GateTypeOK
<1> QED
  BY Zenon, <1>2, <1>3, GateFrame DEF gateVars, published, StartAppend, IndexAppend, PublishAppend,
     CommitFence, finish_fence_on_lanes, CancelFence, AutoCancelFence, Panic, BeginFence,
     SendBeginFails

\* The sequences of an append that is indexed.
LEMMA IndexedSequences ==
    ASSUME GateInv, IndexAppend
    PROVE  /\ cur \in Requests /\ Count(cur) \in Nat /\ Count(cur) > 0 /\ work.first \in Nat
           /\ LastSeq \in Nat /\ LastSeq = work.first + Count(cur) - 1
           /\ allocated' = LastSeq + 1
           /\ \A i \in 1 .. Count(cur) : request[cur].lanes[i] \in Lanes
           /\ \A e \in entries : e.seq < work.first
           /\ \A s \in notified \cup fence_ledger.seqs : s < work.first
<1>1. ControlOK /\ SequencesOK /\ GateTypeOK /\ LoopTypeOK
  BY Zenon DEF GateInv, GateOK, HoldersOK, ControlOK, TypeOK
<1>2. pc = "index" /\ Busy /\ InAppend /\ Unindexed
  BY Zenon DEF IndexAppend, Busy, InAppend, Unindexed
<1>3. /\ cur \in Requests /\ Count(cur) \in Nat /\ Count(cur) > 0
      /\ \A i \in 1 .. Count(cur) : request[cur].lanes[i] \in Lanes
  BY Zenon, <1>1, <1>2, CurrentCommand
<1>4. ~Batch(cur) => Count(cur) = 1
  BY Zenon, <1>1, <1>2, <1>3 DEF ControlOK, CommandsOK, StepOK, WellFormed, AppendOps, Batch, Count
<1>5. work.first \in Nat
  BY Zenon, <1>1 DEF LoopTypeOK
<1>6. allocated' = LastSeq + 1
  BY <1>1, <1>2, <1>3, <1>4, <1>5 DEF IndexAppend, reserve, SequencesOK, LastSeq
<1> QED
  BY <1>1, <1>2, <1>3, <1>5, <1>6 DEF SequencesOK, LastSeq

-----------------------------------------------------------------------------
(* The fence.                                                              *)

\* FenceRangeSound is inductive.
LEMMA FenceRangeStep ==
    ASSUME GateInv, [Next]_vars
    PROVE  FenceRangeSound'
<1>1. /\ ControlOK /\ FenceRangeSound /\ GateTypeOK /\ LedgerOK
      /\ allocated \in Nat /\ allocated' \in Nat /\ allocated <= allocated'
  BY Zenon, AllocatedGrows DEF GateInv, GateOK, HoldersOK, ControlOK, TypeOK
<1>2. CASE UNCHANGED <<active_fence, active_fence_start, active_fence_end, next_fence_token>>
  BY <1>1, <1>2 DEF FenceRangeSound, GateTypeOK
<1>3. CASE CloseFence /\ UNCHANGED next_fence_token
  BY <1>1, <1>3 DEF CloseFence, FenceRangeSound, GateTypeOK
<1>4. ASSUME NEW c \in Clients, BeginFence(c)
      PROVE  FenceRangeSound'
  <2>1. begin_fence \/ begin_fence_refused
    BY Zenon, <1>4 DEF BeginFence
  <2>2. CASE begin_fence
    BY <1>1, <2>2 DEF begin_fence, FenceRangeSound, GateTypeOK
  <2>3. CASE begin_fence_refused
    BY <1>1, <2>3 DEF begin_fence_refused, fenceVars, FenceRangeSound, GateTypeOK
  <2> QED
    BY Zenon, <2>1, <2>2, <2>3
<1>5. CASE IndexAppend
  <2>1. CASE Fenced(cur)
    <3>1. /\ active_fence = fence_ledger.token /\ UNCHANGED <<active_fence, next_fence_token>>
          /\ active_fence_start' = IF active_fence_start = Unset \/ work.first < active_fence_start
                                   THEN work.first ELSE active_fence_start
          /\ active_fence_end' = IF LastSeq + 1 > active_fence_end THEN LastSeq + 1
                                 ELSE active_fence_end
      BY Zenon, <1>5, <2>1 DEF IndexAppend, note_fence_progress
    <3>2. fence_ledger.token # 0
      BY Zenon, <1>1, <1>5, <2>1 DEF LedgerOK, InAppend, IndexAppend
    <3>3. /\ work.first \in Nat /\ LastSeq \in Nat /\ work.first <= LastSeq
          /\ allocated' = LastSeq + 1
      BY <1>5, IndexedSequences
    <3> QED
      BY <1>1, <3>1, <3>2, <3>3 DEF FenceRangeSound, GateTypeOK, Unset
  <2>2. CASE ~Fenced(cur)
    BY Zenon, <1>2, <1>5, <2>2 DEF IndexAppend, fenceVars
  <2> QED
    BY Zenon, <2>1, <2>2
<1> QED
  BY Zenon, <1>2, <1>3, <1>4, <1>5, GateFrame DEF gateVars, fenceVars, StartAppend, PublishAppend,
     CommitFence, finish_fence_on_lanes, CancelFence, CancelInIndex, cancel_fence,
     AutoCancelFence, Panic, SendBeginFails

\* The ledger is empty.
LEMMA LedgerEmpty ==
    ASSUME GateTypeOK', fence_ledger' = NoLedger, pc' \notin {"broadcast", "persist"}, ~InAppend'
    PROVE  LedgerOK'
<1>1. /\ NoLedger.token = 0 /\ NoLedger.seqs = {} /\ NoLedger.up_to = 0
      /\ \A l \in Lanes : NoLedger.points[l] = 0
  BY Zenon DEF NoLedger, NoLanePoints
<1> QED
  BY <1>1 DEF LedgerOK, LedgerOwnsFence, Committing

\* Ledger, fence and index are as they were, outside the two steps in which
\* the ledger outlives its fence.
LEMMA LedgerSame ==
    ASSUME LedgerOK, UNCHANGED <<fence_ledger, active_fence, active_fence_start, active_fence_end, entries>>,
           ~Committing, pc # "persist", ~Committing', pc' # "persist",
           InAppend' /\ Fenced(cur)' => fence_ledger.token # 0
    PROVE  LedgerOK'
BY Zenon DEF LedgerOK, LedgerOwnsFence, FenceRange

\* LedgerOK is inductive.
LEMMA LedgerStep ==
    ASSUME GateInv, [Next]_vars
    PROVE  LedgerOK'
<1>1. /\ ControlOK /\ RespondersOK /\ TokensOK /\ SequencesOK /\ PointsOK /\ BoundsOK
      /\ FenceRangeSound /\ LedgerOK /\ GateTypeOK /\ LoopTypeOK /\ LedgerTypeOK /\ IndexTypeOK
      /\ StepOK
  BY Zenon DEF GateInv, GateOK, HoldersOK, ControlOK, TypeOK
<1>2. GateTypeOK' /\ LedgerTypeOK'
  BY Zenon, <1>1, ControlStep DEF ControlOK, TypeOK
<1>3. ASSUME NEW delta, Settle(delta) \/ SettleSynced
      PROVE  pc' \notin {"broadcast", "persist"} /\ ~InAppend'
  BY Zenon, <1>1, <1>3, Settled DEF InAppend
<1>4. CASE ~WriterMoves
  <2>1. /\ UNCHANGED <<pc, cur, fence_ledger, entries, visible, lane_visible>>
        /\ Busy => request'[cur] = request[cur]
    BY Zenon, <1>1, <1>4, OutsideFrame DEF loopVars, indexVars, published
  <2>2. (Committing' = Committing) /\ (InAppend' /\ Fenced(cur)' => InAppend /\ Fenced(cur))
    BY Zenon, <2>1 DEF Committing, InAppend, Fenced, Busy
  <2>3. CASE UNCHANGED <<active_fence, active_fence_start, active_fence_end, cancelled_ranges>>
    BY Zenon, <1>1, <2>1, <2>2, <2>3 DEF LedgerOK, LedgerOwnsFence, FenceRange
  <2>4. ASSUME NEW c \in Clients, BeginFence(c)
        PROVE  LedgerOK'
    <3>1. begin_fence \/ begin_fence_refused
      BY Zenon, <2>4 DEF BeginFence
    <3>2. CASE begin_fence_refused
      BY Zenon, <2>3, <2>4, <3>2 DEF BeginFence, begin_fence_refused, fenceVars, cancelVars
    <3>3. CASE begin_fence
      <4>1. active_fence = 0 /\ UNCHANGED cancelled_ranges
        BY Zenon, <2>4, <3>3 DEF BeginFence, begin_fence, cancelVars
      <4>2. fence_ledger.token = 0 \/ Committing \/ pc = "persist"
        BY Zenon, <1>1, <4>1 DEF LedgerOK, LedgerOwnsFence
      <4> QED
        BY Zenon, <1>1, <2>1, <2>2, <4>1, <4>2 DEF LedgerOK, LedgerOwnsFence
    <3> QED
      BY Zenon, <3>1, <3>2, <3>3
  <2>5. ASSUME NEW c \in Clients, SendBeginFails(c)
        PROVE  LedgerOK'
    <3>1. pc \in {"exited", "crashed"}
      BY Zenon, <2>5 DEF SendBeginFails, Gone
    <3>2. fence_ledger = NoLedger
      BY Zenon, <1>1, <3>1 DEF RespondersOK, Ended
    <3> QED
      BY Zenon, <1>2, <2>1, <3>1, <3>2, LedgerEmpty DEF InAppend
  <2>6. \/ UNCHANGED gateVars
        \/ \E c \in Clients : BeginFence(c) \/ SendBeginFails(c)
    BY Zenon, <1>4 DEF Next, vars, writerVars, ClientStep, Route, Send, SendFails, SubmitSync,
       SendBegin, AwaitBegin, FinishFence, AwaitFinish, DropFence, HelperSend, CloseEvent,
       SendShutdown
  <2> QED
    BY Zenon, <2>3, <2>4, <2>5, <2>6 DEF gateVars
<1>5. CASE StartAppend
  <2>1. /\ pc = "execute" /\ pc' = "accept" /\ UNCHANGED <<cur, request, fence_ledger, entries>>
        /\ UNCHANGED <<active_fence, active_fence_start, active_fence_end>>
        /\ ~LedgerMismatch
    BY Zenon, <1>5 DEF StartAppend, indexVars, fenceVars
  <2>2. Fenced(cur)' => fence_ledger.token # 0
    <3>1. cur \in Requests
      BY Zenon, <1>1, <2>1, CurrentCommand DEF Busy
    <3> QED
      BY Zenon, <1>1, <2>1, <3>1 DEF Fenced, LedgerMismatch, ControlOK, CommandsOK, WellFormed
  <2> QED
    BY Zenon, <1>1, <2>1, <2>2, LedgerSame DEF Committing
<1>6. CASE AcceptItem \/ Continue
  <2>1. /\ InAppend /\ pc' \notin {"broadcast", "persist"}
        /\ UNCHANGED <<cur, request, fence_ledger, entries>>
        /\ UNCHANGED <<active_fence, active_fence_start, active_fence_end>>
    BY Zenon, <1>1, <1>6, AcceptFrame, ContinueFrame DEF InAppend, indexVars, gateVars
  <2>2. Fenced(cur)' => fence_ledger.token # 0
    BY Zenon, <1>1, <2>1 DEF LedgerOK, Fenced
  <2> QED
    BY Zenon, <1>1, <2>1, <2>2, LedgerSame DEF Committing, InAppend
<1>7. CASE PublishAppend
  <2>1. /\ pc = "publish" /\ pc' = "broadcast" /\ UNCHANGED <<cur, request, fence_ledger, entries>>
        /\ UNCHANGED <<active_fence, active_fence_start, active_fence_end>>
    BY Zenon, <1>7 DEF PublishAppend, indexVars, fenceVars
  <2>2. ~Committing'
    BY Zenon, <1>1, <2>1 DEF StepOK, InAppend, AppendOps, Committing
  <2> QED
    BY Zenon, <1>1, <2>1, <2>2, LedgerSame DEF Committing, InAppend
<1>8. CASE IndexAppend /\ ~Fenced(cur)
  <2>1. /\ pc = "index" /\ pc' = "publish" /\ UNCHANGED <<cur, request, fence_ledger>>
        /\ UNCHANGED <<active_fence, active_fence_start, active_fence_end>>
    BY Zenon, <1>8 DEF IndexAppend, fenceVars
  <2>2. \A e \in entries' : e \in entries \/ e.seq \notin fence_ledger.seqs
    <3>1. \A e \in entries' : e \in entries \/ \E i \in 1 .. Count(cur) : e.seq = work.first + i - 1
      BY <1>8 DEF IndexAppend
    <3>2. /\ Count(cur) \in Nat /\ work.first \in Nat /\ fence_ledger.seqs \subseteq Nat
          /\ \A s \in fence_ledger.seqs : s < work.first
      BY Zenon, <1>1, <1>8, IndexedSequences DEF LedgerTypeOK
    <3> QED
      BY <3>1, <3>2
  <2>3. ~Fenced(cur)' /\ ~Committing /\ ~Committing'
    BY Zenon, <1>8, <2>1 DEF Fenced, Committing
  <2> QED
    BY Zenon, <1>1, <2>1, <2>2, <2>3 DEF LedgerOK, LedgerOwnsFence, FenceRange
<1>9. CASE IndexAppend /\ Fenced(cur)
  <2>1. /\ cur \in Requests /\ Count(cur) \in Nat /\ Count(cur) > 0 /\ work.first \in Nat
        /\ LastSeq \in Nat /\ LastSeq = work.first + Count(cur) - 1
        /\ \A i \in 1 .. Count(cur) : request[cur].lanes[i] \in Lanes
        /\ \A e \in entries : e.seq < work.first
        /\ \A s \in fence_ledger.seqs : s < work.first
    BY Zenon, <1>9, IndexedSequences
  <2>2. /\ pc = "index" /\ pc' \notin {"broadcast", "persist"} /\ ~InAppend'
        /\ ~Committing /\ ~Committing'
    BY Zenon, <1>3, <1>9 DEF IndexAppend, Committing
  <2>3. /\ fence_ledger'.token = fence_ledger.token
        /\ fence_ledger'.up_to = Larger(fence_ledger.up_to, LastSeq + 1)
        /\ fence_ledger'.points = [l \in Lanes |-> Larger(fence_ledger.points[l], work.points[l])]
        /\ fence_ledger'.seqs = fence_ledger.seqs \cup CurSeqs
    BY Zenon, <1>1, <1>9 DEF IndexAppend, LedgerTypeOK
  <2>4. /\ fence_ledger.token # 0 /\ active_fence = fence_ledger.token
        /\ fence_ledger.seqs \subseteq FenceRange /\ fence_ledger.up_to = active_fence_end
    BY Zenon, <1>1, <1>9, <2>2 DEF LedgerOK, LedgerOwnsFence, InAppend, IndexAppend
  <2>5. /\ UNCHANGED active_fence
        /\ active_fence_start' = IF active_fence_start = Unset \/ work.first < active_fence_start
                                 THEN work.first ELSE active_fence_start
        /\ active_fence_end' = IF LastSeq + 1 > active_fence_end THEN LastSeq + 1
                               ELSE active_fence_end
    BY Zenon, <1>9 DEF IndexAppend, note_fence_progress
  <2>6. /\ fence_ledger.up_to \in Nat /\ fence_ledger.points \in [Lanes -> Nat]
        /\ fence_ledger.seqs \subseteq Nat /\ work.points \in [Lanes -> Nat]
        /\ active_fence_end \in Nat /\ active_fence_start \in Nat \cup {Unset} /\ Unset \notin Nat
    BY <1>1 DEF LedgerTypeOK, LoopTypeOK, GateTypeOK, Unset
  <2>7. fence_ledger'.up_to = active_fence_end'
    BY Zenon, <2>1, <2>3, <2>4, <2>5, <2>6 DEF Larger
  <2>8. fence_ledger'.seqs \subseteq FenceRange'
    <3>1. FenceRange' = active_fence_start' .. active_fence_end' - 1
      BY Zenon, <2>1, <2>5, <2>6 DEF FenceRange
    <3>2. \A s \in fence_ledger.seqs : s \in Nat /\ active_fence_start # Unset /\ active_fence_start <= s
                                       /\ s < active_fence_end
      BY <2>4, <2>6 DEF FenceRange
    <3>3. \A s \in CurSeqs : s \in Nat /\ work.first <= s /\ s <= LastSeq
      BY <2>1 DEF CurSeqs
    <3>4. ASSUME NEW s \in fence_ledger.seqs
          PROVE  s \in FenceRange'
      <4>1. s \in Nat /\ active_fence_start <= s /\ s < active_fence_end /\ active_fence_start \in Nat
        BY Zenon, <2>6, <3>2
      <4>2. active_fence_start' \in Nat /\ active_fence_start' <= s
        BY <2>1, <2>5, <2>6, <4>1
      <4>3. active_fence_end' \in Nat /\ s < active_fence_end'
        BY <2>1, <2>5, <2>6, <4>1
      <4>4. s \in active_fence_start' .. active_fence_end' - 1
        BY Zenon, <4>1, <4>2, <4>3, RangeMember
      <4> QED
        BY Zenon, <3>1, <4>4
    <3>5. ASSUME NEW s \in CurSeqs
          PROVE  s \in FenceRange'
      <4>1. s \in Nat /\ work.first <= s /\ s <= LastSeq
        BY Zenon, <3>3
      <4>2. active_fence_start' \in Nat /\ active_fence_start' <= s
        BY <2>1, <2>5, <2>6, <4>1
      <4>3. active_fence_end' \in Nat /\ s < active_fence_end'
        BY <2>1, <2>5, <2>6, <4>1
      <4>4. s \in active_fence_start' .. active_fence_end' - 1
        BY Zenon, <4>1, <4>2, <4>3, RangeMember
      <4> QED
        BY Zenon, <3>1, <4>4
    <3> QED
      BY Zenon, <2>3, <3>4, <3>5
  <2>9. /\ \A l \in Lanes : work.points[l] <= LastSeq + 1
        /\ \A i \in 1 .. Count(cur) : work.points[request[cur].lanes[i]] >= work.first + i
    BY <1>1, <2>1, <2>2, <2>6 DEF PointsOK, InAppend
  <2>10. \A l \in Lanes : fence_ledger'.points[l] <= fence_ledger'.up_to
    <3>1. \A l \in Lanes : fence_ledger.points[l] <= fence_ledger.up_to
      BY Zenon, <1>1 DEF LedgerOK
    <3> QED
      BY <2>1, <2>3, <2>6, <2>9, <3>1 DEF Larger
  <2>11. \A e \in entries' : e.seq \in fence_ledger'.seqs =>
             e.seq < fence_ledger'.up_to /\ e.seq < fence_ledger'.points[e.lane]
    <3> SUFFICES ASSUME NEW e \in entries', e.seq \in fence_ledger'.seqs
                 PROVE  e.seq < fence_ledger'.up_to /\ e.seq < fence_ledger'.points[e.lane]
      BY Zenon
    <3>1. CASE e \in entries
      <4>1. e.seq \in Nat /\ e.lane \in Lanes /\ e.seq < work.first
        BY Zenon, <1>1, <2>1, <3>1 DEF IndexTypeOK
      <4>2. e.seq \in fence_ledger.seqs
        BY <2>1, <2>3, <4>1 DEF CurSeqs
      <4>3. e.seq < fence_ledger.up_to /\ e.seq < fence_ledger.points[e.lane]
        BY Zenon, <1>1, <3>1, <4>2 DEF LedgerOK
      <4> QED
        BY <2>1, <2>3, <2>6, <4>1, <4>3 DEF Larger
    <3>2. CASE e \notin entries
      <4>1. PICK i \in 1 .. Count(cur) : e = [seq |-> work.first + i - 1,
                                              lane |-> request[cur].lanes[i], request |-> cur]
        BY Zenon, <1>9, <3>2 DEF IndexAppend
      <4>2. e.seq = work.first + i - 1 /\ e.lane = request[cur].lanes[i] /\ e.lane \in Lanes
        BY Zenon, <2>1, <4>1
      <4>3. work.points[e.lane] >= work.first + i
        BY Zenon, <2>9, <4>2
      <4>4. e.seq \in Nat /\ e.seq < LastSeq + 1 /\ e.seq < work.points[e.lane]
        BY <2>1, <2>6, <4>2, <4>3
      <4>5. fence_ledger'.points[e.lane] = Larger(fence_ledger.points[e.lane], work.points[e.lane])
        BY Zenon, <2>3, <4>2
      <4>6. e.seq < fence_ledger'.up_to
        BY <2>1, <2>3, <2>6, <4>4 DEF Larger
      <4>7. e.seq < fence_ledger'.points[e.lane]
        <5>1. fence_ledger.points[e.lane] \in Nat /\ work.points[e.lane] \in Nat
          BY Zenon, <2>6, <4>2
        <5> QED
          BY <4>4, <4>5, <5>1 DEF Larger
      <4> QED
        BY Zenon, <4>6, <4>7
    <3> QED
      BY Zenon, <3>1, <3>2
  <2> QED
    BY Zenon, <2>2, <2>3, <2>4, <2>5, <2>7, <2>8, <2>10, <2>11 DEF LedgerOK, LedgerOwnsFence
<1>10. CASE CommitFence
  <2>1. /\ pc = "deferred" /\ pc' = "broadcast" /\ UNCHANGED <<cur, request, fence_ledger, entries>>
        /\ request[cur].op = "CommitVisibilityFence"
        /\ IF fence_ledger.up_to = 0 THEN UNCHANGED published
           ELSE publish_on_lanes(fence_ledger.up_to, fence_ledger.points)
    BY Zenon, <1>10 DEF CommitFence, finish_fence_on_lanes, indexVars
  <2>2. /\ fence_ledger.up_to \in Nat /\ fence_ledger.points \in [Lanes -> Nat]
        /\ visible \in Nat /\ lane_visible \in [Lanes -> Nat]
        /\ \A l \in Lanes : fence_ledger.points[l] <= fence_ledger.up_to
    BY Zenon, <1>1 DEF LedgerTypeOK, GateTypeOK, LedgerOK
  <2>3. /\ fence_ledger.up_to <= visible'
        /\ \A l \in Lanes : fence_ledger.points[l] <= lane_visible'[l]
    BY <2>1, <2>2 DEF published, publish_on_lanes, PublishAdmitted
  <2>4. Committing' /\ ~InAppend'
    BY Zenon, <2>1 DEF Committing, InAppend
  <2> QED
    BY Zenon, <1>1, <2>1, <2>3, <2>4 DEF LedgerOK, LedgerOwnsFence
<1>11. CASE CancelFence
  <2>1. /\ pc = "execute" /\ pc' = "persist" /\ UNCHANGED <<cur, request, fence_ledger, entries>>
        /\ cancelled_ranges' = cancelled_ranges \cup FenceRange
    BY Zenon, <1>11 DEF CancelFence, CancelInIndex, cancel_fence, indexVars
  <2>2. fence_ledger.seqs \subseteq cancelled_ranges'
    <3>1. CASE fence_ledger.token = 0
      BY <1>1, <3>1 DEF LedgerOK, NoLedger
    <3>2. CASE fence_ledger.token # 0
      BY Zenon, <1>1, <2>1, <3>2 DEF LedgerOK, LedgerOwnsFence, Committing
    <3> QED
      BY Zenon, <3>1, <3>2
  <2>3. ~Committing' /\ ~InAppend'
    BY Zenon, <2>1 DEF Committing, InAppend
  <2> QED
    BY Zenon, <1>1, <2>1, <2>2, <2>3 DEF LedgerOK, LedgerOwnsFence
<1>12. CASE ExecuteBegin \/ DeferredBegin
  <2>1. /\ pc \in {"execute", "deferred"} /\ pc' \notin {"broadcast", "persist"} /\ ~InAppend'
        /\ UNCHANGED <<active_fence, active_fence_start, active_fence_end, entries>>
        /\ ~Committing /\ ~Committing'
    BY Zenon, <1>3, <1>12 DEF ExecuteBegin, DeferredBegin, indexVars, gateVars, Committing
  <2>2. CASE UNCHANGED fence_ledger
    BY Zenon, <1>1, <2>1, <2>2, LedgerSame
  <2>3. CASE ~UNCHANGED fence_ledger
    <3>1. /\ active_fence = request[cur].token
          /\ fence_ledger' = [NoLedger EXCEPT !.token = request[cur].token]
          /\ request[cur].op = "BeginVisibilityFence"
      BY Zenon, <1>12, <2>3 DEF ExecuteBegin, DeferredBegin, BeginLedger
    <3>2. active_fence_start = Unset /\ request[cur].token # 0
      <4>1. Executing
        BY Zenon, <2>1 DEF Executing, Busy
      <4>2. cur \in Begins /\ Pending(cur)
        BY Zenon, <1>1, <3>1, <4>1, CurrentHeld DEF Begins, Pending
      <4> QED
        BY Zenon, <1>1, <3>1, <4>2 DEF TokensOK, Fresh
    <3>3. active_fence_end = 0
      BY Zenon, <1>1, <3>2 DEF FenceRangeSound
    <3>4. /\ fence_ledger'.token = request[cur].token /\ fence_ledger'.up_to = 0
          /\ fence_ledger'.seqs = {} /\ fence_ledger'.points = NoLanePoints
      BY Zenon, <3>1 DEF NoLedger
    <3>5. \A l \in Lanes : fence_ledger'.points[l] = 0
      BY Zenon, <3>4 DEF NoLanePoints
    <3> QED
      BY <2>1, <3>1, <3>2, <3>3, <3>4, <3>5 DEF LedgerOK, LedgerOwnsFence
  <2> QED
    BY Zenon, <2>2, <2>3
<1>13. CASE CommitFails \/ BroadcastFence \/ PersistCancel
  <2>1. fence_ledger' = NoLedger /\ \E delta : Settle(delta) \/ SettleSynced
    BY Zenon, <1>13 DEF CommitFails, BroadcastFence, PersistCancel
  <2> QED
    BY Zenon, <1>2, <1>3, <2>1, LedgerEmpty
<1>14. CASE DeferredShutdown \/ AutoCancelFence \/ Panic
  <2>1. fence_ledger' = NoLedger /\ pc' \in {"exited", "shutdown_sync", "recv", "crashed"}
    BY Zenon, <1>14 DEF DeferredShutdown, AutoCancelFence, Panic
  <2> QED
    BY Zenon, <1>2, <2>1, LedgerEmpty DEF InAppend
<1>15. CASE RefuseAppend \/ RotateFails \/ WriteFails \/ (SyncBatch /\ pc' # "index")
            \/ BroadcastAppend \/ CommitRefused \/ CancelRefused \/ DeferredSync
  <2>1. UNCHANGED <<fence_ledger, active_fence, active_fence_start, active_fence_end, entries>>
    BY Zenon, <1>15 DEF RefuseAppend, RotateFails, WriteFails, SyncBatch, BroadcastAppend,
       CommitRefused, CancelRefused, DeferredSync, gateVars, indexVars
  <2>2. \E delta : Settle(delta) \/ SettleSynced
    BY Zenon, <1>15 DEF RefuseAppend, RotateFails, WriteFails, SyncBatch, BroadcastAppend,
       CommitRefused, CancelRefused, DeferredSync, FailAppend
  <2>3. pc # "persist" /\ ~Committing
    BY Zenon, <1>15 DEF RefuseAppend, RotateFails, WriteFails, SyncBatch, BroadcastAppend,
       CommitRefused, CancelRefused, DeferredSync, Committing, AppendOps
  <2> QED
    BY Zenon, <1>1, <1>3, <2>1, <2>2, <2>3, LedgerSame DEF Committing
<1>16. CASE Receive \/ EndDrain \/ PeriodicSync \/ SyncBarrier \/ StartShutdown \/ FinishShutdown
  <2>1. UNCHANGED <<fence_ledger, active_fence, active_fence_start, active_fence_end, entries>>
    BY Zenon, <1>16 DEF Receive, EndDrain, PeriodicSync, SyncBarrier, StartShutdown, FinishShutdown,
       gateVars, indexVars
  <2>2. pc \notin {"broadcast", "persist"} /\ pc' \notin {"broadcast", "persist"} /\ ~InAppend'
    BY Zenon, <1>16 DEF Receive, Take, EndDrain, PeriodicSync, SyncBarrier, StartShutdown,
       FinishShutdown, InAppend
  <2> QED
    BY Zenon, <1>1, <2>1, <2>2, LedgerSame DEF Committing
<1> QED
  BY Zenon, <1>4, <1>5, <1>6, <1>7, <1>8, <1>9, <1>10, <1>11, <1>12, <1>13, <1>14, <1>15, <1>16
     DEF WriterMoves, WriterStep, AppendStep, FenceStep, LoopStep, Continue

\* NotifiedPublished is inductive.
LEMMA NotifiedStep ==
    ASSUME GateInv, [Next]_vars
    PROVE  NotifiedPublished'
<1>1. /\ ControlOK /\ SequencesOK /\ PointsOK /\ BoundsOK /\ LedgerOK /\ NotifiedPublished
      /\ GateTypeOK /\ LoopTypeOK /\ IndexTypeOK /\ LedgerTypeOK
  BY Zenon DEF GateInv, GateOK, HoldersOK, ControlOK, TypeOK
<1>2. /\ visible \in Nat /\ visible' \in Nat /\ visible <= visible'
      /\ \A l \in Lanes : lane_visible[l] \in Nat /\ lane_visible'[l] \in Nat
                          /\ lane_visible[l] <= lane_visible'[l]
  BY Zenon, <1>1, PublishedGrows, ControlStep DEF ControlOK, TypeOK, GateTypeOK
<1>3. \A e \in entries : e.seq \in Nat /\ e.lane \in Lanes
  BY Zenon, <1>1 DEF IndexTypeOK
<1>4. CASE UNCHANGED <<entries, notified>>
  BY <1>1, <1>2, <1>3, <1>4 DEF NotifiedPublished
<1>5. CASE IndexAppend
  <2>1. /\ Count(cur) \in Nat /\ work.first \in Nat
        /\ \A s \in notified : s \in Nat /\ s < work.first
    BY Zenon, <1>1, <1>5, IndexedSequences DEF IndexTypeOK
  <2>2. \A e \in entries' : e \in entries \/ \E i \in 1 .. Count(cur) : e.seq = work.first + i - 1
    BY <1>5 DEF IndexAppend
  <2>3. \A e \in entries' : e.seq \in notified => e \in entries
    BY <2>1, <2>2
  <2>4. UNCHANGED notified
    BY Zenon, <1>5 DEF IndexAppend
  <2> QED
    BY <1>1, <1>2, <1>3, <2>3, <2>4 DEF NotifiedPublished
<1>6. CASE BroadcastAppend
  <2>1. /\ pc = "broadcast" /\ request[cur].op \in AppendOps /\ UNCHANGED entries
        /\ notified' = notified \cup CurSeqs
    BY Zenon, <1>6 DEF BroadcastAppend
  <2>2. AppendBroadcast /\ Busy
    BY Zenon, <2>1 DEF AppendBroadcast, Committing, AppendOps, Busy
  <2>3. /\ Count(cur) \in Nat /\ LastSeq \in Nat /\ work.first \in Nat
        /\ LastSeq = work.first + Count(cur) - 1 /\ work.points \in [Lanes -> Nat]
        /\ \A i \in 1 .. Count(cur) : request[cur].lanes[i] \in Lanes
    BY Zenon, <1>1, <2>1, <2>2, CurrentCommand DEF LoopTypeOK, LastSeq
  <2>4. ASSUME NEW e \in entries, e.seq \in CurSeqs
        PROVE  e.seq < visible /\ e.seq < lane_visible[e.lane]
    <3>1. PICK i \in 1 .. Count(cur) : e.seq = work.first + i - 1
      <4>1. e.seq - work.first + 1 \in 1 .. Count(cur)
        BY <1>3, <2>3, <2>4 DEF CurSeqs
      <4> QED
        BY <1>3, <2>3, <4>1
    <3>2. e = [seq |-> work.first + i - 1, lane |-> request[cur].lanes[i], request |-> cur]
      BY Zenon, <1>1, <2>2, <3>1 DEF SequencesOK, UniqueSequence
    <3>3. e.lane = request[cur].lanes[i]
      BY Zenon, <3>2
    <3>4. work.points[e.lane] >= work.first + i
      BY Zenon, <1>1, <2>1, <2>2, <3>3 DEF PointsOK
    <3>5. visible = LastSeq + 1 /\ work.points[e.lane] <= lane_visible[e.lane]
      BY Zenon, <1>1, <1>3, <2>2 DEF BoundsOK
    <3>6. work.points[e.lane] \in Nat
      BY Zenon, <1>3, <2>3
    <3> QED
      BY <1>2, <1>3, <2>3, <3>1, <3>4, <3>5, <3>6
  <2> QED
    BY <1>1, <1>2, <1>3, <2>1, <2>4 DEF NotifiedPublished
<1>7. CASE BroadcastFence
  <2>1. Committing /\ UNCHANGED entries /\ notified' = notified \cup fence_ledger.seqs
    BY Zenon, <1>7 DEF BroadcastFence, Committing
  <2>2. ASSUME NEW e \in entries, e.seq \in fence_ledger.seqs
        PROVE  e.seq < visible /\ e.seq < lane_visible[e.lane]
    <3>1. /\ e.seq < fence_ledger.up_to /\ fence_ledger.up_to <= visible
          /\ e.seq < fence_ledger.points[e.lane]
          /\ fence_ledger.points[e.lane] <= lane_visible[e.lane]
      BY Zenon, <1>1, <1>3, <2>1, <2>2 DEF LedgerOK
    <3>2. fence_ledger.up_to \in Nat /\ fence_ledger.points[e.lane] \in Nat
      BY Zenon, <1>1, <1>3 DEF LedgerTypeOK
    <3> QED
      BY <1>2, <1>3, <3>1, <3>2
  <2> QED
    BY <1>1, <1>2, <1>3, <2>1, <2>2 DEF NotifiedPublished
<1> QED
  BY Zenon, <1>4, <1>5, <1>6, <1>7, IndexFrame DEF indexVars, PersistCancel, AutoCancelFence, Panic

-----------------------------------------------------------------------------
(* The layer as a whole.                                                   *)

\* The layer holds initially.
LEMMA GateInvInit == Init => GateInv
<1> SUFFICES ASSUME Init
             PROVE  GateInv
  BY Zenon
<1>1. HoldersOK
  BY Zenon, HoldersInit
<1>2. /\ allocated = 1 /\ visible = 1 /\ lane_visible = [NoLanePoints EXCEPT ![Lane0] = 1]
      /\ active_fence = 0 /\ active_fence_start = Unset /\ active_fence_end = 0
      /\ next_fence_token = 1 /\ pc = "recv" /\ entries = {} /\ notified = {}
      /\ fence_ledger = NoLedger
  BY Zenon DEF Init, WriterInit
<1>3. /\ NoLedger.token = 0 /\ NoLedger.seqs = {} /\ NoLedger.up_to = 0
      /\ \A l \in Lanes : NoLedger.points[l] = 0 /\ lane_visible[l] <= 1
  BY <1>2 DEF NoLedger, NoLanePoints
<1>4. SequencesOK /\ PointsOK /\ BoundsOK
  BY <1>2, <1>3 DEF SequencesOK, UniqueSequence, Unindexed, AppendBroadcast, PointsOK, InAppend,
     BoundsOK, GateBound
<1>5. FenceRangeSound /\ LedgerOK /\ NotifiedPublished
  BY <1>2, <1>3 DEF FenceRangeSound, LedgerOK, LedgerOwnsFence, Committing, InAppend,
     NotifiedPublished
<1> QED
  BY Zenon, <1>1, <1>4, <1>5 DEF GateInv, GateOK

\* Every step preserves it.
LEMMA GateInvStep == GateInv /\ [Next]_vars => GateInv'
<1> SUFFICES ASSUME GateInv, [Next]_vars
             PROVE  GateInv'
  BY Zenon
<1>1. HoldersOK'
  BY Zenon, HoldersStep DEF GateInv
<1> QED
  BY Zenon, <1>1, SequencesStep, PointsStep, BoundsStep, FenceRangeStep, LedgerStep, NotifiedStep
     DEF GateInv, GateOK

\* The gate layer holds in every reachable state.
LEMMA GateInvariant == Spec => []GateInv
BY GateInvInit, GateInvStep, PTL DEF Spec

-----------------------------------------------------------------------------
(* What follows for the write path, for every number of producers, lanes   *)
(* and requests, every channel capacity and every budget of faults,        *)
(* panics and restarts.                                                    *)

\* No two events of the index share a sequence, and each was allocated, though
\* handle_append reads the allocator long before it takes its sequence.
THEOREM SequencesUnique == Spec => []UniqueSequence
<1>1. GateInv => UniqueSequence
  BY Zenon DEF GateInv, GateOK, SequencesOK
<1> QED
  BY <1>1, GateInvariant, PTL

\* The reader bounds never pass the allocator, and the open fence's range was
\* allocated, with the writer as the gate's caller.
THEOREM WriterKeepsGate == Spec => []GateSound
<1>1. GateInv => GateSound
  BY Zenon DEF GateInv, GateOK, BoundsOK, GateSound
<1> QED
  BY <1>1, GateInvariant, PTL

\* publish_on_lanes never refuses an unfenced append or batch: no caller is told
\* of an error after the event is in the index.
THEOREM PublishAlwaysAdmitted == Spec => []PublishNeverRefused
<1>1. ASSUME GateInv, pc = "publish"
      PROVE  PublishAdmitted(LastSeq + 1, work.points)
  <2>1. /\ ControlOK /\ SequencesOK /\ PointsOK /\ BoundsOK /\ GateTypeOK /\ LoopTypeOK
        /\ InAppend /\ Busy
    BY Zenon, <1>1 DEF GateInv, GateOK, HoldersOK, ControlOK, TypeOK, InAppend, Busy
  <2>2. /\ Count(cur) \in Nat /\ Count(cur) > 0 /\ work.first \in Nat
        /\ LastSeq = work.first + Count(cur) - 1 /\ work.points \in [Lanes -> Nat]
        /\ allocated = LastSeq + 1
    BY Zenon, <1>1, <2>1, CurrentCommand DEF LoopTypeOK, LastSeq, SequencesOK
  <2>3. /\ visible \in Nat /\ visible <= work.first
        /\ \A l \in Lanes : lane_visible[l] \in Nat /\ lane_visible[l] <= work.first
    BY Zenon, <2>1 DEF BoundsOK, GateTypeOK
  <2>4. \A l \in Lanes : work.points[l] # 0 =>
            work.first < work.points[l] /\ work.points[l] <= work.first + Count(cur)
    BY Zenon, <2>1 DEF PointsOK
  <2> QED
    BY <2>2, <2>3, <2>4 DEF PublishAdmitted
<1>2. GateInv => PublishNeverRefused
  BY Zenon, <1>1 DEF PublishNeverRefused
<1> QED
  BY <1>2, GateInvariant, PTL

\* The writer's ledger and the gate agree on the open fence and on what is
\* staged under it, so that a commit publishes and a cancel hides exactly that.
THEOREM LedgerAgrees == Spec => []LedgerOwnsFence
<1>1. GateInv => LedgerOwnsFence
  BY Zenon DEF GateInv, GateOK, LedgerOK
<1> QED
  BY <1>1, GateInvariant, PTL

\* A subscriber is told of an event only after both reader bounds have passed it
\* (publish_then_broadcast_unfenced, fence_finish_then_broadcast).
THEOREM NotifiedAfterPublish == Spec => []NotifiedPublished
<1>1. GateInv => NotifiedPublished
  BY Zenon DEF GateInv, GateOK
<1> QED
  BY <1>1, GateInvariant, PTL

\* The writer and the gate never come apart: the four facts above together.
THEOREM WriterAndGateAgree == Spec => []WriterOwnsGate
BY SequencesUnique, LedgerAgrees, PublishAlwaysAdmitted, NotifiedAfterPublish, PTL
   DEF WriterOwnsGate

\* The bounds readers hold only move forward: what publish_on_lanes checks of
\* one call holds of every step of the system.
THEOREM ReadersNeverGoBack ==
    Spec => [][visible <= visible' /\ \A l \in Lanes : lane_visible[l] <= lane_visible'[l]]_vars
<1>1. GateInv /\ [Next]_vars =>
          [visible <= visible' /\ \A l \in Lanes : lane_visible[l] <= lane_visible'[l]]_vars
  BY Zenon, PublishedGrows DEF GateInv, HoldersOK
<1> QED
  BY <1>1, GateInvariant, PTL DEF Spec

-----------------------------------------------------------------------------
(* The watermarks.                                                         *)

\* The inductive invariant of the watermarks.
FrontierInv == GateInv /\ WatermarksOK

\* The watermarks are sequences.
LEMMA FrontierNumbers ==
    ASSUME FrontierTypeOK
    PROVE  /\ watermarks \in PointsType
           /\ watermarks.accepted \in Nat /\ watermarks.written \in Nat
           /\ watermarks.durable \in Nat /\ watermarks.visible \in Nat
           /\ \A l \in Lanes :
                  /\ lane_watermarks[l] \in PointsType
                  /\ lane_watermarks[l].accepted \in Nat /\ lane_watermarks[l].written \in Nat
                  /\ lane_watermarks[l].durable \in Nat /\ lane_watermarks[l].visible \in Nat
           /\ DOMAIN lane_watermarks = Lanes
BY Zenon DEF FrontierTypeOK, PointsType

\* A lane's durable point takes over its written one where accepted has reached
\* it, and stays behind both.
LEMMA DurableOrder ==
    ASSUME NEW all \in Nat, NEW was \in Nat, NEW w \in Nat, NEW d \in Nat, NEW e,
           e = IF w <= all THEN w ELSE d, all >= was, was >= d, w >= d
    PROVE  w >= e /\ all >= e
OBVIOUS

\* A lane's visible point moves to the end of what was accepted at most.
LEMMA VisibleOrder ==
    \A a, v, p \in Nat : a >= v /\ p <= a + 1 =>
        a >= IF p = 0 THEN v ELSE Larger(v, p - 1)
BY DEF Larger

\* What advance_accepted_on_lane changes.
LEMMA AdvanceAccepted ==
    ASSUME FrontierTypeOK, NEW lane \in Lanes, NEW s \in Nat, advance_accepted_on_lane(lane, s)
    PROVE  /\ watermarks'.accepted = Larger(watermarks.accepted, s)
           /\ watermarks'.written = watermarks.written
           /\ watermarks'.durable = watermarks.durable
           /\ watermarks'.visible = watermarks.visible
           /\ \A l \in Lanes :
                  /\ lane_watermarks'[l].accepted = IF l = lane THEN Larger(lane_watermarks[l].accepted, s)
                                                    ELSE lane_watermarks[l].accepted
                  /\ lane_watermarks'[l].written = lane_watermarks[l].written
                  /\ lane_watermarks'[l].durable = lane_watermarks[l].durable
                  /\ lane_watermarks'[l].visible = lane_watermarks[l].visible
BY Zenon DEF FrontierTypeOK, PointsType, advance_accepted_on_lane

\* What advance_written_on_lane changes.
LEMMA AdvanceWritten ==
    ASSUME FrontierTypeOK, NEW lane \in Lanes, NEW s \in Nat, advance_written_on_lane(lane, s)
    PROVE  /\ watermarks'.accepted = watermarks.accepted
           /\ watermarks'.written = Larger(watermarks.written, s)
           /\ watermarks'.durable = watermarks.durable
           /\ watermarks'.visible = watermarks.visible
           /\ \A l \in Lanes :
                  /\ lane_watermarks'[l].accepted = lane_watermarks[l].accepted
                  /\ lane_watermarks'[l].written = IF l = lane THEN Larger(lane_watermarks[l].written, s)
                                                   ELSE lane_watermarks[l].written
                  /\ lane_watermarks'[l].durable = lane_watermarks[l].durable
                  /\ lane_watermarks'[l].visible = lane_watermarks[l].visible
BY Zenon DEF FrontierTypeOK, PointsType, advance_written_on_lane

\* What advance_durable_to_accepted changes, between ordered watermarks.
LEMMA AdvanceDurable ==
    ASSUME FrontierTypeOK, FrontierOrdered, advance_durable_to_accepted
    PROVE  /\ watermarks'.accepted = watermarks.accepted
           /\ watermarks'.written = watermarks.written
           /\ watermarks'.durable = watermarks.accepted
           /\ watermarks'.visible = watermarks.visible
           /\ \A l \in Lanes :
                  /\ lane_watermarks'[l].accepted = lane_watermarks[l].accepted
                  /\ lane_watermarks'[l].written = lane_watermarks[l].written
                  /\ lane_watermarks'[l].durable =
                         IF lane_watermarks[l].written <= watermarks.accepted
                         THEN lane_watermarks[l].written ELSE lane_watermarks[l].durable
                  /\ lane_watermarks'[l].visible = lane_watermarks[l].visible
<1>1. Larger(watermarks.durable, watermarks.accepted) = watermarks.accepted
  BY FrontierNumbers DEF Larger, FrontierOrdered
<1>2. /\ watermarks' = [watermarks EXCEPT !.durable = watermarks.accepted]
      /\ lane_watermarks' = [l \in Lanes |-> LaneDurableTo(lane_watermarks[l], watermarks.accepted)]
  BY Zenon, <1>1, FrontierNumbers DEF advance_durable_to_accepted
<1>3. /\ watermarks'.accepted = watermarks.accepted
      /\ watermarks'.written = watermarks.written
      /\ watermarks'.durable = watermarks.accepted
      /\ watermarks'.visible = watermarks.visible
  BY Zenon, <1>2, FrontierNumbers DEF PointsType
<1>4. ASSUME NEW l \in Lanes
      PROVE  /\ lane_watermarks'[l].accepted = lane_watermarks[l].accepted
             /\ lane_watermarks'[l].written = lane_watermarks[l].written
             /\ lane_watermarks'[l].durable =
                    IF lane_watermarks[l].written <= watermarks.accepted
                    THEN lane_watermarks[l].written ELSE lane_watermarks[l].durable
             /\ lane_watermarks'[l].visible = lane_watermarks[l].visible
  <2>1. lane_watermarks'[l] = LaneDurableTo(lane_watermarks[l], watermarks.accepted)
    BY Zenon, <1>2
  <2>2. Larger(lane_watermarks[l].durable, lane_watermarks[l].written) = lane_watermarks[l].written
    BY FrontierNumbers DEF Larger, FrontierOrdered
  <2>3. lane_watermarks[l] \in PointsType
    BY Zenon, FrontierNumbers
  <2> QED
    BY Zenon, <2>1, <2>2, <2>3 DEF LaneDurableTo, PointsType
<1> QED
  BY Zenon, <1>3, <1>4

\* What advance_visible_and_emitted changes.
LEMMA AdvanceVisible ==
    ASSUME FrontierTypeOK, NEW s \in Int, NEW points \in [Lanes -> Nat],
           advance_visible_and_emitted(s, points)
    PROVE  /\ watermarks'.accepted = watermarks.accepted
           /\ watermarks'.written = watermarks.written
           /\ watermarks'.durable = watermarks.durable
           /\ watermarks'.visible = Larger(watermarks.visible, s)
           /\ \A l \in Lanes :
                  /\ lane_watermarks'[l].accepted = lane_watermarks[l].accepted
                  /\ lane_watermarks'[l].written = lane_watermarks[l].written
                  /\ lane_watermarks'[l].durable = lane_watermarks[l].durable
                  /\ lane_watermarks'[l].visible =
                         IF points[l] = 0 THEN lane_watermarks[l].visible
                         ELSE Larger(lane_watermarks[l].visible, points[l] - 1)
<1>1. /\ watermarks'.accepted = watermarks.accepted
      /\ watermarks'.written = watermarks.written
      /\ watermarks'.durable = watermarks.durable
      /\ watermarks'.visible = Larger(watermarks.visible, s)
  BY Zenon, FrontierNumbers DEF advance_visible_and_emitted, PointsType
<1>2. ASSUME NEW l \in Lanes
      PROVE  /\ lane_watermarks'[l].accepted = lane_watermarks[l].accepted
             /\ lane_watermarks'[l].written = lane_watermarks[l].written
             /\ lane_watermarks'[l].durable = lane_watermarks[l].durable
             /\ lane_watermarks'[l].visible =
                    IF points[l] = 0 THEN lane_watermarks[l].visible
                    ELSE Larger(lane_watermarks[l].visible, points[l] - 1)
  <2>1. lane_watermarks'[l] = IF points[l] = 0 THEN lane_watermarks[l]
                              ELSE [lane_watermarks[l] EXCEPT !.visible = Larger(@, points[l] - 1)]
    BY Zenon, FrontierNumbers DEF advance_visible_and_emitted
  <2>2. lane_watermarks[l] \in PointsType
    BY Zenon, FrontierNumbers
  <2> QED
    BY Zenon, <2>1, <2>2 DEF PointsType
<1> QED
  BY Zenon, <1>1, <1>2

-----------------------------------------------------------------------------
(* Which steps advance which watermark.                                    *)

\* An item that is accepted or written, and its lane.
LEMMA ItemLane ==
    ASSUME ControlOK, InAppend, work.item \in 1 .. Count(cur)
    PROVE  /\ request[cur].lanes[work.item] \in Lanes
           /\ work.first \in Nat /\ work.first + work.item - 1 \in Nat
<1>1. Busy /\ work.first \in Nat
  BY Zenon DEF InAppend, Busy, ControlOK, TypeOK, LoopTypeOK
<1>2. Count(cur) \in Nat /\ request[cur].lanes[work.item] \in Lanes
  BY Zenon, <1>1, CurrentCommand
<1> QED
  BY <1>1, <1>2

\* Every step leaves the watermarks alone or makes one call of Frontier.
LEMMA FrontierMoves ==
    ASSUME FrontierInv, [Next]_vars
    PROVE  \/ UNCHANGED frontierVars
           \/ AcceptItem
           \/ /\ WriteFrame /\ pc = "write" /\ work.item \in 1 .. Count(cur)
              /\ advance_written_on_lane(request[cur].lanes[work.item], work.first + work.item - 1)
           \/ advance_durable_to_accepted
           \/ BroadcastAppend \/ BroadcastFence
BY Zenon, FrontierFrame DEF RotateSegment, WriteFrame, SyncBatch, PeriodicSync, SyncBarrier,
   FinishShutdown, SyncActive, SyncFails

\* The arguments of the visible advances.
LEMMA BroadcastBounds ==
    ASSUME FrontierInv
    PROVE  /\ BroadcastAppend =>
                  /\ AppendBroadcast /\ LastSeq \in Int /\ work.points \in [Lanes -> Nat]
                  /\ advance_visible_and_emitted(LastSeq, work.points)
                  /\ LastSeq <= watermarks.accepted /\ LastSeq < visible
                  /\ \A l \in Lanes : work.points[l] <= lane_watermarks[l].accepted + 1
                                      /\ work.points[l] <= lane_visible[l]
           /\ BroadcastFence =>
                  /\ fence_ledger.up_to - 1 \in Int /\ fence_ledger.points \in [Lanes -> Nat]
                  /\ advance_visible_and_emitted(fence_ledger.up_to - 1, fence_ledger.points)
                  /\ fence_ledger.up_to - 1 <= watermarks.accepted /\ fence_ledger.up_to - 1 < visible
                  /\ \A l \in Lanes : fence_ledger.points[l] <= lane_watermarks[l].accepted + 1
                                      /\ fence_ledger.points[l] <= lane_visible[l]
<1>1. /\ ControlOK /\ BoundsOK /\ LedgerOK /\ AcceptedOK /\ FrontierTypeOK
      /\ GateTypeOK /\ LoopTypeOK /\ LedgerTypeOK
  BY Zenon DEF FrontierInv, WatermarksOK, GateInv, GateOK, HoldersOK, ControlOK, TypeOK
<1>2. visible \in Nat /\ watermarks.accepted \in Nat
  BY Zenon, <1>1, FrontierNumbers DEF GateTypeOK
<1>3. ASSUME BroadcastAppend
      PROVE  /\ AppendBroadcast /\ LastSeq \in Int /\ work.points \in [Lanes -> Nat]
             /\ advance_visible_and_emitted(LastSeq, work.points)
             /\ LastSeq <= watermarks.accepted /\ LastSeq < visible
             /\ \A l \in Lanes : work.points[l] <= lane_watermarks[l].accepted + 1
                                 /\ work.points[l] <= lane_visible[l]
  <2>1. pc = "broadcast" /\ AppendBroadcast /\ Busy /\ advance_visible_and_emitted(LastSeq, work.points)
    BY Zenon, <1>3 DEF BroadcastAppend, AppendBroadcast, Committing, AppendOps, Busy
  <2>2. Count(cur) \in Nat /\ work.first \in Nat /\ work.points \in [Lanes -> Nat]
    BY Zenon, <1>1, <2>1, CurrentCommand DEF LoopTypeOK
  <2>3. work.first + Count(cur) <= watermarks.accepted + 1 /\ visible = LastSeq + 1
    BY Zenon, <1>1, <2>1 DEF AcceptedOK, BoundsOK
  <2>4. \A l \in Lanes : work.points[l] <= lane_watermarks[l].accepted + 1
                         /\ work.points[l] <= lane_visible[l]
    BY Zenon, <1>1, <2>1 DEF AcceptedOK, BoundsOK
  <2> QED
    BY <1>2, <2>1, <2>2, <2>3, <2>4 DEF LastSeq
<1>4. ASSUME BroadcastFence
      PROVE  /\ fence_ledger.up_to - 1 \in Int /\ fence_ledger.points \in [Lanes -> Nat]
             /\ advance_visible_and_emitted(fence_ledger.up_to - 1, fence_ledger.points)
             /\ fence_ledger.up_to - 1 <= watermarks.accepted /\ fence_ledger.up_to - 1 < visible
             /\ \A l \in Lanes : fence_ledger.points[l] <= lane_watermarks[l].accepted + 1
                                 /\ fence_ledger.points[l] <= lane_visible[l]
  <2>1. Committing /\ advance_visible_and_emitted(fence_ledger.up_to - 1, fence_ledger.points)
    BY Zenon, <1>4 DEF BroadcastFence, Committing
  <2>2. fence_ledger.up_to \in Nat /\ fence_ledger.points \in [Lanes -> Nat]
    BY Zenon, <1>1 DEF LedgerTypeOK
  <2>3. fence_ledger.up_to <= watermarks.accepted + 1 /\ fence_ledger.up_to <= visible
    BY Zenon, <1>1, <2>1 DEF AcceptedOK, LedgerOK
  <2>4. \A l \in Lanes : fence_ledger.points[l] <= lane_watermarks[l].accepted + 1
                         /\ fence_ledger.points[l] <= lane_visible[l]
    BY Zenon, <1>1, <2>1 DEF AcceptedOK, LedgerOK
  <2> QED
    BY <1>2, <2>1, <2>2, <2>3, <2>4
<1> QED
  BY Zenon, <1>3, <1>4

\* What accepting an item does to the watermarks.
LEMMA ItemAccepted ==
    ASSUME ControlOK, AcceptItem
    PROVE  /\ request[cur].lanes[work.item] \in Lanes /\ work.first + work.item - 1 \in Nat
           /\ advance_accepted_on_lane(request[cur].lanes[work.item], work.first + work.item - 1)
<1>1. InAppend /\ work.item \in 1 .. Count(cur)
  BY Zenon, AcceptFrame DEF InAppend
<1> QED
  BY Zenon, <1>1, ItemLane DEF AcceptItem

\* The accepted watermarks only grow.
LEMMA AcceptedGrows ==
    ASSUME FrontierInv, [Next]_vars
    PROVE  /\ watermarks.accepted \in Nat /\ watermarks'.accepted \in Nat
           /\ watermarks.accepted <= watermarks'.accepted
           /\ \A l \in Lanes : /\ lane_watermarks[l].accepted \in Nat
                               /\ lane_watermarks'[l].accepted \in Nat
                               /\ lane_watermarks[l].accepted <= lane_watermarks'[l].accepted
<1>1. ControlOK /\ FrontierTypeOK /\ FrontierOrdered
  BY Zenon DEF FrontierInv, WatermarksOK, GateInv, HoldersOK, ControlOK, TypeOK
<1>n. watermarks.accepted \in Nat /\ \A l \in Lanes : lane_watermarks[l].accepted \in Nat
  BY Zenon, <1>1, FrontierNumbers
<1>2. CASE UNCHANGED frontierVars
  BY <1>2, <1>n DEF frontierVars
<1>3. CASE AcceptItem
  <2>1. PICK lane \in Lanes, s \in Nat : advance_accepted_on_lane(lane, s)
    BY Zenon, <1>1, <1>3, ItemAccepted
  <2>2. /\ watermarks'.accepted = Larger(watermarks.accepted, s)
        /\ \A l \in Lanes : lane_watermarks'[l].accepted = IF l = lane THEN Larger(lane_watermarks[l].accepted, s)
                                                            ELSE lane_watermarks[l].accepted
    BY Zenon, <1>1, <2>1, AdvanceAccepted
  <2> QED
    BY <1>n, <2>2 DEF Larger
<1>4. CASE /\ WriteFrame /\ pc = "write" /\ work.item \in 1 .. Count(cur)
           /\ advance_written_on_lane(request[cur].lanes[work.item], work.first + work.item - 1)
  <2>1. /\ watermarks'.accepted = watermarks.accepted
        /\ \A l \in Lanes : lane_watermarks'[l].accepted = lane_watermarks[l].accepted
    BY Zenon, <1>1, <1>4, ItemLane, AdvanceWritten DEF InAppend
  <2> QED
    BY <1>n, <2>1
<1>5. CASE advance_durable_to_accepted
  <2>1. /\ watermarks'.accepted = watermarks.accepted
        /\ \A l \in Lanes : lane_watermarks'[l].accepted = lane_watermarks[l].accepted
    BY Zenon, <1>1, <1>5, AdvanceDurable
  <2> QED
    BY <1>n, <2>1
<1>6. CASE BroadcastAppend \/ BroadcastFence
  <2>1. /\ watermarks'.accepted = watermarks.accepted
        /\ \A l \in Lanes : lane_watermarks'[l].accepted = lane_watermarks[l].accepted
    BY Zenon, <1>1, <1>6, BroadcastBounds, AdvanceVisible
  <2> QED
    BY <1>n, <2>1
<1> QED
  BY Zenon, <1>2, <1>3, <1>4, <1>5, <1>6, FrontierMoves

-----------------------------------------------------------------------------
(* The three parts of the layer.                                           *)

\* What the ledger will publish stays accepted.
LEMMA AcceptedLedgerStep ==
    ASSUME FrontierInv, [Next]_vars
    PROVE  /\ fence_ledger'.up_to <= watermarks'.accepted + 1
           /\ \A l \in Lanes : fence_ledger'.points[l] <= lane_watermarks'[l].accepted + 1
<1>1. /\ ControlOK /\ AcceptedOK /\ LedgerTypeOK /\ LoopTypeOK /\ GateInv
  BY Zenon DEF FrontierInv, WatermarksOK, GateInv, HoldersOK, ControlOK, TypeOK
<1>2. /\ watermarks.accepted \in Nat /\ watermarks'.accepted \in Nat
      /\ watermarks.accepted <= watermarks'.accepted
      /\ \A l \in Lanes : /\ lane_watermarks[l].accepted \in Nat
                          /\ lane_watermarks'[l].accepted \in Nat
                          /\ lane_watermarks[l].accepted <= lane_watermarks'[l].accepted
  BY Zenon, AcceptedGrows
<1>3. /\ fence_ledger.up_to \in Nat /\ fence_ledger.up_to <= watermarks.accepted + 1
      /\ fence_ledger.points \in [Lanes -> Nat]
      /\ \A l \in Lanes : fence_ledger.points[l] <= lane_watermarks[l].accepted + 1
  BY Zenon, <1>1 DEF AcceptedOK, LedgerTypeOK
<1>4. CASE UNCHANGED fence_ledger
  BY <1>2, <1>3, <1>4
<1>5. CASE fence_ledger'.up_to = 0 /\ fence_ledger'.points = NoLanePoints
  <2>1. \A l \in Lanes : fence_ledger'.points[l] = 0
    BY Zenon, <1>5 DEF NoLanePoints
  <2> QED
    BY <1>2, <1>5, <2>1
<1>6. CASE IndexAppend /\ Fenced(cur)
  <2>1. /\ fence_ledger'.up_to = Larger(fence_ledger.up_to, LastSeq + 1)
        /\ fence_ledger'.points = [l \in Lanes |-> Larger(fence_ledger.points[l], work.points[l])]
    BY Zenon, <1>1, <1>6 DEF IndexAppend, LedgerTypeOK
  <2>2. /\ Count(cur) \in Nat /\ work.first \in Nat /\ LastSeq = work.first + Count(cur) - 1
    BY Zenon, <1>1, <1>6, IndexedSequences
  <2>3. /\ work.first + Count(cur) <= watermarks.accepted + 1 /\ work.points \in [Lanes -> Nat]
        /\ \A l \in Lanes : work.points[l] <= lane_watermarks[l].accepted + 1
    BY Zenon, <1>1, <1>6 DEF AcceptedOK, InAppend, IndexAppend, LoopTypeOK
  <2> QED
    BY <1>2, <1>3, <2>1, <2>2, <2>3 DEF Larger
<1>7. IndexAppend /\ ~Fenced(cur) => UNCHANGED fence_ledger
  BY Zenon DEF IndexAppend
<1>8. ExecuteBegin \/ DeferredBegin =>
          UNCHANGED fence_ledger \/ (fence_ledger'.up_to = 0 /\ fence_ledger'.points = NoLanePoints)
  BY Zenon DEF ExecuteBegin, DeferredBegin, BeginLedger, NoLedger
<1>9. NoLedger.up_to = 0 /\ NoLedger.points = NoLanePoints
  BY Zenon DEF NoLedger
<1> QED
  BY Zenon, <1>4, <1>5, <1>6, <1>7, <1>8, <1>9, LedgerFrame DEF CommitFails, BroadcastFence, PersistCancel,
     DeferredShutdown, AutoCancelFence, Panic

\* AcceptedOK is inductive.
LEMMA AcceptedStep ==
    ASSUME FrontierInv, [Next]_vars
    PROVE  AcceptedOK'
<1>1. /\ ControlOK /\ AcceptedOK /\ FrontierTypeOK /\ LoopTypeOK /\ GateInv
      /\ work.first \in Nat /\ work.points \in [Lanes -> Nat]
  BY Zenon DEF FrontierInv, WatermarksOK, GateInv, HoldersOK, ControlOK, TypeOK, LoopTypeOK
<1>2. /\ watermarks.accepted \in Nat /\ watermarks'.accepted \in Nat
      /\ watermarks.accepted <= watermarks'.accepted
      /\ \A l \in Lanes : /\ lane_watermarks[l].accepted \in Nat
                          /\ lane_watermarks'[l].accepted \in Nat
                          /\ lane_watermarks[l].accepted <= lane_watermarks'[l].accepted
  BY Zenon, AcceptedGrows
<1>3. /\ fence_ledger'.up_to <= watermarks'.accepted + 1
      /\ \A l \in Lanes : fence_ledger'.points[l] <= lane_watermarks'[l].accepted + 1
  BY Zenon, AcceptedLedgerStep
<1>4. CASE ~InAppend' /\ ~AppendBroadcast'
  BY Zenon, <1>3, <1>4 DEF AcceptedOK
<1>5. ASSUME InAppend \/ AppendBroadcast, work'.first = work.first, work'.points = work.points,
             Count(cur)' = Count(cur), Count(cur) \in Nat, pc # "accept"
      PROVE  AcceptedOK'
  BY <1>1, <1>2, <1>3, <1>5 DEF AcceptedOK
<1>6. CASE ~WriterMoves
  <2>1. UNCHANGED <<pc, cur, work>> /\ (Busy => request'[cur] = request[cur])
    BY Zenon, <1>1, <1>6, OutsideFrame DEF loopVars
  <2>2. CASE InAppend \/ AppendBroadcast
    <3>1. Busy
      BY Zenon, <2>2 DEF Busy, InAppend, AppendBroadcast
    <3>2. Count(cur) \in Nat /\ Count(cur)' = Count(cur)
      BY Zenon, <1>1, <2>1, <3>1, CurrentCommand DEF Count
    <3>3. pc' = pc /\ work' = work
      BY Zenon, <2>1
    <3> QED
      BY <1>1, <1>2, <1>3, <2>2, <3>2, <3>3 DEF AcceptedOK
  <2>3. CASE ~InAppend /\ ~AppendBroadcast
    <3>1. ~InAppend' /\ ~AppendBroadcast'
      BY Zenon, <2>1, <2>3 DEF InAppend, AppendBroadcast, Committing, Busy
    <3> QED
      BY Zenon, <1>4, <3>1
  <2> QED
    BY Zenon, <2>2, <2>3
<1>7. CASE StartAppend
  <2>1. pc' = "accept" /\ work'.points = NoLanePoints
    BY Zenon, <1>7 DEF StartAppend
  <2>2. \A l \in Lanes : NoLanePoints[l] = 0
    BY Zenon DEF NoLanePoints
  <2> QED
    BY <1>2, <1>3, <2>1, <2>2 DEF AcceptedOK
<1>8. CASE AcceptItem
  <2> DEFINE lane == request[cur].lanes[work.item]
             s == work.first + work.item - 1
  <2>1. /\ pc = "accept" /\ UNCHANGED <<cur, request>> /\ work'.first = work.first
        /\ work.item \in 1 .. Count(cur) /\ lane \in Lanes
        /\ work'.points = [work.points EXCEPT ![lane] = work.first + work.item]
        /\ pc' # "accept" => work.item = Count(cur)
    BY Zenon, <1>1, <1>8, AcceptFrame
  <2>2. Count(cur) \in Nat /\ Count(cur)' = Count(cur) /\ s \in Nat
    BY <1>1, <2>1, CurrentCommand DEF Busy, Count
  <2>3. advance_accepted_on_lane(lane, s)
    BY Zenon, <1>1, <1>8, ItemAccepted
  <2>4. s <= watermarks'.accepted /\ s <= lane_watermarks'[lane].accepted
    <3> HIDE DEF lane, s
    <3>1. /\ watermarks'.accepted = Larger(watermarks.accepted, s)
          /\ lane_watermarks'[lane].accepted = Larger(lane_watermarks[lane].accepted, s)
      BY Zenon, <1>1, <2>1, <2>2, <2>3, AdvanceAccepted
    <3>2. watermarks.accepted \in Nat /\ lane_watermarks[lane].accepted \in Nat
      BY Zenon, <1>2, <2>1
    <3> QED
      BY Zenon, <2>2, <3>1, <3>2, LargerBounds
  <2>5. \A l \in Lanes : /\ work.points[l] <= lane_watermarks[l].accepted + 1
                         /\ work.points[l] <= watermarks.accepted + 1
    BY Zenon, <1>1, <2>1 DEF AcceptedOK, InAppend
  <2>6. /\ work'.points[lane] = s + 1
        /\ \A l \in Lanes : l # lane => work'.points[l] = work.points[l]
    <3>1. work.first + work.item = s + 1
      BY <1>1, <2>1, <2>2
    <3> QED
      BY Zenon, <1>1, <2>1, <3>1
  <2>7. \A l \in Lanes : /\ work'.points[l] <= lane_watermarks'[l].accepted + 1
                         /\ work'.points[l] <= watermarks'.accepted + 1
    <3> HIDE DEF lane, s
    <3> SUFFICES ASSUME NEW l \in Lanes
                 PROVE  /\ work'.points[l] <= lane_watermarks'[l].accepted + 1
                        /\ work'.points[l] <= watermarks'.accepted + 1
      BY Zenon
    <3>1. CASE l = lane
      BY <1>2, <2>2, <2>4, <2>6, <3>1
    <3>2. CASE l # lane
      <4>1. work.points[l] \in Nat /\ work'.points[l] = work.points[l]
        BY Zenon, <1>1, <2>6, <3>2 DEF LoopTypeOK
      <4> QED
        BY <1>2, <2>5, <4>1
    <3> QED
      BY Zenon, <3>1, <3>2
  <2>8. pc' # "accept" => work'.first + Count(cur)' <= watermarks'.accepted + 1
    <3>1. s + 1 = work.first + work.item
      BY <1>1, <2>1, <2>2
    <3> HIDE DEF lane, s
    <3>2. s + 1 <= watermarks'.accepted + 1
      BY <1>2, <2>2, <2>4
    <3> QED
      BY Zenon, <2>1, <2>2, <3>1, <3>2
  <2> QED
    BY Zenon, <1>3, <2>7, <2>8 DEF AcceptedOK
<1>9. CASE Continue
  <2>1. /\ pc \in {"rotate", "write", "sync_batch"} /\ UNCHANGED <<cur, request>>
        /\ work'.first = work.first /\ work'.points = work.points
    BY Zenon, <1>1, <1>9, ContinueFrame
  <2>2. Count(cur) \in Nat /\ Count(cur)' = Count(cur)
    BY Zenon, <1>1, <2>1, CurrentCommand DEF Busy, Count
  <2> QED
    BY Zenon, <1>5, <2>1, <2>2 DEF InAppend
<1>10. CASE IndexAppend /\ Fenced(cur)
  BY Zenon, <1>1, <1>4, <1>10, Settled DEF IndexAppend, InAppend, AppendBroadcast
<1>11. CASE (IndexAppend /\ ~Fenced(cur)) \/ PublishAppend
  <2>1. pc \in {"index", "publish"} /\ UNCHANGED <<cur, work, request>>
    BY Zenon, <1>11 DEF IndexAppend, PublishAppend
  <2>2. Count(cur) \in Nat /\ Count(cur)' = Count(cur)
    BY Zenon, <1>1, <2>1, CurrentCommand DEF Busy, Count
  <2> QED
    BY Zenon, <1>5, <2>1, <2>2 DEF InAppend
<1> QED
  BY Zenon, <1>1, <1>4, <1>6, <1>7, <1>8, <1>9, <1>10, <1>11, RestFrame

\* FrontierOrdered is inductive.
LEMMA OrderedStep ==
    ASSUME FrontierInv, [Next]_vars
    PROVE  FrontierOrdered'
<1> DEFINE Global == /\ watermarks.accepted >= watermarks.written
                     /\ watermarks.accepted >= watermarks.visible
                     /\ watermarks.accepted >= watermarks.durable
           Lane(l) == /\ lane_watermarks[l].accepted >= lane_watermarks[l].written
                      /\ lane_watermarks[l].accepted >= lane_watermarks[l].visible
                      /\ lane_watermarks[l].written >= lane_watermarks[l].durable
                      /\ watermarks.durable >= lane_watermarks[l].durable
<1>0. /\ Global' /\ (\A l \in Lanes : Lane(l)') => FrontierOrdered'
      /\ FrontierOrdered => Global /\ \A l \in Lanes : Lane(l)
  BY Zenon DEF FrontierOrdered
<1>1. /\ ControlOK /\ PointsOK /\ AcceptedOK /\ FrontierOrdered /\ FrontierTypeOK /\ LoopTypeOK
  BY Zenon DEF FrontierInv, WatermarksOK, GateInv, GateOK, HoldersOK, ControlOK, TypeOK
<1>n. /\ Global /\ watermarks.accepted \in Nat /\ watermarks.written \in Nat
      /\ watermarks.durable \in Nat /\ watermarks.visible \in Nat
      /\ \A l \in Lanes :
             /\ Lane(l) /\ lane_watermarks[l].accepted \in Nat /\ lane_watermarks[l].written \in Nat
             /\ lane_watermarks[l].durable \in Nat /\ lane_watermarks[l].visible \in Nat
  BY Zenon, <1>0, <1>1, FrontierNumbers
<1>2. CASE UNCHANGED frontierVars
  BY Zenon, <1>1, <1>2 DEF frontierVars, FrontierOrdered
<1>3. CASE AcceptItem
  <2>1. PICK lane \in Lanes, s \in Nat : advance_accepted_on_lane(lane, s)
    BY Zenon, <1>1, <1>3, ItemAccepted
  <2>2. Global'
    <3>1. /\ watermarks'.accepted = Larger(watermarks.accepted, s) /\ watermarks'.written = watermarks.written
          /\ watermarks'.durable = watermarks.durable /\ watermarks'.visible = watermarks.visible
      BY Zenon, <1>1, <2>1, AdvanceAccepted
    <3> QED
      BY <1>n, <3>1 DEF Larger
  <2>3. ASSUME NEW l \in Lanes
        PROVE  Lane(l)'
    <3>1. /\ lane_watermarks'[l].accepted = IF l = lane THEN Larger(lane_watermarks[l].accepted, s)
                                            ELSE lane_watermarks[l].accepted
          /\ lane_watermarks'[l].written = lane_watermarks[l].written
          /\ lane_watermarks'[l].durable = lane_watermarks[l].durable
          /\ lane_watermarks'[l].visible = lane_watermarks[l].visible
          /\ watermarks'.durable = watermarks.durable
      BY Zenon, <1>1, <2>1, AdvanceAccepted
    <3> QED
      BY <1>n, <3>1 DEF Larger
  <2> QED
    BY Zenon, <1>0, <2>2, <2>3
<1>4. CASE /\ WriteFrame /\ pc = "write" /\ work.item \in 1 .. Count(cur)
           /\ advance_written_on_lane(request[cur].lanes[work.item], work.first + work.item - 1)
  <2> DEFINE lane == request[cur].lanes[work.item]
             s == work.first + work.item - 1
  <2>1. InAppend /\ Busy
    BY Zenon, <1>4 DEF InAppend, Busy
  <2>2. /\ lane \in Lanes /\ s \in Nat /\ work.first \in Nat /\ Count(cur) \in Nat
        /\ work.points \in [Lanes -> Nat]
    BY Zenon, <1>1, <1>4, <2>1, ItemLane, CurrentCommand DEF LoopTypeOK
  <2>3. /\ work.first + Count(cur) <= watermarks.accepted + 1
        /\ work.points[lane] >= work.first + work.item
        /\ work.points[lane] <= lane_watermarks[lane].accepted + 1
    BY Zenon, <1>1, <1>4, <2>1, <2>2 DEF AcceptedOK, PointsOK
  <2>4. s <= watermarks.accepted /\ s <= lane_watermarks[lane].accepted
    <3>1. /\ watermarks.accepted \in Nat /\ lane_watermarks[lane].accepted \in Nat
          /\ work.points[lane] \in Nat /\ work.item \in 1 .. Count(cur)
      BY Zenon, <1>1, <1>4, <2>2, FrontierNumbers
    <3>2. s <= watermarks.accepted
      <4>1. s < work.first + Count(cur)
        BY Zenon, <2>2, <3>1, ItemBounds
      <4> HIDE DEF s, lane
      <4> QED
        BY <2>2, <2>3, <3>1, <4>1
    <3> HIDE DEF lane
    <3>3. s <= lane_watermarks[lane].accepted
      BY <2>2, <2>3, <3>1
    <3> QED
      BY Zenon, <3>2, <3>3
  <2> HIDE DEF lane, s
  <2>5. advance_written_on_lane(lane, s)
    BY Zenon, <1>4 DEF lane, s
  <2>6. Global'
    <3>1. /\ watermarks'.accepted = watermarks.accepted /\ watermarks'.written = Larger(watermarks.written, s)
          /\ watermarks'.durable = watermarks.durable /\ watermarks'.visible = watermarks.visible
      BY Zenon, <1>1, <2>2, <2>5, AdvanceWritten
    <3> QED
      BY <1>n, <2>2, <2>4, <3>1 DEF Larger
  <2>7. ASSUME NEW l \in Lanes
        PROVE  Lane(l)'
    <3>1. /\ lane_watermarks'[l].accepted = lane_watermarks[l].accepted
          /\ lane_watermarks'[l].written = IF l = lane THEN Larger(lane_watermarks[l].written, s)
                                           ELSE lane_watermarks[l].written
          /\ lane_watermarks'[l].durable = lane_watermarks[l].durable
          /\ lane_watermarks'[l].visible = lane_watermarks[l].visible
          /\ watermarks'.durable = watermarks.durable
      BY Zenon, <1>1, <2>2, <2>5, AdvanceWritten
    <3>2. /\ Lane(l) /\ lane_watermarks[l].accepted \in Nat /\ lane_watermarks[l].written \in Nat
          /\ lane_watermarks[l].durable \in Nat /\ lane_watermarks[l].visible \in Nat
      BY Zenon, <1>n
    <3>3. l = lane => s <= lane_watermarks[l].accepted
      BY Zenon, <2>4
    <3> QED
      BY <2>2, <3>1, <3>2, <3>3 DEF Larger
  <2> QED
    BY Zenon, <1>0, <2>6, <2>7
<1>5. CASE advance_durable_to_accepted
  <2>1. Global'
    <3>1. /\ watermarks'.accepted = watermarks.accepted /\ watermarks'.written = watermarks.written
          /\ watermarks'.durable = watermarks.accepted /\ watermarks'.visible = watermarks.visible
      BY Zenon, <1>1, <1>5, AdvanceDurable
    <3> QED
      BY <1>n, <3>1
  <2>2. ASSUME NEW l \in Lanes
        PROVE  Lane(l)'
    <3>1. /\ lane_watermarks'[l].accepted = lane_watermarks[l].accepted
          /\ lane_watermarks'[l].written = lane_watermarks[l].written
          /\ lane_watermarks'[l].durable = IF lane_watermarks[l].written <= watermarks.accepted
                                           THEN lane_watermarks[l].written ELSE lane_watermarks[l].durable
          /\ lane_watermarks'[l].visible = lane_watermarks[l].visible
          /\ watermarks'.durable = watermarks.accepted
      BY Zenon, <1>1, <1>5, AdvanceDurable
    <3>2. /\ Lane(l) /\ lane_watermarks[l].accepted \in Nat /\ lane_watermarks[l].written \in Nat
          /\ lane_watermarks[l].durable \in Nat /\ lane_watermarks[l].visible \in Nat
      BY Zenon, <1>n
    <3>3. /\ watermarks.accepted \in Nat /\ watermarks.durable \in Nat
          /\ watermarks.accepted >= watermarks.durable
      BY Zenon, <1>n
    <3>4. lane_watermarks[l].written >= lane_watermarks'[l].durable
          /\ watermarks.accepted >= lane_watermarks'[l].durable
      <4>1. /\ watermarks.durable >= lane_watermarks[l].durable
            /\ lane_watermarks[l].written >= lane_watermarks[l].durable
        BY Zenon, <3>2
      <4>2. lane_watermarks'[l].durable = IF lane_watermarks[l].written <= watermarks.accepted
                                          THEN lane_watermarks[l].written ELSE lane_watermarks[l].durable
        BY Zenon, <3>1
      <4>3. /\ lane_watermarks[l].written \in Nat /\ lane_watermarks[l].durable \in Nat
        BY Zenon, <3>2
      <4> HIDE DEF Lane, Global
      <4> QED
        BY <3>3, <4>1, <4>2, <4>3, DurableOrder
    <3> QED
      BY Zenon, <3>1, <3>2, <3>4
  <2> QED
    BY Zenon, <1>0, <2>1, <2>2
<1>6. ASSUME NEW n \in Int, NEW points \in [Lanes -> Nat], advance_visible_and_emitted(n, points),
             n <= watermarks.accepted,
             \A l \in Lanes : points[l] <= lane_watermarks[l].accepted + 1
      PROVE  FrontierOrdered'
  <2>1. Global'
    <3>1. /\ watermarks'.accepted = watermarks.accepted /\ watermarks'.written = watermarks.written
          /\ watermarks'.durable = watermarks.durable /\ watermarks'.visible = Larger(watermarks.visible, n)
      BY Zenon, <1>1, <1>6, AdvanceVisible
    <3> QED
      BY <1>6, <1>n, <3>1 DEF Larger
  <2>2. ASSUME NEW l \in Lanes
        PROVE  Lane(l)'
    <3>1. /\ lane_watermarks'[l].accepted = lane_watermarks[l].accepted
          /\ lane_watermarks'[l].written = lane_watermarks[l].written
          /\ lane_watermarks'[l].durable = lane_watermarks[l].durable
          /\ lane_watermarks'[l].visible = IF points[l] = 0 THEN lane_watermarks[l].visible
                                           ELSE Larger(lane_watermarks[l].visible, points[l] - 1)
          /\ watermarks'.durable = watermarks.durable
      BY Zenon, <1>1, <1>6, AdvanceVisible
    <3>2. /\ Lane(l) /\ lane_watermarks[l].accepted \in Nat /\ lane_watermarks[l].written \in Nat
          /\ lane_watermarks[l].durable \in Nat /\ lane_watermarks[l].visible \in Nat
      BY Zenon, <1>n
    <3>3. points[l] \in Nat /\ points[l] <= lane_watermarks[l].accepted + 1
      BY Zenon, <1>6
    <3>4. lane_watermarks[l].accepted >= lane_watermarks'[l].visible
      BY Zenon, <3>1, <3>2, <3>3, VisibleOrder
    <3> QED
      BY Zenon, <3>1, <3>2, <3>4
  <2> QED
    BY Zenon, <1>0, <2>1, <2>2
<1>7. CASE BroadcastAppend \/ BroadcastFence
  BY Zenon, <1>6, <1>7, BroadcastBounds
<1> QED
  BY Zenon, <1>2, <1>3, <1>4, <1>5, <1>7, FrontierMoves

\* VisibleWatermarkSound is inductive.
LEMMA VisibleStep ==
    ASSUME FrontierInv, [Next]_vars
    PROVE  VisibleWatermarkSound'
<1>1. /\ ControlOK /\ FrontierOrdered /\ VisibleWatermarkSound /\ FrontierTypeOK /\ GateTypeOK
  BY Zenon DEF FrontierInv, WatermarksOK, GateInv, HoldersOK, ControlOK, TypeOK
<1>2. /\ visible \in Nat /\ visible' \in Nat /\ visible <= visible'
      /\ \A l \in Lanes : lane_visible[l] \in Nat /\ lane_visible'[l] \in Nat
                          /\ lane_visible[l] <= lane_visible'[l]
  BY Zenon, <1>1, PublishedGrows, ControlStep DEF ControlOK, TypeOK, GateTypeOK
<1>3. ASSUME watermarks'.visible = watermarks.visible,
             \A l \in Lanes : lane_watermarks'[l].visible = lane_watermarks[l].visible
      PROVE  VisibleWatermarkSound'
  <2>1. watermarks.visible \in Nat /\ watermarks.visible < visible
    BY Zenon, <1>1, FrontierNumbers DEF VisibleWatermarkSound
  <2>2. watermarks'.visible < visible'
    <3>1. visible \in Nat /\ visible' \in Nat /\ visible <= visible' /\ watermarks'.visible = watermarks.visible
      BY Zenon, <1>2, <1>3
    <3> QED
      BY <2>1, <3>1
  <2>3. ASSUME NEW l \in Lanes
        PROVE  lane_watermarks'[l].visible = 0 \/ lane_watermarks'[l].visible < lane_visible'[l]
    <3>1. /\ lane_watermarks[l].visible \in Nat /\ lane_watermarks'[l].visible = lane_watermarks[l].visible
          /\ lane_watermarks[l].visible = 0 \/ lane_watermarks[l].visible < lane_visible[l]
      BY Zenon, <1>1, <1>3, FrontierNumbers DEF VisibleWatermarkSound
    <3> QED
      BY <1>2, <3>1
  <2> QED
    BY Zenon, <2>2, <2>3 DEF VisibleWatermarkSound
<1>4. CASE UNCHANGED frontierVars
  BY Zenon, <1>3, <1>4 DEF frontierVars
<1>5. CASE AcceptItem
  BY Zenon, <1>1, <1>3, <1>5, ItemAccepted, AdvanceAccepted
<1>6. CASE /\ WriteFrame /\ pc = "write" /\ work.item \in 1 .. Count(cur)
           /\ advance_written_on_lane(request[cur].lanes[work.item], work.first + work.item - 1)
  BY Zenon, <1>1, <1>3, <1>6, ItemLane, AdvanceWritten DEF InAppend
<1>7. CASE advance_durable_to_accepted
  BY Zenon, <1>1, <1>3, <1>7, AdvanceDurable
<1>8. ASSUME NEW n \in Int, NEW points \in [Lanes -> Nat], advance_visible_and_emitted(n, points),
             n < visible, \A l \in Lanes : points[l] <= lane_visible[l]
      PROVE  VisibleWatermarkSound'
  <2>1. watermarks.visible \in Nat /\ watermarks.visible < visible
        /\ watermarks'.visible = Larger(watermarks.visible, n)
    BY Zenon, <1>1, <1>8, FrontierNumbers, AdvanceVisible DEF VisibleWatermarkSound
  <2>2. watermarks'.visible < visible'
    BY <1>2, <1>8, <2>1 DEF Larger
  <2>3. ASSUME NEW l \in Lanes
        PROVE  lane_watermarks'[l].visible = 0 \/ lane_watermarks'[l].visible < lane_visible'[l]
    <3>1. /\ lane_watermarks[l].visible \in Nat /\ points[l] \in Nat
          /\ lane_watermarks[l].visible = 0 \/ lane_watermarks[l].visible < lane_visible[l]
          /\ lane_watermarks'[l].visible = IF points[l] = 0 THEN lane_watermarks[l].visible
                                           ELSE Larger(lane_watermarks[l].visible, points[l] - 1)
      BY Zenon, <1>1, <1>8, FrontierNumbers, AdvanceVisible DEF VisibleWatermarkSound
    <3> QED
      BY <1>2, <1>8, <3>1 DEF Larger
  <2> QED
    BY Zenon, <2>2, <2>3 DEF VisibleWatermarkSound
<1>9. CASE BroadcastAppend \/ BroadcastFence
  BY Zenon, <1>8, <1>9, BroadcastBounds
<1> QED
  BY Zenon, <1>4, <1>5, <1>6, <1>7, <1>9, FrontierMoves

-----------------------------------------------------------------------------
\* The layer holds initially.
LEMMA FrontierInvInit == Init => FrontierInv
<1> SUFFICES ASSUME Init
             PROVE  FrontierInv
  BY Zenon
<1>1. GateInv
  BY Zenon, GateInvInit
<1>2. /\ watermarks = Points(0) /\ lane_watermarks = [l \in Lanes |-> Points(0)]
      /\ pc = "recv" /\ fence_ledger = NoLedger /\ visible = 1
  BY Zenon DEF Init, WriterInit
<1>3. /\ NoLedger.up_to = 0 /\ \A l \in Lanes : NoLedger.points[l] = 0
      /\ Points(0).accepted = 0 /\ Points(0).written = 0 /\ Points(0).durable = 0
      /\ Points(0).visible = 0
  BY Zenon DEF NoLedger, NoLanePoints, Points
<1>4. AcceptedOK
  BY <1>2, <1>3 DEF AcceptedOK, InAppend, AppendBroadcast
<1>5. FrontierOrdered /\ VisibleWatermarkSound
  BY <1>2, <1>3 DEF FrontierOrdered, VisibleWatermarkSound
<1> QED
  BY Zenon, <1>1, <1>4, <1>5 DEF FrontierInv, WatermarksOK

\* Every step preserves it.
LEMMA FrontierInvStep == FrontierInv /\ [Next]_vars => FrontierInv'
<1> SUFFICES ASSUME FrontierInv, [Next]_vars
             PROVE  FrontierInv'
  BY Zenon
<1>1. GateInv'
  BY Zenon, GateInvStep DEF FrontierInv
<1> QED
  BY Zenon, <1>1, AcceptedStep, OrderedStep, VisibleStep DEF FrontierInv, WatermarksOK

\* The watermark layer holds in every reachable state.
LEMMA FrontierInvariant == Spec => []FrontierInv
BY FrontierInvInit, FrontierInvStep, PTL DEF Spec

\* A caller that waits for a point finds the earlier stages passed: the order
\* snapshot_view asserts holds at all times, up to the comparison the code
\* itself breaks when a segment is rotated.
THEOREM WatermarksOrdered == Spec => []FrontierOrdered
<1>1. FrontierInv => FrontierOrdered
  BY Zenon DEF FrontierInv, WatermarksOK
<1> QED
  BY <1>1, FrontierInvariant, PTL

\* wait_for(Visible, p) returns only when readers see p.
THEOREM VisibleWatermarkBehindGate == Spec => []VisibleWatermarkSound
<1>1. FrontierInv => VisibleWatermarkSound
  BY Zenon DEF FrontierInv, WatermarksOK
<1> QED
  BY <1>1, FrontierInvariant, PTL

\* Waiters are woken in order and never ahead of the readers.
THEOREM WatermarksAlwaysSound == Spec => []WatermarksSound
BY WatermarksOrdered, VisibleWatermarkBehindGate, PTL DEF WatermarksSound

-----------------------------------------------------------------------------
(* The segment files.                                                      *)

\* Frames are only added, and what survives a power loss keeps surviving it.
LEMMA DiskGrows ==
    ASSUME DiskTypeOK, [Next]_vars
    PROVE  /\ Len(log) \in Nat /\ Len(log') \in Nat /\ Len(log) <= Len(log')
           /\ \A i \in 1 .. Len(log) : log'[i] = log[i]
           /\ stable \subseteq stable' /\ stable \subseteq 1 .. Len(log)
<1>1. stable \subseteq stable'
  BY Zenon, DiskFrame DEF diskVars, RotateSegment, RotateFails, WriteFrame, WriteFails, SyncBatch,
     PeriodicSync, SyncBarrier, FinishShutdown, Panic, SyncActive, SyncFails
<1>2. UNCHANGED log \/ \E f : log' = Append(log, f)
  BY Zenon, DiskFrame DEF diskVars, RotateSegment, RotateFails, WriteFrame, WriteFails, SyncBatch,
     PeriodicSync, SyncBarrier, FinishShutdown, Panic, SyncActive, SyncFails
<1>3. log \in Seq(Frame) /\ stable \subseteq 1 .. Len(log) /\ Len(log) \in Nat
  BY DEF DiskTypeOK
<1>4. ASSUME NEW f, log' = Append(log, f)
      PROVE  /\ Len(log') \in Nat /\ Len(log) <= Len(log')
             /\ \A i \in 1 .. Len(log) : log'[i] = log[i]
  BY <1>3, <1>4
<1>5. CASE UNCHANGED log
  BY <1>1, <1>3, <1>5
<1> QED
  BY Zenon, <1>1, <1>2, <1>3, <1>4, <1>5

\* What is on disk stays there.
LEMMA OnDiskKept ==
    ASSUME DiskTypeOK, [Next]_vars, NEW r, NEW s, OnDisk(r, s)
    PROVE  OnDisk(r, s)'
BY Zenon, DiskGrows DEF OnDisk, Holds

\* What the active segment holds it holds while it is active.
LEMMA InActiveKept ==
    ASSUME DiskTypeOK, [Next]_vars, NEW r, NEW s, InActive(r, s), segment' = segment
    PROVE  InActive(r, s)'
<1>1. PICK i \in 1 .. Len(log) : log[i].segment = segment /\ Holds(i, r, s)
  BY Zenon DEF InActive
<1>2. i \in 1 .. Len(log')
  BY <1>1, DiskGrows
<1>3. log'[i] = log[i]
  BY Zenon, <1>1, DiskGrows
<1> QED
  BY Zenon, <1>1, <1>2, <1>3 DEF InActive, Holds

\* A sync of the active segment puts what it holds on disk.
LEMMA SyncedOnDisk ==
    ASSUME NEW r, NEW s, InActive(r, s), UNCHANGED log,
           stable' = stable \cup {i \in 1 .. Len(log) : log[i].segment = segment}
    PROVE  OnDisk(r, s)'
BY Zenon DEF InActive, OnDisk, Holds

\* The active segment changes when it is rotated and after a panic.
LEMMA SegmentFrame ==
    ASSUME [Next]_vars
    PROVE  \/ UNCHANGED segment
           \/ RotateSegment
           \/ Panic
BY Zenon, DiskFrame DEF diskVars, RotateFails, WriteFrame, WriteFails, SyncBatch, PeriodicSync,
   SyncBarrier, FinishShutdown, SyncActive, SyncFails

\* Steps of other threads write nothing.
LEMMA OutsideDisk ==
    ASSUME [Next]_vars, ~WriterMoves
    PROVE  UNCHANGED diskVars
<1>1. ASSUME NEW c \in Clients, ClientStep(c)
      PROVE  UNCHANGED diskVars
  BY Zenon, <1>1 DEF ClientStep, WriterAside, Route, Send, SendFails, SubmitSync, BeginFence, SendBegin,
     SendBeginFails, AwaitBegin, FinishFence, AwaitFinish, DropFence
<1>2. ASSUME HelperSend \/ CloseEvent \/ SendShutdown \/ UNCHANGED vars
      PROVE  UNCHANGED diskVars
  BY Zenon, <1>2 DEF WriterAside, HelperSend, CloseEvent, SendShutdown, vars, writerVars
<1> QED
  BY Zenon, <1>1, <1>2 DEF Next

\* The frame of an item goes to the active segment.
LEMMA FrameWritten ==
    ASSUME ControlOK, WriteFrame, work.item \in 1 .. Count(cur),
           NEW r, NEW s, r = cur, s = work.first + work.item - 1
    PROVE  InActive(r, s)'
<1>1. log \in Seq(Frame) /\ log' = Append(log, FrameAt(work.item)) /\ UNCHANGED <<cur, segment>>
  BY Zenon DEF ControlOK, TypeOK, DiskTypeOK, WriteFrame
<1>2. Len(log') = Len(log) + 1 /\ log'[Len(log) + 1] = FrameAt(work.item) /\ Len(log) \in Nat
  BY <1>1
<1>3. Count(cur) \in Nat /\ pc = "write"
  BY Zenon, CurrentCommand DEF WriteFrame, Busy
<1>4. FrameAt(work.item) = [kind |-> "event", seq |-> s, request |-> r, segment |-> segment]
  BY <1>3 DEF FrameAt
<1>5. Len(log) + 1 \in 1 .. Len(log')
  BY <1>2
<1>6. /\ log'[Len(log) + 1].segment = segment' /\ log'[Len(log) + 1].kind = "event"
      /\ log'[Len(log) + 1].request = r /\ log'[Len(log) + 1].seq = s
  BY <1>1, <1>2, <1>4
<1> QED
  BY Zenon, <1>5, <1>6 DEF InActive, Holds

-----------------------------------------------------------------------------
(* Batches.                                                                *)

\* The inductive invariant of the batches on disk.
DiskInv == ControlOK /\ BatchDiskOK

\* Indexed events stay, on disk if they are of a batch.
LEMMA IndexedStep ==
    ASSUME DiskInv, [Next]_vars
    PROVE  \A e \in entries' :
               e.request <= issued' /\ (Batch(e.request)' => OnDisk(e.request, e.seq)')
<1>1. /\ ControlOK /\ BatchDiskOK /\ DiskTypeOK /\ issued \in Nat /\ issued' \in Nat /\ issued <= issued'
      /\ \A r \in 1 .. issued : request'[r] = request[r]
      /\ \A e \in entries : e.request \in Nat /\ e.request \in 1 .. issued
  <2>1. ControlOK /\ BatchDiskOK /\ DiskTypeOK /\ issued \in Nat /\ \A e \in entries : e.request \in Requests
    BY Zenon DEF DiskInv, ControlOK, TypeOK, ControlTypeOK, IndexTypeOK
  <2>2. \A e \in entries : e.request <= issued
    BY Zenon, <2>1 DEF BatchDiskOK
  <2>3. issued' \in Nat /\ issued <= issued' /\ \A r \in 1 .. issued : request'[r] = request[r]
    BY Zenon, <2>1, CommandsFixed
  <2> QED
    BY <2>1, <2>2, <2>3, WriterAssumption DEF Requests
<1>2. ASSUME NEW e \in entries
      PROVE  e.request <= issued' /\ (Batch(e.request)' => OnDisk(e.request, e.seq)')
  <2>1. e.request <= issued'
    BY <1>1
  <2>2. Batch(e.request)' => Batch(e.request)
    BY Zenon, <1>1 DEF Batch
  <2>3. Batch(e.request) => OnDisk(e.request, e.seq)
    BY Zenon, <1>1 DEF BatchDiskOK
  <2> QED
    BY Zenon, <1>1, <2>1, <2>2, <2>3, OnDiskKept
<1>3. CASE IndexAppend
  <2>1. pc = "index" /\ UNCHANGED request
    BY Zenon, <1>3 DEF IndexAppend
  <2>2. cur \in 1 .. issued /\ cur \in Requests
    BY Zenon, <1>1, <2>1, CurrentCommand DEF ControlOK, StepOK, Busy
  <2>3. ASSUME NEW e \in entries', e \notin entries
        PROVE  /\ e.request = cur
               /\ \E k \in 1 .. Count(cur) : e.seq = work.first + k - 1
    <3>1. PICK k \in 1 .. Count(cur) : e = [seq |-> work.first + k - 1, lane |-> request[cur].lanes[k],
                                            request |-> cur]
      BY Zenon, <1>3, <2>3 DEF IndexAppend
    <3> QED
      BY <3>1
  <2>4. ASSUME NEW e \in entries', e \notin entries
        PROVE  e.request <= issued' /\ (Batch(e.request)' => OnDisk(e.request, e.seq)')
    <3>1. e.request = cur /\ e.request <= issued'
      BY <1>1, <2>2, <2>3, <2>4
    <3>2. Batch(e.request)' => Batch(cur)
      BY Zenon, <2>1, <3>1 DEF Batch
    <3>3. Batch(cur) => OnDisk(e.request, e.seq)
      BY Zenon, <1>1, <2>1, <2>3, <2>4, <3>1 DEF BatchDiskOK
    <3> QED
      BY Zenon, <1>1, <3>1, <3>2, <3>3, OnDiskKept
  <2> QED
    BY Zenon, <1>2, <2>4
<1>4. CASE ~IndexAppend
  <2>1. UNCHANGED entries
    BY Zenon, <1>4, IndexFrame DEF indexVars, BroadcastAppend, BroadcastFence, PersistCancel,
       AutoCancelFence, Panic
  <2> QED
    BY Zenon, <1>2, <2>1
<1> QED
  BY Zenon, <1>3, <1>4

\* BatchDiskOK is inductive.
LEMMA BatchDiskStep ==
    ASSUME DiskInv, [Next]_vars
    PROVE  BatchDiskOK'
<1>1. ControlOK /\ BatchDiskOK /\ DiskTypeOK /\ LoopTypeOK /\ work.first \in Nat /\ work.item \in Nat
  BY Zenon DEF DiskInv, ControlOK, TypeOK, LoopTypeOK
<1>2. \A e \in entries' : e.request <= issued' /\ (Batch(e.request)' => OnDisk(e.request, e.seq)')
  BY Zenon, IndexedStep
<1>3. ASSUME pc' \notin {"write", "sync_batch", "index"}
      PROVE  BatchDiskOK'
  BY Zenon, <1>2, <1>3 DEF BatchDiskOK
<1>4. CASE ~WriterMoves
  <2>1. UNCHANGED <<pc, cur, work>> /\ (Busy => request'[cur] = request[cur])
    BY Zenon, <1>1, <1>4, OutsideFrame DEF loopVars
  <2>2. UNCHANGED segment
    BY Zenon, <1>4, OutsideDisk DEF diskVars
  <2>3. pc \in {"write", "sync_batch", "index"} =>
            (Batch(cur)' <=> Batch(cur)) /\ Count(cur)' = Count(cur)
    BY Zenon, <2>1 DEF Busy, Batch, Count
  <2>4. \A k \in 1 .. Count(cur) :
            /\ InActive(cur, work.first + k - 1) => InActive(cur, work.first + k - 1)'
            /\ OnDisk(cur, work.first + k - 1) => OnDisk(cur, work.first + k - 1)'
    BY Zenon, <1>1, <2>1, <2>2, InActiveKept, OnDiskKept
  <2> QED
    BY Zenon, <1>1, <1>2, <2>1, <2>3, <2>4 DEF BatchDiskOK
<1>5. CASE StartAppend
  BY Zenon, <1>3, <1>5 DEF StartAppend
<1>6. CASE AcceptItem
  <2>1. /\ pc' \in {"accept", "rotate", "write"} /\ UNCHANGED <<cur, request>>
        /\ work.item \in 1 .. Count(cur) /\ work.item \in Nat /\ Count(cur) \in Nat
    BY Zenon, <1>1, <1>6, AcceptFrame, CurrentCommand DEF Busy
  <2>2. Batch(cur) /\ pc' = "write" => work'.item = 0
    BY <1>1, <1>6, <2>1 DEF AcceptItem, LoopTypeOK
  <2>3. ASSUME pc' = "write", Batch(cur)'
        PROVE  \A k \in 1 .. Count(cur)' : ~(k < work'.item)
    BY <2>1, <2>2, <2>3 DEF Batch
  <2> QED
    BY Zenon, <1>2, <2>1, <2>3 DEF BatchDiskOK
<1>7. CASE RotateSegment
  <2>1. pc = "rotate" /\ pc' = "write" /\ UNCHANGED <<cur, request, work>>
    BY Zenon, <1>7 DEF RotateSegment
  <2>2. work.item \in {0, 1} /\ Count(cur) \in Nat
    BY Zenon, <1>1, <2>1, CurrentCommand DEF ControlOK, StepOK, Busy
  <2>3. \A k \in 1 .. Count(cur)' : ~(k < work'.item)
    BY <2>1, <2>2
  <2> QED
    BY Zenon, <1>2, <2>1, <2>3 DEF BatchDiskOK
<1>8. CASE WriteFrame
  <2>1. /\ pc = "write" /\ UNCHANGED <<cur, request, segment>>
        /\ work' = [work EXCEPT !.item = @ + 1]
        /\ pc' = IF Batch(cur) THEN IF work.item <= Count(cur) THEN "write" ELSE "sync_batch" ELSE "index"
    BY Zenon, <1>8 DEF WriteFrame
  <2>2. Count(cur) \in Nat /\ Count(cur)' = Count(cur) /\ (Batch(cur)' <=> Batch(cur))
    BY Zenon, <1>1, <2>1, CurrentCommand DEF Busy, Count, Batch
  <2>3. work'.item = work.item + 1 /\ work'.first = work.first
    BY <1>1, <2>1 DEF LoopTypeOK
  <2>4. CASE ~Batch(cur)
    BY Zenon, <1>2, <2>1, <2>2, <2>4 DEF BatchDiskOK
  <2>5. CASE Batch(cur)
    <3>1. ASSUME NEW k \in 1 .. Count(cur), k < work.item
          PROVE  InActive(cur, work.first + k - 1)'
      <4>1. InActive(cur, work.first + k - 1)
        BY Zenon, <1>1, <2>1, <2>5, <3>1 DEF BatchDiskOK
      <4> QED
        BY Zenon, <1>1, <2>1, <2>3, <4>1, InActiveKept
    <3>2. ASSUME NEW k \in 1 .. Count(cur), k = work.item
          PROVE  InActive(cur, work.first + k - 1)'
      BY Zenon, <1>1, <1>8, <2>1, <2>3, <3>2, FrameWritten
    <3>3. ASSUME NEW k \in 1 .. Count(cur)', pc' = "sync_batch" \/ k < work'.item
          PROVE  k \in 1 .. Count(cur) /\ (k < work.item \/ k = work.item)
      BY <1>1, <2>1, <2>2, <2>3, <2>5, <3>3
    <3>4. \A k \in 1 .. Count(cur)' :
              pc' = "sync_batch" \/ k < work'.item => InActive(cur, work.first + k - 1)'
      BY Zenon, <3>1, <3>2, <3>3
    <3>5. pc' \in {"write", "sync_batch"}
      BY Zenon, <2>1, <2>5
    <3> QED
      BY Zenon, <1>2, <2>2, <2>5, <3>4, <3>5 DEF BatchDiskOK
  <2> QED
    BY Zenon, <2>4, <2>5
<1>9. CASE SyncBatch /\ pc' = "index"
  <2>1. pc = "sync_batch" /\ LoopTypeOK
    BY Zenon, <1>1, <1>9 DEF SyncBatch
  <2>2. SyncActive /\ UNCHANGED <<cur, request, work>>
    BY Zenon, <1>9, <2>1, Settled DEF SyncBatch, FailAppend
  <2>3. Count(cur)' = Count(cur)
    BY Zenon, <2>2 DEF Count
  <2>4. ASSUME NEW k \in 1 .. Count(cur)
        PROVE  OnDisk(cur, work.first + k - 1)'
    <3>1. InActive(cur, work.first + k - 1)
      BY Zenon, <1>1, <2>1 DEF BatchDiskOK
    <3> QED
      BY Zenon, <2>2, <3>1, SyncedOnDisk DEF SyncActive
  <2> QED
    BY Zenon, <1>2, <1>9, <2>3, <2>4 DEF BatchDiskOK
<1>10. CASE IndexAppend
  BY Zenon, <1>1, <1>3, <1>10, Settled DEF IndexAppend
<1>11. CASE PublishAppend
  BY Zenon, <1>3, <1>11 DEF PublishAppend
<1>12. CASE WriterMoves /\ ~(StartAppend \/ AcceptItem \/ Continue \/ IndexAppend \/ PublishAppend)
  BY Zenon, <1>1, <1>3, <1>12, RestFrame DEF InAppend
<1> QED
  BY Zenon, <1>4, <1>5, <1>6, <1>7, <1>8, <1>9, <1>10, <1>11, <1>12 DEF Continue

\* The batches of a store just opened are on disk: there are none.
LEMMA DiskInvInit == Init => DiskInv
<1> SUFFICES ASSUME Init
             PROVE  DiskInv
  BY Zenon
<1>1. pc = "recv" /\ entries = {}
  BY Zenon DEF Init, WriterInit
<1> QED
  BY Zenon, <1>1, ControlInit DEF DiskInv, BatchDiskOK

\* Every step preserves it.
LEMMA DiskInvStep == DiskInv /\ [Next]_vars => DiskInv'
BY Zenon, ControlStep, BatchDiskStep DEF DiskInv

\* An acknowledged batch survives a power loss, whatever faults and panics the
\* writer meets: no event of a batch is even indexed before the fsync of the one
\* segment all its frames went to.
THEOREM BatchesSurvive == Spec => []AckedBatchSurvives
<1>1. DiskInv => AckedBatchSurvives
  BY Zenon DEF DiskInv, BatchDiskOK, AckedBatchSurvives, EntriesOf, Survives, OnDisk, Holds
<1> QED
  BY <1>1, DiskInvInit, DiskInvStep, PTL DEF Spec

-----------------------------------------------------------------------------
(* Sync.                                                                   *)

\* The inductive invariant of a sync, while the writer does not panic.
SyncInv == DiskInv /\ SyncedOK

\* Only fenced appends wait in the ledger.
LEMMA LedgerFencedStep ==
    ASSUME SyncInv, [Next]_vars
    PROVE  \A r \in fence_ledger'.requests : r <= issued' /\ Fenced(r)'
<1>1. /\ ControlOK /\ SyncedOK /\ issued \in Nat /\ issued' \in Nat /\ issued <= issued'
      /\ \A r \in 1 .. issued : request'[r] = request[r]
      /\ fence_ledger.requests \subseteq Requests
      /\ NoLedger.requests = {} /\ \A t : [NoLedger EXCEPT !.token = t].requests = {}
  BY Zenon, CommandsFixed, CommandIds DEF SyncInv, DiskInv, NoLedger
<1>2. \A r \in fence_ledger.requests : r <= issued' /\ Fenced(r)'
  <2>1. \A r \in fence_ledger.requests : r \in 1 .. issued /\ Fenced(r)
    BY <1>1, WriterAssumption DEF SyncedOK, Requests
  <2>2. \A r \in fence_ledger.requests : Fenced(r)'
    BY Zenon, <1>1, <2>1 DEF Fenced
  <2>3. \A r \in fence_ledger.requests : r <= issued'
    BY <1>1, <2>1
  <2> QED
    BY Zenon, <2>2, <2>3
<1>3. CASE IndexAppend /\ Fenced(cur)
  <2>1. fence_ledger'.requests = fence_ledger.requests \cup {cur}
    BY Zenon, <1>1, <1>3 DEF IndexAppend, ControlOK, TypeOK, LedgerTypeOK
  <2>2. cur \in 1 .. issued
    BY Zenon, <1>1, <1>3 DEF IndexAppend, ControlOK, StepOK, Busy
  <2>3. Fenced(cur)' /\ UNCHANGED request
    BY Zenon, <1>1, <1>3, Settled DEF IndexAppend, Fenced, ControlOK, TypeOK
  <2>4. cur <= issued'
    BY <1>1, <2>2
  <2> QED
    BY Zenon, <1>2, <1>3, <2>1, <2>3, <2>4 DEF Fenced
<1>4. CASE UNCHANGED fence_ledger \/ fence_ledger'.requests = {}
  BY Zenon, <1>2, <1>4
<1>5. CASE ~(IndexAppend /\ Fenced(cur))
  <2>1. UNCHANGED fence_ledger \/ fence_ledger'.requests = {}
    BY Zenon, <1>1, <1>5, LedgerFrame DEF IndexAppend, ExecuteBegin, DeferredBegin, BeginLedger, CommitFails,
       BroadcastFence, PersistCancel, DeferredShutdown, AutoCancelFence, Panic
  <2> QED
    BY Zenon, <1>4, <2>1
<1> QED
  BY Zenon, <1>3, <1>5

\* An event that is on disk or in the active segment stays there, while the
\* writer does not panic.
LEMMA PlacedStep ==
    ASSUME DiskTypeOK, [Next]_vars, ~Panic, NEW r, NEW s, OnDisk(r, s) \/ InActive(r, s)
    PROVE  OnDisk(r, s)' \/ InActive(r, s)'
<1>1. CASE OnDisk(r, s)
  BY Zenon, <1>1, OnDiskKept
<1>2. CASE InActive(r, s) /\ UNCHANGED segment
  BY Zenon, <1>2, InActiveKept
<1>3. CASE InActive(r, s) /\ RotateSegment
  BY Zenon, <1>3, SyncedOnDisk DEF RotateSegment
<1> QED
  BY Zenon, <1>1, <1>2, <1>3, SegmentFrame

\* SyncedOK is inductive while the writer does not panic.
LEMMA SyncedStep ==
    ASSUME SyncInv, [Next]_vars, ~Panic
    PROVE  SyncedOK'
<1>1. /\ ControlOK /\ BatchDiskOK /\ SyncedOK /\ DiskTypeOK /\ LoopTypeOK
      /\ work.first \in Nat /\ work.item \in Nat
  BY Zenon DEF SyncInv, DiskInv, ControlOK, TypeOK, LoopTypeOK
<1>2. \A e \in entries : OnDisk(e.request, e.seq)' \/ InActive(e.request, e.seq)'
  BY Zenon, <1>1, PlacedStep DEF SyncedOK
<1>3. \A r \in fence_ledger'.requests : r <= issued' /\ Fenced(r)'
  BY Zenon, LedgerFencedStep
<1>4. ASSUME UNCHANGED entries, pc' \notin {"index", "deferred"}
      PROVE  SyncedOK'
  BY Zenon, <1>2, <1>3, <1>4 DEF SyncedOK
<1>5. CASE ~WriterMoves
  <2>1. UNCHANGED <<pc, cur, work, barrier_ok, entries>> /\ (Busy => request'[cur] = request[cur])
    BY Zenon, <1>1, <1>5, OutsideFrame DEF loopVars, indexVars
  <2>2. UNCHANGED segment
    BY Zenon, <1>5, OutsideDisk DEF diskVars
  <2>3. pc = "index" => (Batch(cur)' <=> Batch(cur))
    BY Zenon, <2>1 DEF Busy, Batch
  <2>4. InActive(cur, work.first) => InActive(cur, work.first)'
    BY Zenon, <1>1, <2>1, <2>2, InActiveKept
  <2>5. \A e \in entries : OnDisk(e.request, e.seq) => OnDisk(e.request, e.seq)'
    BY Zenon, <1>1, OnDiskKept
  <2> QED
    BY Zenon, <1>1, <1>2, <1>3, <2>1, <2>3, <2>4, <2>5 DEF SyncedOK
<1>6. CASE StartAppend \/ AcceptItem \/ RotateSegment \/ PublishAppend
  BY Zenon, <1>1, <1>4, <1>6, AcceptFrame DEF StartAppend, RotateSegment, PublishAppend, indexVars
<1>7. CASE WriteFrame
  <2>1. /\ pc = "write" /\ UNCHANGED <<cur, request, entries>>
        /\ work' = [work EXCEPT !.item = @ + 1]
        /\ pc' = IF Batch(cur) THEN IF work.item <= Count(cur) THEN "write" ELSE "sync_batch" ELSE "index"
    BY Zenon, <1>7 DEF WriteFrame, indexVars
  <2>2. CASE Batch(cur)
    BY Zenon, <1>4, <2>1, <2>2
  <2>3. CASE ~Batch(cur)
    <3>1. work.item = 1 /\ Count(cur) \in Nat /\ Count(cur) > 0 /\ work'.first = work.first
      BY <1>1, <2>1, <2>3, CurrentCommand DEF ControlOK, StepOK, Busy, InAppend, LoopTypeOK
    <3>2. work.item \in 1 .. Count(cur) /\ work.first = work.first + work.item - 1
      BY <1>1, <3>1
    <3>3. InActive(cur, work.first)'
      BY Zenon, <1>1, <1>7, <2>1, <3>1, <3>2, FrameWritten
    <3>4. pc' = "index"
      BY Zenon, <2>1, <2>3
    <3> QED
      BY Zenon, <1>2, <1>3, <2>1, <3>3, <3>4 DEF SyncedOK
  <2> QED
    BY Zenon, <2>2, <2>3
<1>8. CASE SyncBatch /\ pc' = "index"
  <2>1. pc = "sync_batch" /\ UNCHANGED entries
    BY Zenon, <1>8 DEF SyncBatch, indexVars
  <2>2. UNCHANGED <<cur, request>>
    BY Zenon, <1>1, <1>8, Settled DEF SyncBatch, FailAppend
  <2>3. Batch(cur)'
    BY Zenon, <1>1, <2>1, <2>2 DEF BatchDiskOK, Batch
  <2> QED
    BY Zenon, <1>2, <1>3, <1>8, <2>1, <2>3 DEF SyncedOK
<1>9. CASE IndexAppend
  <2>1. pc = "index" /\ UNCHANGED segment /\ pc' \notin {"index", "deferred"}
    BY Zenon, <1>1, <1>9, Settled DEF IndexAppend, diskVars
  <2>2. ASSUME NEW e \in entries', e \notin entries
        PROVE  OnDisk(e.request, e.seq)' \/ InActive(e.request, e.seq)'
    <3>1. PICK k \in 1 .. Count(cur) : e = [seq |-> work.first + k - 1, lane |-> request[cur].lanes[k],
                                            request |-> cur]
      BY Zenon, <1>9, <2>2 DEF IndexAppend
    <3>2. e.request = cur /\ e.seq = work.first + k - 1
      BY <3>1
    <3>3. CASE Batch(cur)
      BY Zenon, <1>1, <2>1, <3>2, <3>3, OnDiskKept DEF BatchDiskOK
    <3>4. CASE ~Batch(cur)
      <4>1. request[cur].op \in {"Append", "FenceAppend"} /\ cur \in Requests
        BY Zenon, <1>1, <2>1, <3>4, CurrentCommand DEF ControlOK, StepOK, InAppend, Busy, AppendOps, Batch
      <4>2. Count(cur) = 1
        BY Zenon, <1>1, <4>1 DEF ControlOK, CommandsOK, WellFormed, Count
      <4>3. e.seq = work.first
        BY <1>1, <3>2, <4>2
      <4> QED
        BY Zenon, <1>1, <2>1, <3>2, <3>4, <4>3, InActiveKept DEF SyncedOK
    <3> QED
      BY Zenon, <3>3, <3>4
  <2> QED
    BY Zenon, <1>2, <1>3, <2>1, <2>2 DEF SyncedOK
<1>10. CASE SyncBarrier
  <2>1. pc' = "deferred" /\ UNCHANGED entries
    BY Zenon, <1>10 DEF SyncBarrier, indexVars
  <2>2. ASSUME barrier_ok', NEW e \in entries
        PROVE  OnDisk(e.request, e.seq)'
    <3>1. SyncActive
      BY Zenon, <1>10, <2>2 DEF SyncBarrier
    <3> QED
      BY Zenon, <1>1, <3>1, OnDiskKept, SyncedOnDisk DEF SyncedOK, SyncActive
  <2> QED
    BY Zenon, <1>2, <1>3, <2>1, <2>2 DEF SyncedOK
<1>11. CASE WriterMoves /\ ~(\/ StartAppend \/ AcceptItem \/ Continue \/ IndexAppend \/ PublishAppend
                             \/ SyncBarrier)
  <2>1. UNCHANGED entries /\ pc' # "index"
    BY Zenon, <1>1, <1>11, RestFrame DEF InAppend
  <2>2. pc' # "deferred"
    <3>1. ASSUME NEW delta, Settle(delta) \/ SettleSynced
          PROVE  pc' # "deferred"
      BY Zenon, <1>1, <3>1, Settled
    <3>2. CASE AppendStep
      BY Zenon, <1>11, <3>1, <3>2 DEF AppendStep, RefuseAppend, RotateFails, WriteFails, SyncBatch,
         BroadcastAppend, FailAppend, Continue
    <3>3. CASE FenceStep
      BY Zenon, <3>1, <3>3 DEF FenceStep, ExecuteBegin, DeferredBegin, CommitRefused, CommitFails, CommitFence,
         BroadcastFence, CancelRefused, CancelFence, PersistCancel
    <3>4. CASE LoopStep
      BY Zenon, <1>11, <3>1, <3>4 DEF LoopStep, Receive, Take, EndDrain, PeriodicSync, DeferredSync,
         DeferredShutdown, StartShutdown, AutoCancelFence, FinishShutdown
    <3> QED
      BY Zenon, <1>11, <3>2, <3>3, <3>4 DEF WriterMoves, WriterStep
  <2> QED
    BY Zenon, <1>4, <2>1, <2>2
<1> QED
  BY Zenon, <1>5, <1>6, <1>7, <1>8, <1>9, <1>10, <1>11 DEF Continue

\* A successful answer to a Sync comes from its own deferred reply.
LEMMA SyncAnswered ==
    ASSUME SyncInv, [Next]_vars, NEW r \in Requests, request[r].op = "Sync",
           reply[r] # "ok", reply'[r] = "ok"
    PROVE  DeferredSync /\ r = cur /\ barrier_ok
<1>1. ControlOK /\ SyncedOK /\ reply \in [Requests -> Replies]
  BY Zenon, CommandIds DEF SyncInv, DiskInv
<1>2. \A q : Fenced(q) \/ request[q].op \in AppendOps \cup FenceOps \cup {"Shutdown"} => q # r
  BY Zenon DEF Fenced, AppendOps, FenceOps
<1>3. ASSUME NEW q \in Requests, NEW how, reply' = [reply EXCEPT ![q] = how], how # "ok"
      PROVE  FALSE
  BY Zenon, <1>1, <1>3
<1>4. ASSUME NEW rs, NEW how, Answer(rs, how), how # "ok" \/ \A q \in rs : q # r
      PROVE  FALSE
  BY Zenon, <1>4 DEF Answer
<1>5. ~UNCHANGED reply
  BY Zenon
<1>6. WriterMoves
  <2>1. ASSUME NEW command, PrepareAndEnqueue(command)
        PROVE  FALSE
    <3>1. issued + 1 \in Requests
      BY <1>1, <2>1, WriterAssumption DEF PrepareAndEnqueue, Prepare, Requests, ControlOK, TypeOK,
         ControlTypeOK
    <3> QED
      BY Zenon, <1>3, <2>1, <3>1 DEF PrepareAndEnqueue, Enqueue
  <2>2. ASSUME NEW c \in Clients, Send(c) \/ SendFails(c)
        PROVE  FALSE
    <3>1. client[c].req \in Requests
      BY Zenon, <1>1, <2>2, CommandIds DEF Send, SendFails
    <3> QED
      BY Zenon, <1>3, <2>2, <3>1 DEF Send, SendFails, Enqueue
  <2>3. ASSUME NEW c \in Clients,
               \/ Route(c) \/ SubmitSync(c) \/ BeginFence(c) \/ SendBegin(c) \/ SendBeginFails(c)
               \/ AwaitBegin(c) \/ FinishFence(c) \/ AwaitFinish(c) \/ DropFence(c)
        PROVE  FALSE
    BY Zenon, <1>5, <2>1, <2>3 DEF Route, SubmitSync, BeginFence, SendBegin, SendBeginFails, AwaitBegin,
       FinishFence, AwaitFinish, DropFence
  <2>4. ~(HelperSend \/ CloseEvent \/ SendShutdown \/ UNCHANGED vars)
    BY Zenon, <1>5, <2>1 DEF HelperSend, CloseEvent, SendShutdown, vars, writerVars
  <2> QED
    BY Zenon, <2>2, <2>3, <2>4 DEF Next, ClientStep
<1>7. ~AppendStep
  <2>1. ~(StartAppend \/ RefuseAppend \/ AcceptItem \/ RotateSegment \/ RotateFails \/ WriteFrame
          \/ WriteFails \/ SyncBatch \/ IndexAppend \/ PublishAppend)
    BY Zenon, <1>4, <1>5 DEF StartAppend, RefuseAppend, AcceptItem, RotateSegment, RotateFails, WriteFrame,
       WriteFails, SyncBatch, IndexAppend, PublishAppend, FailAppend
  <2>2. ~BroadcastAppend
    BY Zenon, <1>2, <1>4 DEF BroadcastAppend
  <2> QED
    BY Zenon, <2>1, <2>2 DEF AppendStep
<1>8. ~FenceStep
  <2>1. ~(ExecuteBegin \/ DeferredBegin)
    BY Zenon, <1>2, <1>4 DEF ExecuteBegin, DeferredBegin, BeginLedger, FenceOps
  <2>2. ~(CommitRefused \/ CommitFence \/ CancelRefused \/ CancelFence)
    BY Zenon, <1>4, <1>5 DEF CommitRefused, CommitFence, CancelRefused, CancelFence
  <2>3. ~CommitFails
    BY Zenon DEF CommitFails
  <2>4. ~BroadcastFence
    BY Zenon, <1>1, <1>2, <1>4 DEF BroadcastFence, FenceOps, SyncedOK
  <2>5. ~PersistCancel
    <3>1. pc = "persist" => request[cur].op = "CancelVisibilityFence"
      BY Zenon, <1>1 DEF ControlOK, StepOK
    <3> QED
      BY Zenon, <1>2, <3>1 DEF PersistCancel, FenceOps
  <2> QED
    BY Zenon, <2>1, <2>2, <2>3, <2>4, <2>5 DEF FenceStep
<1>9. ~(\/ Receive \/ EndDrain \/ PeriodicSync \/ SyncBarrier \/ StartShutdown \/ AutoCancelFence
        \/ DeferredShutdown \/ FinishShutdown)
  <2>1. ~(Receive \/ EndDrain \/ PeriodicSync \/ SyncBarrier \/ StartShutdown \/ AutoCancelFence)
    BY Zenon, <1>4, <1>5 DEF Receive, EndDrain, PeriodicSync, SyncBarrier, StartShutdown, AutoCancelFence
  <2>2. ~DeferredShutdown
    BY Zenon, <1>2 DEF DeferredShutdown
  <2>3. ~FinishShutdown
    BY Zenon, <1>2 DEF FinishShutdown, Draining
  <2> QED
    BY Zenon, <2>1, <2>2, <2>3
<1>10. ~Panic
  BY Zenon, <1>4 DEF Panic
<1>11. DeferredSync
  BY Zenon, <1>6, <1>7, <1>8, <1>9, <1>10 DEF WriterMoves, WriterStep, LoopStep
<1> QED
  BY Zenon, <1>4, <1>11 DEF DeferredSync

\* While the writer does not panic, every indexed event is on disk or in the
\* segment the next sync writes.
LEMMA SyncInvariant ==
    ASSUME MaxPanics = 0
    PROVE  Spec => []SyncInv
<1>1. Init => SyncInv
  <2> SUFFICES ASSUME Init
               PROVE  SyncInv
    BY Zenon
  <2>1. pc = "recv" /\ entries = {} /\ fence_ledger.requests = {}
    BY Zenon DEF Init, WriterInit, NoLedger
  <2> QED
    BY Zenon, <2>1, DiskInvInit DEF SyncInv, SyncedOK
<1>2. SyncInv /\ [Next]_vars => SyncInv'
  <2> SUFFICES ASSUME SyncInv, [Next]_vars
               PROVE  SyncInv'
    BY Zenon
  <2>1. panics \in Nat
    BY Zenon DEF SyncInv, DiskInv, ControlOK, TypeOK, BudgetTypeOK
  <2>2. ~(panics < MaxPanics)
    BY <2>1
  <2>3. ~Panic
    BY Zenon, <2>2 DEF Panic
  <2> QED
    BY Zenon, <2>3, SyncedStep, DiskInvStep DEF SyncInv
<1> QED
  BY <1>1, <1>2, PTL DEF Spec

\* A Sync that reports success leaves no indexed event unsynced, as long as the
\* writer does not panic: the barrier syncs only the active segment, and that is
\* enough because every earlier segment was synced when it was left.  (A panic
\* leaves the active segment behind without a sync.)
THEOREM SyncCoversAll ==
    ASSUME MaxPanics = 0
    PROVE  Spec => SyncCovers
<1>1. SyncInv /\ [Next]_vars =>
          [\A r \in Requests :
              request[r].op = "Sync" /\ reply[r] # "ok" /\ reply'[r] = "ok" =>
                  \A e \in entries : Survives(e)']_vars
  <2> SUFFICES ASSUME SyncInv, [Next]_vars,
                      NEW r \in Requests, request[r].op = "Sync", reply[r] # "ok", reply'[r] = "ok",
                      NEW e \in entries
               PROVE  Survives(e)'
    BY Zenon
  <2>1. pc = "deferred" /\ barrier_ok /\ DiskTypeOK
    BY Zenon, SyncAnswered DEF DeferredSync, SyncInv, DiskInv, ControlOK, TypeOK
  <2>2. OnDisk(e.request, e.seq)
    BY Zenon, <2>1 DEF SyncInv, SyncedOK
  <2>3. OnDisk(e.request, e.seq)'
    BY Zenon, <2>1, <2>2, OnDiskKept
  <2> QED
    BY Zenon, <2>3 DEF Survives, OnDisk, Holds
<1> QED
  BY <1>1, SyncInvariant, PTL DEF Spec, SyncCovers
=============================================================================
