------------------------- MODULE WriteJournalProofs -------------------------
(***************************************************************************)
(* For one producer and no panics: where every event is, that the two kinds*)
(* of readers agree, and that the store implements the abstract journal.   *)
(***************************************************************************)
EXTENDS WriteFenceProofs

\* The inductive invariant of the refinement.
JournalInv == StagedInv /\ PlacedOK /\ TransactionOK

\* Parts of the invariant.
LEMMA JournalParts ==
    ASSUME JournalInv
    PROVE  /\ StagedInv /\ PlacedOK /\ TransactionOK /\ HidingInv /\ StagedOK /\ GateInv /\ ControlOK /\ RespondersOK
           /\ HeldOK /\ HiddenOK /\ CancelledOK /\ SequencesOK /\ PointsOK /\ BoundsOK /\ FenceRangeSound /\ LedgerOK
           /\ \A e \in entries : e.seq \in Nat /\ e.lane \in Lanes /\ e.request \in Requests
BY Zenon, StagedParts, HidingParts DEF JournalInv, IndexTypeOK

\* A command that has events was sent, and an unanswered one with events waits in
\* the ledger or is being published.
LEMMA EntriesSent ==
    ASSUME GateInv, HeldOK, NEW e \in entries
    PROVE  e.request \in 1 .. issued /\ issued \in Nat
<1>1. /\ issued \in Nat /\ e.request \in Requests /\ RespondersOK
  BY Zenon, CommandIds DEF GateInv, HoldersOK, ControlOK, TypeOK, IndexTypeOK
<1>2. reply[e.request] # "unsent"
  BY Zenon DEF HeldOK
<1> QED
  BY <1>1, <1>2 DEF RespondersOK, Requests

\* Before it is indexed, the append at hand has no events.
LEMMA CurrentNew ==
    ASSUME GateInv, HeldOK, Executing, pc \notin {"publish", "broadcast"}
    PROVE  EntriesOf(cur) = {}
<1>1. /\ cur \in Requests /\ reply[cur] = "sent" /\ cur \notin fence_ledger.requests
  BY Zenon, CurrentHeld DEF GateInv, HoldersOK
<1> QED
  BY Zenon, <1>1 DEF EntriesOf, HeldOK

\* The events of the append at hand, once it is indexed: each is below the bound
\* its lane gets.
LEMMA CurrentEvents ==
    ASSUME JournalInv, pc = "publish" \/ AppendBroadcast
    PROVE  /\ EntriesOf(cur) # {} /\ cur \in Requests /\ ~Fenced(cur) /\ request[cur].op \in AppendOps
           /\ work.first \in Nat /\ LastSeq \in Nat
           /\ \A e \in EntriesOf(cur) :
                  /\ e.seq >= work.first /\ e.seq < LastSeq + 1 /\ e.seq < work.points[e.lane]
                  /\ e.seq \notin cancelled_ranges
           /\ \A e \in entries : e.request # cur => e.seq < work.first
<1>1. Busy /\ Executing
  BY Zenon DEF Busy, Executing, AppendBroadcast
<1>2. request[cur].op \in AppendOps /\ ~Fenced(cur)
  <2>1. CASE pc = "publish"
    BY Zenon, <2>1, JournalParts DEF ControlOK, StepOK, InAppend
  <2>2. CASE AppendBroadcast
    <3>1. request[cur].op \in {"Append", "AppendBatch"}
      BY Zenon, <2>2, JournalParts DEF ControlOK, StepOK, AppendBroadcast, Committing
    <3> QED
      BY Zenon, <3>1 DEF AppendOps, Fenced
  <2> QED
    BY Zenon, <2>1, <2>2
<1>3. /\ cur \in Requests /\ Count(cur) \in Nat /\ Count(cur) > 0 /\ LastSeq \in Nat
      /\ work.first \in Nat /\ work.points \in [Lanes -> Nat]
      /\ \A i \in 1 .. Count(cur) : request[cur].lanes[i] \in Lanes
  BY Zenon, <1>1, <1>2, JournalParts, HidingParts, CurrentCommand DEF LoopTypeOK
<1>4. /\ allocated = LastSeq + 1 /\ UniqueSequence
      /\ \A i \in 1 .. Count(cur) :
             [seq |-> work.first + i - 1, lane |-> request[cur].lanes[i], request |-> cur] \in entries
  BY Zenon, JournalParts DEF SequencesOK
<1>5. \A i \in 1 .. Count(cur) : work.points[request[cur].lanes[i]] >= work.first + i
  <2>1. InAppend \/ AppendBroadcast
    BY Zenon DEF InAppend
  <2>2. pc # "accept"
    BY Zenon DEF AppendBroadcast
  <2> QED
    BY Zenon, <2>1, <2>2, JournalParts DEF PointsOK
<1>6. EntriesOf(cur) # {}
  <2>1. 1 \in 1 .. Count(cur)
    BY <1>3
  <2>2. [seq |-> work.first + 1 - 1, lane |-> request[cur].lanes[1], request |-> cur] \in EntriesOf(cur)
    BY <1>4, <2>1 DEF EntriesOf
  <2> QED
    BY Zenon, <2>2
<1>7. /\ \A s \in cancelled_ranges : s < work.first
      /\ \A e \in entries : e.request = cur <=> work.first <= e.seq
  BY Zenon, JournalParts DEF TransactionOK
<1>8. ASSUME NEW e \in EntriesOf(cur)
      PROVE  /\ e.seq >= work.first /\ e.seq < LastSeq + 1 /\ e.seq < work.points[e.lane]
             /\ e.seq \notin cancelled_ranges
  <2>1. e \in entries /\ e.seq \in Nat /\ e.lane \in Lanes /\ work.first <= e.seq /\ e.seq < allocated
    BY Zenon, <1>4, <1>7, JournalParts DEF EntriesOf, UniqueSequence
  <2> DEFINE i == e.seq - work.first + 1
             f == [seq |-> work.first + i - 1, lane |-> request[cur].lanes[i], request |-> cur]
  <2>2. i \in 1 .. Count(cur) /\ work.first + i - 1 = e.seq
    BY <1>3, <1>4, <2>1 DEF LastSeq
  <2>3. f \in entries /\ f.seq = e.seq /\ f.lane = request[cur].lanes[i]
    BY <1>4, <2>2
  <2>4. e = f
    BY Zenon, <1>4, <2>1, <2>3 DEF UniqueSequence
  <2>5. work.points[e.lane] >= work.first + i /\ work.points[e.lane] \in Nat
    <3>1. e.lane = request[cur].lanes[i]
      BY Zenon, <2>3, <2>4
    <3> HIDE DEF i
    <3> QED
      BY Zenon, <1>3, <1>5, <2>1, <2>2, <3>1
  <2>6. e.seq \notin cancelled_ranges
    BY <1>3, <1>7, <2>1
  <2> QED
    BY <1>3, <1>4, <2>1, <2>2, <2>5, <2>6
<1>9. ASSUME NEW e \in entries, e.request # cur
      PROVE  e.seq < work.first
  BY <1>3, <1>7, <1>9, JournalParts
<1> QED
  BY Zenon, <1>2, <1>3, <1>6, <1>8, <1>9

\* What the ledger holds is what is staged: above all that was published or
\* hidden before.
LEMMA LedgerEvents ==
    ASSUME JournalInv, ~Gone, ~Committing, pc # "persist", NEW e \in entries
    PROVE  /\ e.request \in fence_ledger.requests <=> e.seq \in FenceRange
           /\ e.seq \in FenceRange =>
                  /\ e.seq \in fence_ledger.seqs /\ e.seq \notin cancelled_ranges
                  /\ e.seq < fence_ledger.up_to /\ e.seq < fence_ledger.points[e.lane]
<1>1. e.seq \in Nat /\ active_fence_start \in Nat \cup {Unset} /\ active_fence_end \in Nat
  BY Zenon, StagedParts, JournalParts
<1>2. ASSUME e.seq \in FenceRange
      PROVE  e.request \in fence_ledger.requests /\ e.seq \notin cancelled_ranges
  <2>1. active_fence_start # Unset /\ e.seq \in active_fence_start .. active_fence_end - 1
    BY Zenon, <1>2 DEF FenceRange
  <2>2. active_fence_start \in Nat /\ active_fence_start <= e.seq
    BY <1>1, <2>1
  <2>3. e.request \in fence_ledger.requests /\ \A s \in cancelled_ranges : s < active_fence_start
    BY Zenon, <2>1, <2>2, JournalParts DEF StagedOK
  <2> QED
    BY <1>1, <2>2, <2>3
<1>3. ASSUME e.request \in fence_ledger.requests
      PROVE  e.seq \in FenceRange
  <2>1. fence_ledger.token # 0
    <3>1. NoLedger.requests = {}
      BY DEF NoLedger
    <3> QED
      BY Zenon, <1>3, <3>1, JournalParts DEF LedgerOK
  <2> QED
    BY Zenon, <1>3, <2>1, JournalParts DEF LedgerOK, LedgerOwnsFence, HiddenOK
<1>4. e.request \in fence_ledger.requests =>
          e.seq \in fence_ledger.seqs /\ e.seq < fence_ledger.up_to /\ e.seq < fence_ledger.points[e.lane]
  BY Zenon, JournalParts DEF HiddenOK, LedgerOK
<1> QED
  BY Zenon, <1>2, <1>3, <1>4

-----------------------------------------------------------------------------
(* PlacedOK.                                                               *)

\* Below both bounds of its readers; or hidden, staged or about to be published.
Published(e) == e.seq < visible /\ e.seq < lane_visible[e.lane]
Placed(e) ==
    Published(e) \/ e.seq \in cancelled_ranges \/ e.seq \in FenceRange \/ (pc = "publish" /\ e.request = cur)

\* Published stays published.
LEMMA PublishedStays ==
    ASSUME ControlOK, [Next]_vars, NEW e \in entries, Published(e)
    PROVE  e.seq < visible' /\ e.seq < lane_visible'[e.lane]
<1>1. ControlOK' /\ e.seq \in Nat /\ e.lane \in Lanes
  BY Zenon, ControlStep DEF ControlOK, TypeOK, IndexTypeOK
<1>2. /\ visible <= visible' /\ lane_visible[e.lane] <= lane_visible'[e.lane]
      /\ visible \in Nat /\ visible' \in Nat /\ lane_visible[e.lane] \in Nat /\ lane_visible'[e.lane] \in Nat
  BY Zenon, <1>1, PublishedGrows DEF ControlOK, TypeOK, GateTypeOK
<1> QED
  BY <1>1, <1>2 DEF Published

\* What publish_on_lanes does for an event below its bounds.
LEMMA PublishShows ==
    ASSUME NEW n \in Nat, NEW p \in [Lanes -> Nat], publish_on_lanes(n, p), NEW s \in Nat, NEW l \in Lanes,
           s < n, s < p[l]
    PROVE  s < visible' /\ s < lane_visible'[l]
<1>1. visible' = n /\ lane_visible'[l] = IF p[l] = 0 THEN lane_visible[l] ELSE p[l]
  BY Zenon DEF publish_on_lanes
<1>2. p[l] # 0
  BY SMT
<1> QED
  BY Zenon, <1>1, <1>2

\* A publish takes the events of the append at hand, a commit those of the ledger.
LEMMA PublishedByAppend ==
    ASSUME JournalInv, PublishAppend, NEW e \in EntriesOf(cur)
    PROVE  e.seq < visible' /\ e.seq < lane_visible'[e.lane]
<1>1. pc = "publish" /\ publish_on_lanes(LastSeq + 1, work.points)
  BY Zenon DEF PublishAppend
<1>2. /\ e.seq < LastSeq + 1 /\ e.seq < work.points[e.lane] /\ LastSeq \in Nat
      /\ e.seq \in Nat /\ e.lane \in Lanes /\ work.points \in [Lanes -> Nat]
  BY Zenon, <1>1, CurrentEvents, JournalParts, HidingParts DEF EntriesOf, LoopTypeOK
<1>3. LastSeq + 1 \in Nat
  BY <1>2
<1> QED
  BY Zenon, <1>1, <1>2, <1>3, PublishShows

\* A commit moves both bounds past all that its fence has staged.
LEMMA PublishedByCommit ==
    ASSUME JournalInv, CommitFence, NEW e \in entries, e.seq \in FenceRange
    PROVE  e.seq < visible' /\ e.seq < lane_visible'[e.lane]
<1>1. /\ pc = "deferred" /\ ~Gone /\ ~Committing
      /\ finish_fence_on_lanes(fence_ledger.token, fence_ledger.up_to, fence_ledger.points)
  BY Zenon DEF CommitFence, Gone, Committing
<1>2. e.seq < fence_ledger.up_to /\ e.seq < fence_ledger.points[e.lane]
  BY Zenon, <1>1, LedgerEvents
<1>3. /\ e.seq \in Nat /\ e.lane \in Lanes /\ fence_ledger.up_to \in Nat
      /\ fence_ledger.points \in [Lanes -> Nat]
  BY Zenon, JournalParts, StagedParts
<1>4. fence_ledger.up_to # 0
  BY <1>2, <1>3
<1>5. publish_on_lanes(fence_ledger.up_to, fence_ledger.points)
  BY Zenon, <1>1, <1>4 DEF finish_fence_on_lanes
<1> QED
  BY Zenon, <1>2, <1>3, <1>5, PublishShows

\* The writer leaves the publish of an append only by publishing it, or by a panic.
LEMMA PublishPhase ==
    ASSUME ControlOK, [Next]_vars, pc = "publish", ~PublishAppend, ~Panic
    PROVE  UNCHANGED <<pc, cur>>
<1>1. ~AppendStep
  BY Zenon DEF AppendStep, StartAppend, RefuseAppend, AcceptItem, RotateSegment, RotateFails,
     WriteFrame, WriteFails, SyncBatch, IndexAppend, BroadcastAppend
<1>2. ~FenceStep
  BY Zenon DEF FenceStep, ExecuteBegin, DeferredBegin, CommitRefused, CommitFails, CommitFence,
     BroadcastFence, CancelRefused, CancelFence, PersistCancel
<1>3. ~LoopStep
  BY Zenon DEF LoopStep, Receive, EndDrain, PeriodicSync, SyncBarrier, DeferredSync,
     DeferredShutdown, StartShutdown, AutoCancelFence, FinishShutdown
<1> QED
  BY Zenon, <1>1, <1>2, <1>3, OutsideFrame DEF WriterMoves, WriterStep, loopVars

\* What leaves the fence's range is published or hidden, and nothing else moves
\* an event.
LEMMA RangeFrame ==
    ASSUME JournalInv, [Next]_vars, ~Panic, NEW e \in entries, e.seq \in FenceRange
    PROVE  \/ e.seq < visible' /\ e.seq < lane_visible'[e.lane]
           \/ e.seq \in cancelled_ranges'
           \/ e.seq \in FenceRange'
<1>1. FenceRange = {} \/ (active_fence # 0 /\ active_fence_start # Unset)
  BY Zenon, JournalParts DEF FenceRange, FenceRangeSound
<1>2. ASSUME UNCHANGED <<active_fence_start, active_fence_end>>
      PROVE  e.seq \in FenceRange'
  BY Zenon, <1>2 DEF FenceRange
<1>3. CASE UNCHANGED gateVars \/ StartAppend \/ PublishAppend
  BY Zenon, <1>2, <1>3 DEF gateVars, StartAppend, PublishAppend, fenceVars
<1>4. CASE IndexAppend
  <2>1. CASE ~Fenced(cur)
    BY Zenon, <1>2, <1>4, <2>1 DEF IndexAppend, fenceVars
  <2>2. CASE Fenced(cur)
    <3>1. pc = "index" /\ ~Gone /\ ~Committing
      BY Zenon, <1>4 DEF IndexAppend, Gone, Committing
    <3>2. e.seq \in fence_ledger.seqs
      BY Zenon, <3>1, LedgerEvents
    <3>3. fence_ledger'.seqs = fence_ledger.seqs \cup CurSeqs /\ fence_ledger'.token = fence_ledger.token
      BY Zenon, <1>4, <2>2, JournalParts, HidingParts DEF IndexAppend, LedgerTypeOK
    <3>4. fence_ledger.token # 0
      BY Zenon, <2>2, <3>1, JournalParts DEF LedgerOK, InAppend
    <3>5. pc' \notin {"broadcast", "persist"}
      BY Zenon, <1>4, <2>2, JournalParts, HidingParts, Settled DEF IndexAppend
    <3>6. LedgerOK'
      BY Zenon, JournalParts, LedgerStep
    <3> QED
      BY Zenon, <3>2, <3>3, <3>4, <3>5, <3>6 DEF LedgerOK, LedgerOwnsFence, Committing
  <2> QED
    BY Zenon, <2>1, <2>2
<1>5. CASE CommitFence
  BY Zenon, <1>5, PublishedByCommit
<1>6. ASSUME NEW token, CancelInIndex(token)
      PROVE  e.seq \in cancelled_ranges'
  BY Zenon, <1>6 DEF CancelInIndex, cancel_fence
<1>7. CASE CancelFence
  BY Zenon, <1>6, <1>7 DEF CancelFence
<1>8. CASE AutoCancelFence
  BY Zenon, <1>2, <1>6, <1>8 DEF AutoCancelFence, fenceVars
<1>9. ASSUME NEW c \in Clients, BeginFence(c)
      PROVE  e.seq \in FenceRange'
  BY Zenon, <1>1, <1>2, <1>9 DEF BeginFence, begin_fence, begin_fence_refused, fenceVars
<1>10. ASSUME NEW c \in Clients, SendBeginFails(c)
       PROVE  e.seq \in FenceRange' \/ e.seq \in cancelled_ranges'
  BY Zenon, <1>2, <1>6, <1>10 DEF SendBeginFails, fenceVars
<1> QED
  BY Zenon, <1>3, <1>4, <1>5, <1>7, <1>8, <1>9, <1>10, GateFrame

\* Without panics PlacedOK is inductive.
LEMMA PlacedAfter ==
    ASSUME JournalInv, [Next]_vars, ~Panic
    PROVE  PlacedOK'
<1> SUFFICES ASSUME NEW e \in entries'
             PROVE  \/ e.seq < visible' /\ e.seq < lane_visible'[e.lane]
                    \/ e.seq \in cancelled_ranges'
                    \/ e.seq \in FenceRange'
                    \/ pc' = "publish" /\ e.request = cur'
  BY Zenon DEF PlacedOK
<1>1. CASE e \in entries
  <2>1. Placed(e)
    BY Zenon, <1>1, JournalParts DEF PlacedOK, Placed, Published
  <2>2. CASE Published(e)
    BY Zenon, <1>1, <2>2, JournalParts, PublishedStays
  <2>3. CASE e.seq \in cancelled_ranges
    BY Zenon, <2>3, JournalParts, CancelledGrows
  <2>4. CASE e.seq \in FenceRange
    BY Zenon, <1>1, <2>4, RangeFrame
  <2>5. CASE pc = "publish" /\ e.request = cur
    <3>1. CASE PublishAppend
      BY Zenon, <1>1, <2>5, <3>1, PublishedByAppend DEF EntriesOf
    <3>2. CASE ~PublishAppend
      BY Zenon, <2>5, <3>2, JournalParts, PublishPhase
    <3> QED
      BY Zenon, <3>1, <3>2
  <2> QED
    BY Zenon, <2>1, <2>2, <2>3, <2>4, <2>5 DEF Placed
<1>2. CASE e \notin entries
  <2>1. IndexAppend
    BY Zenon, <1>2, IndexFrame DEF indexVars, BroadcastAppend, BroadcastFence, PersistCancel, AutoCancelFence, Panic
  <2>2. PICK i \in 1 .. Count(cur) :
            e = [seq |-> work.first + i - 1, lane |-> request[cur].lanes[i], request |-> cur]
    BY Zenon, <1>2, <2>1 DEF IndexAppend
  <2>3. CASE ~Fenced(cur)
    BY Zenon, <2>1, <2>2, <2>3 DEF IndexAppend
  <2>4. CASE Fenced(cur)
    <3>1. pc = "index"
      BY Zenon, <2>1 DEF IndexAppend
    <3>2. fence_ledger'.seqs = fence_ledger.seqs \cup CurSeqs /\ fence_ledger'.token = fence_ledger.token
      BY Zenon, <2>1, <2>4, JournalParts, HidingParts DEF IndexAppend, LedgerTypeOK
    <3>3. e.seq \in CurSeqs
      <4>1. work.first \in Nat /\ Count(cur) \in Nat /\ e.seq = work.first + i - 1
        BY Zenon, <2>1, <2>2, JournalParts, IndexedSequences
      <4> QED
        BY <4>1 DEF CurSeqs, LastSeq
    <3>4. fence_ledger.token # 0
      BY Zenon, <2>4, <3>1, JournalParts DEF LedgerOK, InAppend
    <3>5. pc' \notin {"broadcast", "persist"}
      BY Zenon, <2>1, <2>4, JournalParts, HidingParts, Settled DEF IndexAppend
    <3>6. LedgerOK'
      BY Zenon, JournalParts, LedgerStep
    <3> QED
      BY Zenon, <3>2, <3>3, <3>4, <3>5, <3>6 DEF LedgerOK, LedgerOwnsFence, Committing
  <2> QED
    BY Zenon, <2>3, <2>4
<1> QED
  BY Zenon, <1>1, <1>2

-----------------------------------------------------------------------------
(* TransactionOK.                                                          *)

\* While the writer runs, only its own steps hide anything.
LEMMA HidingByWriter ==
    ASSUME HidingInv, [Next]_vars, ~WriterMoves
    PROVE  UNCHANGED <<cancelVars, published, entries>>
<1>1. /\ ControlOK /\ UNCHANGED <<published, entries>>
  BY Zenon, HidingParts, OutsideFrame DEF indexVars
<1>2. ASSUME NEW c \in Clients, SendBeginFails(c)
      PROVE  UNCHANGED cancelVars
  <2>1. CASE CancelInIndex(client[c].token)
    <3>1. FenceRange = {}
      BY Zenon, <1>2, <2>1, HidingParts
         DEF SendBeginFails, CancelInIndex, cancel_fence, TokensOK, Fresh, FenceRange
    <3>2. cancelled_ranges' = cancelled_ranges
      BY Zenon, <2>1, <3>1 DEF CancelInIndex, cancel_fence
    <3>3. lane_cancelled_ranges' = lane_cancelled_ranges
      <4>1. lane_cancelled_ranges \in [Lanes -> SUBSET Nat]
        BY Zenon, HidingParts DEF GateTypeOK
      <4>2. lane_cancelled_ranges' = [l \in Lanes |-> lane_cancelled_ranges[l] \cup
                {e.seq : e \in {x \in entries : x.lane = l /\ x.seq \in FenceRange}}]
        BY <2>1 DEF CancelInIndex, cancel_fence
      <4>3. \A l \in Lanes : {e.seq : e \in {x \in entries : x.lane = l /\ x.seq \in FenceRange}} = {}
        BY Zenon, <3>1
      <4> QED
        BY <4>1, <4>2, <4>3
    <3> QED
      BY Zenon, <3>2, <3>3 DEF cancelVars
  <2> QED
    BY Zenon, <1>2, <2>1 DEF SendBeginFails, cancelVars
<1>3. ASSUME NEW c \in Clients, ClientStep(c)
      PROVE  UNCHANGED cancelVars
  BY Zenon, <1>2, <1>3 DEF ClientStep, Route, Send, SendFails, SubmitSync, BeginFence, SendBegin, AwaitBegin,
     FinishFence, AwaitFinish, DropFence, gateVars, cancelVars
<1>4. CASE HelperSend \/ CloseEvent \/ SendShutdown \/ UNCHANGED vars
  BY Zenon, <1>1, <1>4 DEF HelperSend, CloseEvent, SendShutdown, vars, writerVars, gateVars, cancelVars
<1> QED
  BY Zenon, <1>1, <1>3, <1>4 DEF Next

\* Commands that were issued, and the events they have, keep what they are.
LEMMA CommandsKept ==
    ASSUME GateInv, HeldOK, [Next]_vars, NEW r \in Requests, reply[r] = "sent"
    PROVE  request'[r] = request[r]
<1>1. issued \in Nat /\ RespondersOK /\ ControlOK
  BY Zenon, CommandIds DEF GateInv, HoldersOK
<1>2. r \in 1 .. issued
  BY <1>1 DEF RespondersOK, Requests
<1> QED
  BY Zenon, <1>1, <1>2, CommandsFixed

\* Events are never taken out of the index.
LEMMA EntriesStay ==
    ASSUME [Next]_vars
    PROVE  entries \subseteq entries'
BY Zenon, IndexFrame DEF indexVars, IndexAppend, BroadcastAppend, BroadcastFence, PersistCancel,
   AutoCancelFence, Panic

\* The ledger holds whole commands of its fence.
LEMMA LedgerWhole ==
    ASSUME JournalInv, [Next]_vars
    PROVE  /\ \A r \in fence_ledger'.requests :
                  EntriesOf(r)' # {} /\ Fenced(r)' /\ request'[r].token = fence_ledger'.token
           /\ InAppend' /\ Fenced(cur)' => request'[cur'].token = fence_ledger'.token
<1> DEFINE Whole(r) == EntriesOf(r) # {} /\ Fenced(r) /\ request[r].token = fence_ledger.token
<1>1. /\ \A r \in fence_ledger.requests : Whole(r) /\ r \in Requests /\ reply[r] = "sent"
      /\ InAppend /\ Fenced(cur) => request[cur].token = fence_ledger.token
      /\ NoLedger.requests = {} /\ \A t : [NoLedger EXCEPT !.token = t].requests = {}
  <2>1. NoLedger.requests = {} /\ \A t : [NoLedger EXCEPT !.token = t].requests = {}
    BY DEF NoLedger
  <2> QED
    BY Zenon, <2>1, JournalParts, CommandIds DEF TransactionOK, RespondersOK
<1>2. \A r \in fence_ledger.requests : request'[r] = request[r]
  BY Zenon, <1>1, JournalParts, CommandsKept
<1>3. \A r \in fence_ledger.requests : EntriesOf(r)' # {}
  BY Zenon, <1>1, EntriesStay DEF EntriesOf
<1>4. ASSUME fence_ledger'.requests \subseteq fence_ledger.requests,
             fence_ledger'.requests = {} \/ fence_ledger'.token = fence_ledger.token
      PROVE  \A r \in fence_ledger'.requests :
                  EntriesOf(r)' # {} /\ Fenced(r)' /\ request'[r].token = fence_ledger'.token
  BY Zenon, <1>1, <1>2, <1>3, <1>4 DEF Fenced
<1>5. CASE IndexAppend /\ Fenced(cur)
  <2>1. /\ fence_ledger'.requests = fence_ledger.requests \cup {cur} /\ fence_ledger'.token = fence_ledger.token
        /\ UNCHANGED <<request, cur>> /\ pc = "index" /\ InAppend /\ ~InAppend'
    BY Zenon, <1>5, JournalParts, HidingParts, Settled DEF IndexAppend, LedgerTypeOK, InAppend
  <2>2. EntriesOf(cur)' # {}
    <3>1. 1 \in 1 .. Count(cur)
      BY <1>5, JournalParts, IndexedSequences
    <3>2. [seq |-> work.first + 1 - 1, lane |-> request[cur].lanes[1], request |-> cur] \in entries'
      BY <1>5, <3>1 DEF IndexAppend
    <3>3. [seq |-> work.first + 1 - 1, lane |-> request[cur].lanes[1], request |-> cur].request = cur
      OBVIOUS
    <3> QED
      BY Zenon, <2>1, <3>2, <3>3 DEF EntriesOf
  <2> QED
    BY Zenon, <1>1, <1>3, <1>5, <2>1, <2>2 DEF Fenced
<1>6. CASE ~(IndexAppend /\ Fenced(cur))
  <2>1. /\ fence_ledger'.requests \subseteq fence_ledger.requests
        /\ fence_ledger'.requests = {} \/ fence_ledger'.token = fence_ledger.token
    BY Zenon, <1>1, <1>6, LedgerFrame
       DEF IndexAppend, ExecuteBegin, DeferredBegin, BeginLedger, CommitFails, BroadcastFence, PersistCancel,
           DeferredShutdown, AutoCancelFence, Panic
  <2>2. ASSUME InAppend', Fenced(cur)'
        PROVE  request'[cur'].token = fence_ledger'.token
    <3>1. CASE WriterMoves
      <4>1. UNCHANGED request
        BY Zenon, <3>1, WriterFrame
      <4>2. CASE StartAppend
        BY Zenon, <2>2, <4>1, <4>2 DEF StartAppend, LedgerMismatch, Fenced
      <4>3. CASE AcceptItem
        BY Zenon, <1>1, <2>2, <4>1, <4>3, JournalParts, AcceptFrame DEF Fenced, InAppend
      <4>4. CASE Continue
        BY Zenon, <1>1, <2>2, <4>1, <4>4, JournalParts, ContinueFrame DEF Fenced, InAppend
      <4>5. CASE IndexAppend
        BY Zenon, <1>6, <2>2, <4>1, <4>5 DEF IndexAppend, Fenced
      <4>6. CASE PublishAppend
        BY Zenon, <2>2, <4>6 DEF PublishAppend, InAppend
      <4> QED
        BY Zenon, <2>2, <3>1, <4>2, <4>3, <4>4, <4>5, <4>6, JournalParts, RestFrame
    <3>2. CASE ~WriterMoves
      <4>1. UNCHANGED <<pc, cur, fence_ledger>> /\ (Busy => request'[cur] = request[cur])
        BY Zenon, <3>2, JournalParts, OutsideFrame DEF loopVars
      <4> QED
        BY Zenon, <1>1, <2>2, <4>1 DEF InAppend, Busy, Fenced
    <3> QED
      BY Zenon, <3>1, <3>2
  <2> QED
    BY Zenon, <1>4, <2>1, <2>2
<1> QED
  BY Zenon, <1>5, <1>6

\* A commit that is broadcast publishes nothing that was hidden.
LEMMA CommitClean ==
    ASSUME JournalInv, [Next]_vars, Committing', NEW s \in fence_ledger'.seqs
    PROVE  s \notin cancelled_ranges'
<1>1. CASE WriterMoves
  <2>1. CommitFence
    <3>1. pc' # "persist"
      BY Zenon DEF Committing
    <3> QED
      BY Zenon, <1>1, <3>1, JournalParts, FinishPhase DEF CancelFence
  <2>2. /\ pc = "deferred" /\ UNCHANGED <<fence_ledger, cancelled_ranges>> /\ ~Committing
    BY Zenon, <2>1 DEF CommitFence, cancelVars, Committing
  <2>3. fence_ledger.token # 0
    <3>1. NoLedger.seqs = {}
      BY DEF NoLedger
    <3> QED
      BY Zenon, <2>2, <3>1, JournalParts DEF LedgerOK
  <2>4. s \in FenceRange
    BY Zenon, <2>2, <2>3, JournalParts DEF LedgerOK, LedgerOwnsFence
  <2>5. active_fence_start # Unset /\ s \in active_fence_start .. active_fence_end - 1
    BY Zenon, <2>4 DEF FenceRange
  <2>6. \A t \in cancelled_ranges : t < active_fence_start
    BY Zenon, <2>5, JournalParts DEF StagedOK
  <2>7. active_fence_start \in Nat /\ active_fence_end \in Nat
    BY Zenon, <2>5, JournalParts, StagedParts
  <2> QED
    BY <2>2, <2>5, <2>6, <2>7
<1>2. CASE ~WriterMoves
  <2>1. /\ UNCHANGED <<pc, cur, fence_ledger, cancelled_ranges>>
        /\ Busy => request'[cur] = request[cur]
    BY Zenon, <1>2, JournalParts, OutsideFrame, HidingByWriter DEF loopVars, cancelVars
  <2> QED
    BY Zenon, <2>1, JournalParts DEF TransactionOK, Committing, Busy
<1> QED
  BY Zenon, <1>1, <1>2

\* The append that is published is the last that was indexed.
LEMMA PublishLast ==
    ASSUME JournalInv, [Next]_vars, ~Panic, pc' = "publish" \/ AppendBroadcast'
    PROVE  /\ \A s \in cancelled_ranges' : s < work'.first
           /\ \A e \in entries' : e.request = cur' <=> work'.first <= e.seq
<1>1. ASSUME UNCHANGED <<cancelled_ranges, work, cur, entries>>, pc = "publish" \/ AppendBroadcast
      PROVE  /\ \A s \in cancelled_ranges' : s < work'.first
             /\ \A e \in entries' : e.request = cur' <=> work'.first <= e.seq
  BY Zenon, <1>1, JournalParts DEF TransactionOK
<1>2. CASE ~WriterMoves
  <2>1. /\ UNCHANGED <<pc, cur, work, entries, cancelled_ranges>>
        /\ Busy => request'[cur] = request[cur]
    BY Zenon, <1>2, JournalParts, OutsideFrame, HidingByWriter DEF loopVars, cancelVars
  <2> QED
    BY Zenon, <1>1, <2>1 DEF AppendBroadcast, Committing, Busy
<1>3. CASE PublishAppend
  BY Zenon, <1>1, <1>3 DEF PublishAppend, cancelVars, indexVars
<1>4. CASE IndexAppend
  <2>1. pc = "index" /\ Executing /\ Unindexed /\ UNCHANGED <<cur, cancelled_ranges>>
    BY Zenon, <1>4 DEF IndexAppend, Executing, Busy, Unindexed, cancelVars, Settle
  <2>2. ~Fenced(cur)
    BY Zenon, <1>4, JournalParts, HidingParts, Settled DEF IndexAppend, AppendBroadcast
  <2>3. UNCHANGED work /\ EntriesOf(cur) = {}
    BY Zenon, <1>4, <2>1, <2>2, JournalParts, CurrentNew DEF IndexAppend
  <2>4. \A s \in cancelled_ranges' : s < work'.first
    BY Zenon, <2>1, <2>3, JournalParts DEF CancelledOK
  <2>5. ASSUME NEW e \in entries'
        PROVE  e.request = cur' <=> work'.first <= e.seq
    <3>1. CASE e \in entries
      <4>1. e.request # cur /\ e.seq < work.first /\ work.first \in Nat /\ e.seq \in Nat
        BY Zenon, <1>4, <2>3, <3>1, JournalParts, IndexedSequences DEF EntriesOf
      <4>2. ~(work.first <= e.seq)
        BY <4>1
      <4> QED
        BY Zenon, <2>1, <2>3, <4>1, <4>2
    <3>2. CASE e \notin entries
      <4>1. PICK i \in 1 .. Count(cur) :
                e = [seq |-> work.first + i - 1, lane |-> request[cur].lanes[i], request |-> cur]
        BY Zenon, <1>4, <3>2 DEF IndexAppend
      <4>2. e.request = cur /\ e.seq = work.first + i - 1 /\ work.first \in Nat /\ Count(cur) \in Nat
        BY Zenon, <1>4, <4>1, JournalParts, IndexedSequences
      <4>3. work.first <= e.seq
        BY <4>2
      <4> QED
        BY Zenon, <2>1, <2>3, <4>2, <4>3
    <3> QED
      BY Zenon, <3>1, <3>2
  <2> QED
    BY Zenon, <2>4, <2>5
<1>5. CASE WriterMoves /\ ~PublishAppend /\ ~IndexAppend
  <2>1. ~StartAppend /\ ~AcceptItem /\ ~Continue
    BY Zenon, JournalParts, AcceptFrame, ContinueFrame DEF StartAppend, AppendBroadcast
  <2> QED
    BY Zenon, <1>5, <2>1, JournalParts, RestFrame DEF InAppend
<1> QED
  BY Zenon, <1>2, <1>3, <1>4, <1>5

\* Without panics in the bounds of the instance none happens.
LEMMA NoPanic ==
    ASSUME MaxPanics = 0, ControlOK
    PROVE  ~Panic
<1>1. panics \in Nat
  BY Zenon DEF ControlOK, TypeOK, BudgetTypeOK
<1>2. ~(panics < MaxPanics)
  BY <1>1
<1> QED
  BY Zenon, <1>2 DEF Panic

\* JournalInv is inductive.
LEMMA JournalStep ==
    ASSUME OneProducer, MaxPanics = 0, JournalInv, [Next]_vars
    PROVE  JournalInv'
<1>1. ~Panic
  BY Zenon, NoPanic, JournalParts
<1>2. TransactionOK'
  BY Zenon, <1>1, LedgerWhole, CommitClean, PublishLast DEF TransactionOK
<1> QED
  BY Zenon, <1>1, <1>2, PlacedAfter, StagedStep, JournalParts DEF JournalInv

\* At the start there are no events to place.
LEMMA JournalInit ==
    ASSUME Init
    PROVE  JournalInv
<1>1. StagedInv
  BY Zenon, StagedInit
<1>2. fence_ledger = NoLedger /\ entries = {} /\ pc = "recv"
  BY Zenon DEF Init, WriterInit
<1>3. NoLedger.requests = {}
  BY DEF NoLedger
<1> QED
  BY Zenon, <1>1, <1>2, <1>3
     DEF JournalInv, PlacedOK, TransactionOK, InAppend, AppendBroadcast, Committing

\* With one producer and no panics the layer holds in every reachable state.
LEMMA JournalInvariant ==
    ASSUME OneProducer, MaxPanics = 0
    PROVE  Spec => []JournalInv
<1>1. Init => JournalInv
  BY Zenon, JournalInit
<1>2. JournalInv /\ [Next]_vars => JournalInv'
  BY Zenon, JournalStep
<1> QED
  BY <1>1, <1>2, PTL DEF Spec

\* With one producer and no panics, a lane reader and a global reader agree on
\* every event: the lane bounds of publish_on_lanes, of a fence commit and of a
\* cancel move with the global ones.
THEOREM LaneReadersAgree ==
    ASSUME OneProducer, MaxPanics = 0
    PROVE  Spec => []LanesAgree
<1>1. JournalInv => LanesAgree
  <2>1. SUFFICES ASSUME JournalInv, NEW e \in entries
                 PROVE  is_visible(e.seq) <=> SeenOnLane(e)
    BY Zenon DEF LanesAgree
  <2>2. e.lane \in Lanes /\ lane_cancelled_ranges[e.lane] \subseteq cancelled_ranges /\ Placed(e)
    BY Zenon, <2>1, JournalParts DEF CancelledOK, PlacedOK, Placed, Published
  <2>3. CASE Published(e) \/ e.seq \in cancelled_ranges
    BY Zenon, <2>2, <2>3 DEF Published, SeenOnLane, is_visible, is_visible_on_lane
  <2>4. CASE e.seq \in FenceRange
    BY Zenon, <2>1, <2>4, JournalParts, StagedUnseen DEF SeenOnLane, is_visible, is_visible_on_lane
  <2>5. CASE pc = "publish" /\ e.request = cur
    <3>1. e.seq >= work.first /\ work.first \in Nat /\ e.seq \in Nat
      BY Zenon, <2>1, <2>5, CurrentEvents, JournalParts DEF EntriesOf
    <3>2. visible <= work.first /\ lane_visible[e.lane] <= work.first
      BY Zenon, <2>1, <2>2, <2>5, JournalParts DEF BoundsOK, InAppend
    <3>3. visible \in Nat /\ lane_visible[e.lane] \in Nat
      BY Zenon, <2>1, <2>2, JournalParts, StagedParts
    <3>4. ~(e.seq < visible) /\ ~(e.seq < lane_visible[e.lane])
      BY <3>1, <3>2, <3>3
    <3> QED
      BY Zenon, <3>4 DEF SeenOnLane, is_visible, is_visible_on_lane
  <2> QED
    BY Zenon, <2>2, <2>3, <2>4, <2>5 DEF Placed
<1> QED
  BY <1>1, JournalInvariant, PTL

-----------------------------------------------------------------------------
(* What readers may see of a command.                                      *)

\* The state functions the abstract journal is read from.
StatusNow == [r \in Requests |-> Status(r)]
GroupNow == [r \in Requests |-> IF EntriesOf(r) = {} THEN 0 ELSE request[r].token]
AnswerNow == [r \in Requests |->
    IF request[r].op \in AppendOps /\ reply[r] \notin {"unsent", "sent"} THEN reply[r] ELSE "waiting"]

\* What the status of a command says of its events.
LEMMA StatusCases ==
    ASSUME NEW r
    PROVE  /\ EntriesOf(r) = {} => Status(r) = "none"
           /\ EntriesOf(r) # {} /\ (\A e \in EntriesOf(r) : Seen(e)) => Status(r) = "visible"
           /\ EntriesOf(r) # {} /\ (\E e \in EntriesOf(r) : e.seq \in cancelled_ranges) => Status(r) = "hidden"
           /\ /\ EntriesOf(r) # {} /\ ~(\A e \in EntriesOf(r) : Seen(e))
              /\ ~\E e \in EntriesOf(r) : e.seq \in cancelled_ranges
              => Status(r) = "staged"
           /\ Status(r) = "staged" =>
                  /\ EntriesOf(r) # {} /\ ~(\A e \in EntriesOf(r) : Seen(e))
                  /\ ~\E e \in EntriesOf(r) : e.seq \in cancelled_ranges
<1>1. (\E e \in EntriesOf(r) : e.seq \in cancelled_ranges) => ~(\A e \in EntriesOf(r) : Seen(e))
  BY Zenon DEF Seen, is_visible
<1> DEFINE P == EntriesOf(r) = {}
           Q == \A e \in EntriesOf(r) : Seen(e)
           R == \E e \in EntriesOf(r) : e.seq \in cancelled_ranges
<1>2. Status(r) = CASE P -> "none" [] ~P /\ Q -> "visible" [] ~P /\ R -> "hidden" [] OTHER -> "staged"
  BY Zenon DEF Status
<1>3. R => ~Q
  BY Zenon, <1>1
<1> HIDE DEF P, Q, R
<1>4. /\ P => Status(r) = "none"
      /\ ~P /\ Q => Status(r) = "visible"
      /\ ~P /\ R => Status(r) = "hidden"
      /\ ~P /\ ~Q /\ ~R => Status(r) = "staged"
      /\ Status(r) = "staged" => ~P /\ ~Q /\ ~R
  BY <1>2, <1>3
<1> QED
  BY Zenon, <1>4 DEF P, Q, R

\* A command all of whose events are seen after a step is then visible.
LEMMA VisibleNext ==
    ASSUME NEW r, EntriesOf(r)' # {}, \A e \in EntriesOf(r)' : Seen(e)'
    PROVE  Status(r)' = "visible"
<1> DEFINE P == EntriesOf(r)' = {}
           Q == \A e \in EntriesOf(r)' : Seen(e)'
           R == \E e \in EntriesOf(r)' : e.seq \in cancelled_ranges'
<1>1. Status(r)' = CASE P -> "none" [] ~P /\ Q -> "visible" [] ~P /\ R -> "hidden" [] OTHER -> "staged"
  BY Zenon DEF Status
<1>2. ~P /\ Q /\ ~R
  BY Zenon DEF Seen, is_visible
<1> HIDE DEF P, Q, R
<1> QED
  BY <1>1, <1>2

\* A command keeps its status when its events keep theirs.
LEMMA StatusKept ==
    ASSUME NEW r, EntriesOf(r)' = EntriesOf(r),
           \A e \in EntriesOf(r) : (Seen(e)' <=> Seen(e))
                                   /\ (e.seq \in cancelled_ranges' <=> e.seq \in cancelled_ranges)
    PROVE  Status(r)' = Status(r)
BY Zenon DEF Status

\* A step that touches neither the events nor what hides them keeps every status.
LEMMA StatusSame ==
    ASSUME UNCHANGED <<entries, published, cancelVars>>, NEW r
    PROVE  Status(r)' = Status(r) /\ EntriesOf(r)' = EntriesOf(r)
<1>1. EntriesOf(r)' = EntriesOf(r)
  BY Zenon DEF EntriesOf
<1>2. \A e \in EntriesOf(r) : (Seen(e)' <=> Seen(e))
                                   /\ (e.seq \in cancelled_ranges' <=> e.seq \in cancelled_ranges)
  BY Zenon DEF Seen, SeenOnLane, is_visible, is_visible_on_lane, published, cancelVars
<1> QED
  BY Zenon, <1>1, <1>2, StatusKept

\* Whoever is published or hidden is seen or hidden for good.
LEMMA SeenIff ==
    ASSUME JournalInv, NEW e \in entries
    PROVE  Seen(e) <=> Published(e) /\ e.seq \notin cancelled_ranges
BY Zenon, JournalParts DEF Seen, SeenOnLane, is_visible, is_visible_on_lane, Published, CancelledOK

\* Indexing stages the command at hand, and touches no other.
LEMMA IndexStages ==
    ASSUME JournalInv, [Next]_vars, IndexAppend, NEW c \in Requests, c = cur
    PROVE  /\ Status(c) = "none" /\ Status(c)' = "staged"
           /\ \A r \in Requests : r # c => Status(r)' = Status(r) /\ EntriesOf(r)' = EntriesOf(r)
<1>1. pc = "index" /\ Executing /\ InAppend /\ Unindexed /\ UNCHANGED <<published, cancelVars>>
  BY Zenon DEF IndexAppend, Executing, Busy, InAppend, Unindexed
<1>2. EntriesOf(c) = {}
  BY Zenon, <1>1, JournalParts, CurrentNew
<1>3. /\ work.first \in Nat /\ Count(cur) \in Nat /\ Count(cur) > 0
  BY Zenon, JournalParts, IndexedSequences
<1>4. \A e \in entries' : e \in entries \/ (e.request = cur /\ e.seq \in Nat /\ work.first <= e.seq)
  <2>1. SUFFICES ASSUME NEW e \in entries', e \notin entries
                 PROVE  e.request = cur /\ e.seq \in Nat /\ work.first <= e.seq
    BY Zenon
  <2>2. PICK i \in 1 .. Count(cur) :
            e = [seq |-> work.first + i - 1, lane |-> request[cur].lanes[i], request |-> cur]
    BY Zenon, <2>1 DEF IndexAppend
  <2> QED
    BY <1>3, <2>2
<1>5. EntriesOf(c)' # {}
  <2>1. 1 \in 1 .. Count(cur)
    BY <1>3
  <2>2. [seq |-> work.first + 1 - 1, lane |-> request[cur].lanes[1], request |-> cur] \in entries'
    BY <2>1 DEF IndexAppend
  <2>3. [seq |-> work.first + 1 - 1, lane |-> request[cur].lanes[1], request |-> cur].request = c
    OBVIOUS
  <2> QED
    BY Zenon, <2>2, <2>3 DEF EntriesOf
<1>6. ASSUME NEW e \in EntriesOf(c)'
      PROVE  ~Seen(e)' /\ e.seq \notin cancelled_ranges'
  <2>1. e \in entries' /\ e.request = c
    BY Zenon, <1>6 DEF EntriesOf
  <2>2. e.seq \in Nat /\ work.first <= e.seq
    BY Zenon, <1>2, <1>4, <2>1 DEF EntriesOf
  <2>3. visible <= work.first /\ visible \in Nat /\ \A s \in cancelled_ranges : s < work.first
    BY Zenon, <1>1, JournalParts, StagedParts DEF BoundsOK, CancelledOK
  <2>4. ~(e.seq < visible) /\ e.seq \notin cancelled_ranges
    BY <1>3, <2>2, <2>3
  <2> QED
    BY Zenon, <1>1, <2>4 DEF Seen, is_visible, published, cancelVars
<1>7. Status(c)' = "staged"
  <2>1. ~(\A e \in EntriesOf(c)' : Seen(e)') /\ ~\E e \in EntriesOf(c)' : e.seq \in cancelled_ranges'
    BY Zenon, <1>5, <1>6
  <2> QED
    BY Zenon, <1>5, <2>1 DEF Status
<1>8. ASSUME NEW r \in Requests, r # c
      PROVE  Status(r)' = Status(r) /\ EntriesOf(r)' = EntriesOf(r)
  <2>1. EntriesOf(r)' = EntriesOf(r)
    BY Zenon, <1>4, <1>8, EntriesStay DEF EntriesOf
  <2>2. \A e \in EntriesOf(r) : (Seen(e)' <=> Seen(e))
                                /\ (e.seq \in cancelled_ranges' <=> e.seq \in cancelled_ranges)
    BY Zenon, <1>1 DEF Seen, SeenOnLane, is_visible, is_visible_on_lane, published, cancelVars
  <2> QED
    BY Zenon, <2>1, <2>2, StatusKept
<1> QED
  BY Zenon, <1>2, <1>7, <1>8, StatusCases

\* A publish shows the command at hand, and no other.
LEMMA PublishFinishes ==
    ASSUME JournalInv, [Next]_vars, PublishAppend, NEW c \in Requests, c = cur
    PROVE  /\ Status(c) = "staged" /\ Status(c)' = "visible" /\ request[c].token = 0
           /\ \A r \in Requests : r # c => Status(r)' = Status(r)
           /\ \A r \in Requests : EntriesOf(r)' = EntriesOf(r)
<1>1. pc = "publish" /\ UNCHANGED <<entries, cancelVars>> /\ InAppend /\ ~Gone
  BY Zenon DEF PublishAppend, indexVars, InAppend, Gone
<1>2. /\ EntriesOf(c) # {} /\ ~Fenced(cur) /\ request[cur].op \in AppendOps /\ work.first \in Nat
      /\ \A e \in EntriesOf(c) : e.seq >= work.first /\ e.seq \notin cancelled_ranges
      /\ \A e \in entries : e.request # c => e.seq < work.first
  BY Zenon, <1>1, CurrentEvents
<1>3. \A r \in Requests : EntriesOf(r)' = EntriesOf(r)
  BY Zenon, <1>1 DEF EntriesOf
<1>4. Status(c) = "staged"
  <2>1. \A e \in EntriesOf(c) : e.seq \in Nat /\ visible \in Nat /\ visible <= work.first
    BY Zenon, <1>1, JournalParts, StagedParts DEF EntriesOf, BoundsOK
  <2>2. \A e \in EntriesOf(c) : ~(e.seq < visible)
    BY <1>2, <2>1
  <2> QED
    BY Zenon, <1>2, <2>2, StatusCases DEF Seen, is_visible
<1>5. Status(c)' = "visible"
  <2>1. \A e \in EntriesOf(c) : e.seq < visible' /\ e.seq < lane_visible'[e.lane]
    BY Zenon, PublishedByAppend
  <2>2. \A e \in EntriesOf(c) : e.seq \notin cancelled_ranges /\ e.seq \notin lane_cancelled_ranges[e.lane]
    BY Zenon, <1>2, JournalParts DEF CancelledOK, EntriesOf
  <2>3. \A e \in EntriesOf(c)' : Seen(e)'
    BY Zenon, <1>1, <1>3, <2>1, <2>2 DEF Seen, SeenOnLane, is_visible, is_visible_on_lane, cancelVars
  <2> QED
    BY Zenon, <1>2, <1>3, <2>3, VisibleNext
<1>6. request[c].token = 0
  BY <1>2, JournalParts DEF ControlOK, CommandsOK, WellFormed, AppendOps, Fenced
<1>7. ASSUME NEW r \in Requests, r # c
      PROVE  Status(r)' = Status(r)
  <2>1. FenceRange = {}
    BY Zenon, <1>1, JournalParts, StagedExcludes DEF FenceRange
  <2>2. ASSUME NEW e \in EntriesOf(r)
        PROVE  /\ Seen(e)' <=> Seen(e)
               /\ e.seq \in cancelled_ranges' <=> e.seq \in cancelled_ranges
    <3>1. e \in entries /\ e.request # cur
      BY Zenon, <1>7 DEF EntriesOf
    <3>2. Published(e) \/ e.seq \in cancelled_ranges
      BY Zenon, <2>1, <3>1, JournalParts DEF PlacedOK, Published
    <3>3. CASE e.seq \in cancelled_ranges
      BY Zenon, <1>1, <3>3 DEF Seen, is_visible, cancelVars
    <3>4. CASE Published(e) /\ e.seq \notin cancelled_ranges
      <4>1. e.seq < visible' /\ e.seq < lane_visible'[e.lane]
        BY Zenon, <3>1, <3>4, JournalParts, PublishedStays
      <4>2. e.seq \notin lane_cancelled_ranges[e.lane]
        BY Zenon, <3>1, <3>4, JournalParts DEF CancelledOK
      <4> QED
        BY Zenon, <1>1, <3>4, <4>1, <4>2
           DEF Published, Seen, SeenOnLane, is_visible, is_visible_on_lane, cancelVars
    <3> QED
      BY Zenon, <3>2, <3>3, <3>4
  <2> QED
    BY Zenon, <1>3, <1>7, <2>2, StatusKept
<1> QED
  BY Zenon, <1>3, <1>4, <1>5, <1>6, <1>7

\* Between its commands the writer has staged what is in its ledger.
LEMMA StagedCommands ==
    ASSUME JournalInv, ~Gone, ~Committing, pc \notin {"persist", "publish"}, NEW r \in Requests
    PROVE  Status(r) = "staged" <=> r \in fence_ledger.requests
<1>1. ASSUME r \in fence_ledger.requests
      PROVE  Status(r) = "staged"
  <2>1. EntriesOf(r) # {}
    BY Zenon, <1>1, JournalParts DEF TransactionOK
  <2>2. ASSUME NEW e \in EntriesOf(r)
        PROVE  ~Seen(e) /\ e.seq \notin cancelled_ranges
    <3>1. e \in entries /\ e.request = r
      BY Zenon DEF EntriesOf
    <3>2. e.seq \in FenceRange /\ e.seq \notin cancelled_ranges
      BY Zenon, <1>1, <3>1, LedgerEvents
    <3> QED
      BY Zenon, <3>1, <3>2, JournalParts, StagedUnseen DEF Seen, is_visible
  <2> QED
    BY Zenon, <2>1, <2>2, StatusCases
<1>2. ASSUME Status(r) = "staged"
      PROVE  r \in fence_ledger.requests
  <2>1. PICK e \in EntriesOf(r) : ~Seen(e) /\ e.seq \notin cancelled_ranges
    BY Zenon, <1>2, StatusCases
  <2>2. e \in entries /\ e.request = r
    BY Zenon DEF EntriesOf
  <2>3. ~Published(e)
    BY Zenon, <2>1, <2>2, SeenIff
  <2>4. e.seq \in FenceRange
    BY Zenon, <2>1, <2>2, <2>3, JournalParts DEF PlacedOK, Published
  <2> QED
    BY Zenon, <2>2, <2>4, LedgerEvents
<1> QED
  BY Zenon, <1>1, <1>2

\* A commit shows the commands of the ledger, and no others.
LEMMA CommitFinishes ==
    ASSUME JournalInv, [Next]_vars, CommitFence, NEW r \in Requests
    PROVE  /\ r \in fence_ledger.requests => Status(r)' = "visible"
           /\ r \notin fence_ledger.requests => Status(r)' = Status(r)
           /\ EntriesOf(r)' = EntriesOf(r)
<1>1. pc = "deferred" /\ UNCHANGED <<entries, cancelVars>> /\ ~Gone /\ ~Committing
  BY Zenon DEF CommitFence, indexVars, Gone, Committing
<1>2. EntriesOf(r)' = EntriesOf(r)
  BY Zenon, <1>1 DEF EntriesOf
<1>3. ASSUME NEW e \in EntriesOf(r), Published(e) \/ e.seq \in FenceRange, e.seq \notin cancelled_ranges
      PROVE  Seen(e)'
  <2>1. e \in entries
    BY Zenon DEF EntriesOf
  <2>2. e.seq < visible' /\ e.seq < lane_visible'[e.lane]
    BY Zenon, <1>3, <2>1, JournalParts, PublishedStays, PublishedByCommit
  <2>3. e.seq \notin lane_cancelled_ranges[e.lane]
    BY Zenon, <1>3, <2>1, JournalParts DEF CancelledOK
  <2> QED
    BY Zenon, <1>1, <1>3, <2>2, <2>3 DEF Seen, SeenOnLane, is_visible, is_visible_on_lane, cancelVars
<1>4. ASSUME r \in fence_ledger.requests
      PROVE  Status(r)' = "visible"
  <2>1. EntriesOf(r) # {}
    BY Zenon, <1>4, JournalParts DEF TransactionOK
  <2>2. \A e \in EntriesOf(r) : e.seq \in FenceRange /\ e.seq \notin cancelled_ranges
    BY Zenon, <1>1, <1>4, LedgerEvents DEF EntriesOf
  <2>3. \A e \in EntriesOf(r)' : Seen(e)'
    BY Zenon, <1>2, <1>3, <2>2
  <2> QED
    BY Zenon, <1>2, <2>1, <2>3, VisibleNext
<1>5. ASSUME r \notin fence_ledger.requests
      PROVE  Status(r)' = Status(r)
  <2>1. ASSUME NEW e \in EntriesOf(r)
        PROVE  /\ Seen(e)' <=> Seen(e)
               /\ e.seq \in cancelled_ranges' <=> e.seq \in cancelled_ranges
    <3>1. e \in entries /\ e.request = r /\ e.seq \notin FenceRange
      BY Zenon, <1>1, <1>5, LedgerEvents DEF EntriesOf
    <3>2. Published(e) \/ e.seq \in cancelled_ranges
      BY Zenon, <1>1, <3>1, JournalParts DEF PlacedOK, Published
    <3>3. CASE e.seq \in cancelled_ranges
      BY Zenon, <1>1, <3>3 DEF Seen, is_visible, cancelVars
    <3>4. CASE Published(e) /\ e.seq \notin cancelled_ranges
      BY Zenon, <1>1, <1>3, <3>1, <3>4, SeenIff DEF cancelVars
    <3> QED
      BY Zenon, <3>2, <3>3, <3>4
  <2> QED
    BY Zenon, <1>2, <2>1, StatusKept
<1> QED
  BY Zenon, <1>2, <1>4, <1>5

\* A cancel hides the commands of the ledger, and no others.
LEMMA CancelFinishes ==
    ASSUME JournalInv, CancelInIndex(fence_ledger.token), UNCHANGED <<entries, published>>,
           pc \in {"execute", "shutdown_drain"}, NEW r \in Requests
    PROVE  /\ r \in fence_ledger.requests => Status(r)' = "hidden"
           /\ r \notin fence_ledger.requests => Status(r)' = Status(r)
           /\ EntriesOf(r)' = EntriesOf(r)
<1>1. ~Gone /\ ~Committing /\ pc # "persist"
  BY Zenon DEF Gone, Committing
<1>2. EntriesOf(r)' = EntriesOf(r)
  BY Zenon DEF EntriesOf
<1>3. /\ cancelled_ranges' = cancelled_ranges \cup FenceRange
      /\ \A l \in Lanes : /\ lane_cancelled_ranges'[l] \subseteq lane_cancelled_ranges[l] \cup FenceRange
                          /\ lane_cancelled_ranges[l] \subseteq lane_cancelled_ranges'[l]
  <2>1. \A l \in Lanes : lane_cancelled_ranges[l] \subseteq lane_cancelled_ranges'[l]
    BY Zenon DEF CancelInIndex, cancel_fence
  <2> QED
    BY Zenon, <2>1, JournalParts, CancelEffect
<1>4. ASSUME r \in fence_ledger.requests
      PROVE  Status(r)' = "hidden"
  <2>1. EntriesOf(r) # {}
    BY Zenon, <1>4, JournalParts DEF TransactionOK
  <2>2. \A e \in EntriesOf(r)' : e.seq \in cancelled_ranges'
    BY Zenon, <1>1, <1>2, <1>3, <1>4, LedgerEvents DEF EntriesOf
  <2>3. ~(\A e \in EntriesOf(r)' : Seen(e)')
    BY Zenon, <1>2, <2>1, <2>2 DEF Seen, is_visible
  <2> QED
    BY Zenon, <1>2, <2>1, <2>2, <2>3 DEF Status
<1>5. ASSUME r \notin fence_ledger.requests
      PROVE  Status(r)' = Status(r)
  <2>1. ASSUME NEW e \in EntriesOf(r)
        PROVE  /\ Seen(e)' <=> Seen(e)
               /\ e.seq \in cancelled_ranges' <=> e.seq \in cancelled_ranges
    <3>1. e \in entries /\ e.request = r /\ e.seq \notin FenceRange /\ e.lane \in Lanes
      BY Zenon, <1>1, <1>5, LedgerEvents, JournalParts DEF EntriesOf
    <3>2. e.seq \in cancelled_ranges' <=> e.seq \in cancelled_ranges
      BY Zenon, <1>3, <3>1
    <3>3. e.seq \in lane_cancelled_ranges'[e.lane] <=> e.seq \in lane_cancelled_ranges[e.lane]
      BY Zenon, <1>3, <3>1
    <3> QED
      BY Zenon, <3>2, <3>3 DEF Seen, SeenOnLane, is_visible, is_visible_on_lane, published
  <2> QED
    BY Zenon, <1>2, <2>1, StatusKept
<1> QED
  BY Zenon, <1>2, <1>4, <1>5

-----------------------------------------------------------------------------
(* What callers are told.                                                  *)

\* The writer answers whom it or the ledger or the channel holds.
LEMMA WriterAnswers ==
    ASSUME JournalInv, WriterMoves, ~Panic, NEW r \in Requests, reply'[r] # reply[r]
    PROVE  /\ reply[r] = "sent"
           /\ \/ request[r].op \notin AppendOps
              \/ reply'[r] = "dropped"
              \/ reply'[r] = "cancelled" /\ r \in fence_ledger.requests /\ (PersistCancel \/ AutoCancelFence)
              \/ reply'[r] = "ok" /\ r = cur /\ BroadcastAppend
              \/ reply'[r] = "ok" /\ r \in fence_ledger.requests /\ BroadcastFence
              \/ reply'[r] = "error" /\ r = cur /\ Executing /\ pc \notin {"index", "publish", "broadcast"}
<1>1. /\ Executing => reply[cur] = "sent"
      /\ r \in fence_ledger.requests => reply[r] = "sent"
      /\ r \in Queued => reply[r] = "sent"
      /\ r \in Draining => reply[r] = "sent" /\ request[r].op = "Shutdown"
  <2>1. Executing => reply[cur] = "sent"
    BY Zenon, JournalParts, CurrentHeld
  <2>2. r \in Queued => reply[r] = "sent"
    BY Zenon, JournalParts DEF RespondersOK, Queued
  <2> QED
    BY Zenon, <2>1, <2>2, JournalParts DEF RespondersOK, Draining
<1>2. "Shutdown" \notin AppendOps /\ "Sync" \notin AppendOps /\ "BeginVisibilityFence" \notin AppendOps
      /\ "CommitVisibilityFence" \notin AppendOps /\ "CancelVisibilityFence" \notin AppendOps
  BY Zenon DEF AppendOps
<1>3. ASSUME NEW rs, NEW how, Answer(rs, how)
      PROVE  r \in rs /\ reply'[r] = how
  BY Zenon, <1>3 DEF Answer
<1>4. CASE RefuseAppend \/ RotateFails \/ WriteFails \/ SyncBatch
  <2>1. Answer({cur}, "error") /\ pc \in {"execute", "rotate", "write", "sync_batch"}
    BY Zenon, <1>4 DEF RefuseAppend, RotateFails, WriteFails, SyncBatch, FailAppend
  <2>2. Executing
    BY Zenon, <2>1 DEF Executing, Busy
  <2>3. r = cur /\ reply'[r] = "error"
    BY Zenon, <2>1 DEF Answer
  <2> QED
    BY Zenon, <1>1, <2>1, <2>2, <2>3
<1>5. CASE BroadcastAppend
  <2>1. r = cur /\ reply'[r] = "ok" /\ Executing
    BY Zenon, <1>5 DEF BroadcastAppend, Answer, Executing, Busy
  <2> QED
    BY Zenon, <1>1, <1>5, <2>1
<1>6. CASE ExecuteBegin \/ DeferredBegin \/ CommitRefused \/ CancelRefused \/ DeferredSync
  <2>1. /\ \E how : Answer({cur}, how)
        /\ request[cur].op \notin AppendOps /\ Executing
    BY Zenon, <1>2, <1>6
       DEF ExecuteBegin, DeferredBegin, BeginLedger, CommitRefused, CancelRefused, DeferredSync, Executing, Busy
  <2> QED
    BY Zenon, <1>1, <1>3, <2>1
<1>7. CASE CommitFails
  <2>1. Executing /\ request[cur].op = "CommitVisibilityFence"
    BY Zenon, <1>7 DEF CommitFails, Executing, Busy
  <2>2. (r \in fence_ledger.requests /\ reply'[r] = "dropped") \/ r = cur
    BY Zenon, <1>7 DEF CommitFails
  <2> QED
    BY Zenon, <1>1, <1>2, <2>1, <2>2
<1>8. CASE BroadcastFence
  <2>1. Executing /\ request[cur].op = "CommitVisibilityFence" /\ reply'[r] = "ok"
        /\ r \in fence_ledger.requests \cup {cur}
    BY Zenon, <1>3, <1>8 DEF BroadcastFence, Executing, Busy
  <2> QED
    BY Zenon, <1>1, <1>2, <1>8, <2>1
<1>9. CASE PersistCancel
  <2>1. Executing /\ request[cur].op = "CancelVisibilityFence"
    BY Zenon, <1>9, JournalParts DEF PersistCancel, Executing, Busy, ControlOK, StepOK
  <2>2. (r \in fence_ledger.requests /\ reply'[r] \in {"cancelled", "dropped"}) \/ r = cur
    BY Zenon, <1>9 DEF PersistCancel
  <2> QED
    BY Zenon, <1>1, <1>2, <1>9, <2>1, <2>2
<1>10. CASE DeferredShutdown
  <2>1. Executing /\ request[cur].op = "Shutdown"
    BY Zenon, <1>10 DEF DeferredShutdown, Executing, Busy
  <2>2. r = cur \/ (r \in Queued \cup fence_ledger.requests /\ reply'[r] = "dropped")
    BY Zenon, <1>10 DEF DeferredShutdown
  <2> QED
    BY Zenon, <1>1, <1>2, <2>1, <2>2
<1>11. CASE AutoCancelFence
  <2>1. r \in fence_ledger.requests /\ reply'[r] = "cancelled"
    BY Zenon, <1>3, <1>11 DEF AutoCancelFence
  <2> QED
    BY Zenon, <1>1, <1>11, <2>1
<1>12. CASE FinishShutdown
  <2>1. r \in Draining \/ (r \in Queued /\ reply'[r] = "dropped")
    BY Zenon, <1>12 DEF FinishShutdown
  <2> QED
    BY Zenon, <1>1, <1>2, <2>1
<1>13. ~UNCHANGED reply
  BY Zenon
<1> QED
  BY Zenon, <1>4, <1>5, <1>6, <1>7, <1>8, <1>9, <1>10, <1>11, <1>12, <1>13
     DEF WriterMoves, WriterStep, AppendStep, FenceStep, LoopStep, StartAppend, AcceptItem, RotateSegment,
         WriteFrame, IndexAppend, PublishAppend, CommitFence, CancelFence, Receive, EndDrain, PeriodicSync,
         SyncBarrier, StartShutdown

\* "ok" is said of what is seen.
LEMMA OkVisible ==
    ASSUME JournalInv, NEW r \in Requests,
           (BroadcastAppend /\ r = cur) \/ (BroadcastFence /\ r \in fence_ledger.requests)
    PROVE  Status(r)' = "visible"
<1>1. UNCHANGED <<entries, published, cancelVars>>
  BY Zenon DEF BroadcastAppend, BroadcastFence, gateVars, published, cancelVars
<1>2. ASSUME EntriesOf(r) # {}, \A e \in EntriesOf(r) : Published(e) /\ e.seq \notin cancelled_ranges
      PROVE  Status(r)' = "visible"
  <2>1. \A e \in EntriesOf(r) : Seen(e)
    BY Zenon, <1>2, SeenIff DEF EntriesOf
  <2> QED
    BY Zenon, <1>1, <1>2, <2>1, StatusCases, StatusSame
<1>3. CASE BroadcastAppend /\ r = cur
  <2>1. AppendBroadcast
    BY Zenon, <1>3 DEF BroadcastAppend, AppendBroadcast, Committing, AppendOps
  <2>2. EntriesOf(r) # {} /\ LastSeq \in Nat
    BY Zenon, <1>3, <2>1, CurrentEvents
  <2>3. ASSUME NEW e \in EntriesOf(r)
        PROVE  Published(e) /\ e.seq \notin cancelled_ranges
    <3>1. /\ e.seq < LastSeq + 1 /\ e.seq < work.points[e.lane] /\ e.seq \notin cancelled_ranges
      BY Zenon, <1>3, <2>1, CurrentEvents
    <3>2. e.seq \in Nat /\ e.lane \in Lanes
      BY Zenon, JournalParts DEF EntriesOf
    <3>3. /\ visible = LastSeq + 1 /\ work.points[e.lane] <= lane_visible[e.lane]
          /\ work.points[e.lane] \in Nat /\ lane_visible[e.lane] \in Nat
      BY Zenon, <2>1, <3>2, JournalParts, HidingParts DEF BoundsOK, LoopTypeOK, GateTypeOK
    <3> QED
      BY <3>1, <3>2, <3>3 DEF Published
  <2> QED
    BY Zenon, <1>2, <2>2, <2>3
<1>4. CASE BroadcastFence /\ r \in fence_ledger.requests
  <2>1. Committing
    BY Zenon, <1>4 DEF BroadcastFence, Committing
  <2>2. EntriesOf(r) # {}
    BY Zenon, <1>4, JournalParts DEF TransactionOK
  <2>3. ASSUME NEW e \in EntriesOf(r)
        PROVE  Published(e) /\ e.seq \notin cancelled_ranges
    <3>1. e \in entries /\ e.request = r /\ e.seq \in Nat /\ e.lane \in Lanes
      BY Zenon, JournalParts DEF EntriesOf
    <3>2. e.seq \in fence_ledger.seqs
      BY Zenon, <1>4, <3>1, JournalParts DEF HiddenOK
    <3>3. e.seq < fence_ledger.up_to /\ e.seq < fence_ledger.points[e.lane] /\ e.seq \notin cancelled_ranges
      BY Zenon, <2>1, <3>1, <3>2, JournalParts DEF LedgerOK, TransactionOK
    <3>4. fence_ledger.up_to <= visible /\ fence_ledger.points[e.lane] <= lane_visible[e.lane]
      BY Zenon, <2>1, <3>1, JournalParts DEF LedgerOK
    <3>5. /\ visible \in Nat /\ lane_visible[e.lane] \in Nat /\ fence_ledger.up_to \in Nat
          /\ fence_ledger.points[e.lane] \in Nat
      BY Zenon, <3>1, JournalParts, StagedParts
    <3> QED
      BY <3>1, <3>3, <3>4, <3>5 DEF Published
  <2> QED
    BY Zenon, <1>2, <2>2, <2>3
<1> QED
  BY Zenon, <1>3, <1>4

\* "cancelled" is said of what is hidden for good.
LEMMA CancelledHiddenNext ==
    ASSUME JournalInv, [Next]_vars, NEW r \in Requests, r \in fence_ledger.requests, reply'[r] = "cancelled",
           PersistCancel \/ AutoCancelFence
    PROVE  Status(r)' = "hidden"
<1>1. UNCHANGED entries
  BY Zenon DEF PersistCancel, AutoCancelFence
<1>2. EntriesOf(r)' = EntriesOf(r) /\ EntriesOf(r) # {}
  BY Zenon, <1>1, JournalParts DEF EntriesOf, TransactionOK
<1>3. HiddenOK'
  BY Zenon, JournalParts, HiddenStep
<1>4. \A e \in EntriesOf(r)' : e.seq \in cancelled_ranges'
  BY Zenon, <1>3 DEF HiddenOK, EntriesOf
<1>5. ~(\A e \in EntriesOf(r)' : Seen(e)')
  BY Zenon, <1>2, <1>4 DEF Seen, is_visible
<1> QED
  BY Zenon, <1>2, <1>4, <1>5 DEF Status

\* Callers are told once, and the truth.
LEMMA TellStep ==
    ASSUME JournalInv, [Next]_vars, ~Panic, NEW r \in Requests, AnswerNow'[r] # AnswerNow[r]
    PROVE  /\ AnswerNow[r] = "waiting"
           /\ AnswerNow'[r] = "ok" => Status(r)' = "visible"
           /\ AnswerNow'[r] = "cancelled" => Status(r)' = "hidden"
           /\ AnswerNow'[r] = "error" => Status(r)' = "none"
<1>1. /\ AnswerNow[r] = IF request[r].op \in AppendOps /\ reply[r] \notin {"unsent", "sent"}
                        THEN reply[r] ELSE "waiting"
      /\ AnswerNow'[r] = IF request'[r].op \in AppendOps /\ reply'[r] \notin {"unsent", "sent"}
                         THEN reply'[r] ELSE "waiting"
  BY Zenon DEF AnswerNow
<1>2. ASSUME EntriesOf(r) = {}, UNCHANGED entries
      PROVE  Status(r)' = "none"
  <2>1. EntriesOf(r)' = {}
    BY Zenon, <1>2 DEF EntriesOf
  <2> QED
    BY Zenon, <2>1 DEF Status
<1>3. CASE WriterMoves
  <2>1. UNCHANGED request
    BY Zenon, <1>3, WriterFrame
  <2>2. request[r].op \in AppendOps /\ reply'[r] # reply[r]
    BY Zenon, <1>1, <2>1
  <2>3. reply[r] = "sent" /\ AnswerNow[r] = "waiting"
    BY Zenon, <1>1, <1>3, <2>2, WriterAnswers
  <2>4. AnswerNow'[r] = reply'[r]
    BY Zenon, <1>1, <2>3
  <2>5. reply'[r] = "ok" => Status(r)' = "visible"
    <3>1. reply'[r] = "ok" => reply'[r] \notin {"dropped", "cancelled", "error"}
      BY Zenon
    <3> QED
      BY Zenon, <1>3, <2>2, <3>1, WriterAnswers, OkVisible
  <2>6. reply'[r] = "cancelled" => Status(r)' = "hidden"
    <3>1. reply'[r] = "cancelled" => reply'[r] \notin {"dropped", "ok", "error"}
      BY Zenon
    <3> QED
      BY Zenon, <1>3, <2>2, <3>1, WriterAnswers, CancelledHiddenNext
  <2>7. reply'[r] = "error" => Status(r)' = "none"
    <3>1. SUFFICES ASSUME reply'[r] = "error"
                   PROVE  Status(r)' = "none"
      BY Zenon
    <3>2. r = cur /\ Executing /\ pc \notin {"index", "publish", "broadcast"}
      BY Zenon, <1>3, <2>2, <3>1, WriterAnswers
    <3>3. EntriesOf(r) = {}
      BY Zenon, <3>2, JournalParts, CurrentNew
    <3>4. UNCHANGED entries
      BY Zenon, <3>2, IndexFrame DEF indexVars, IndexAppend, BroadcastAppend, BroadcastFence, PersistCancel,
         AutoCancelFence
    <3> QED
      BY Zenon, <1>2, <3>3, <3>4
  <2> QED
    BY Zenon, <2>3, <2>4, <2>5, <2>6, <2>7
<1>4. CASE ~WriterMoves
  <2>1. UNCHANGED entries /\ ControlOK /\ RespondersOK /\ reply \in [Requests -> Replies]
        /\ request \in [Requests -> Command \cup {NoRequest}] /\ issued \in Nat
    BY Zenon, <1>4, JournalParts, OutsideFrame, CommandIds DEF indexVars, ControlOK, TypeOK, CommandTypeOK
  <2>2. ~NoCommand
    BY Zenon, <1>1 DEF NoCommand
  <2>3. ASSUME NEW command, Prepare(command), r = issued + 1, reply'[r] \in {reply[r], "sent"}
        PROVE  FALSE
    <3>1. reply[r] = "unsent"
      BY <2>1, <2>3 DEF RespondersOK, Prepare
    <3> QED
      BY Zenon, <1>1, <2>3, <3>1
  <2>4. ASSUME NEW command, Prepare(command), r # issued + 1
        PROVE  request'[r] = request[r]
    BY Zenon, <2>1, <2>4 DEF Prepare
  <2>5. ASSUME NEW command, Issues(command)
        PROVE  FALSE
    <3>1. Prepare(command) /\ reply' = [reply EXCEPT ![issued + 1] = "sent"]
      BY Zenon, <2>5 DEF Issues, PrepareAndEnqueue, Enqueue
    <3>2. reply'[r] \in {reply[r], "sent"} /\ (r # issued + 1 => reply'[r] = reply[r])
      BY Zenon, <2>1, <3>1
    <3> QED
      BY Zenon, <1>1, <2>3, <2>4, <3>1, <3>2
  <2>6. ASSUME NEW c \in Clients, Routes(c)
        PROVE  FALSE
    BY Zenon, <1>1, <2>3, <2>4, <2>6 DEF Routes
  <2>7. ASSUME NEW c \in Clients, Leaves(c)
        PROVE  reply[r] = "unsent" /\ reply'[r] \in {"sent", "error"} /\ UNCHANGED request
    <3>1. UNCHANGED request /\ reply[client[c].req] = "unsent" /\ client[c].req \in Requests
      BY Zenon, <2>1, <2>7, CommandIds DEF Leaves, RespondersOK
    <3>2. \E how \in {"sent", "error"} : reply' = [reply EXCEPT ![client[c].req] = how]
      BY Zenon, <2>7 DEF Leaves, Enqueue
    <3>3. r = client[c].req
      BY Zenon, <1>1, <2>1, <3>1, <3>2
    <3> QED
      BY Zenon, <2>1, <3>1, <3>2, <3>3
  <2>8. reply[r] = "unsent" /\ reply'[r] \in {"sent", "error"} /\ UNCHANGED request
    BY Zenon, <1>1, <1>4, <2>1, <2>2, <2>5, <2>6, <2>7, OutsideCommands
  <2>9. EntriesOf(r) = {}
    BY Zenon, <2>8, JournalParts DEF EntriesOf, HeldOK
  <2>10. AnswerNow'[r] \in {"waiting", "error"} /\ AnswerNow[r] = "waiting"
    BY Zenon, <1>1, <2>8
  <2> QED
    BY Zenon, <1>2, <2>1, <2>9, <2>10
<1> QED
  BY Zenon, <1>3, <1>4

-----------------------------------------------------------------------------
(* The abstract journal.                                                   *)

\* The actions of the journal, over the store's state.
StageNow(r) ==
    /\ StatusNow[r] = "none"
    /\ StatusNow' = [StatusNow EXCEPT ![r] = "staged"]
    /\ GroupNow' = [GroupNow EXCEPT ![r] = GroupNow'[r]]
TransactionNow(r) ==
    IF GroupNow[r] = 0 THEN {r}
    ELSE {q \in Requests : StatusNow[q] = "staged" /\ GroupNow[q] = GroupNow[r]}
FinishNow(r, how) ==
    /\ StatusNow[r] = "staged"
    /\ StatusNow' = [q \in Requests |-> IF q \in TransactionNow(r) THEN how ELSE StatusNow[q]]
    /\ UNCHANGED GroupNow
TellNow ==
    \A r \in Requests :
        AnswerNow'[r] # AnswerNow[r] =>
            AnswerNow[r] = "waiting" /\ J!Honest(AnswerNow'[r], StatusNow'[r])

\* These are the actions of Journal under the refinement mapping.
LEMMA JournalActions ==
    ASSUME TellNow,
           \/ \E r \in Requests : StageNow(r) \/ FinishNow(r, "visible") \/ FinishNow(r, "hidden")
           \/ UNCHANGED <<StatusNow, GroupNow>>
    PROVE  J!Next
<1>1. \A r \in Requests : StageNow(r) => J!Stage(r)
  BY Zenon DEF StageNow, J!Stage, StatusNow, GroupNow
<1>2. \A r \in Requests : \A how : FinishNow(r, how) => J!Finish(r, how)
  BY Zenon DEF FinishNow, J!Finish, TransactionNow, J!Transaction, StatusNow, GroupNow
<1>3. TellNow => J!Tell
  BY Zenon DEF TellNow, J!Tell, StatusNow, AnswerNow
<1>4. UNCHANGED <<StatusNow, GroupNow>> => UNCHANGED <<[r \in Requests |-> Status(r)],
            [r \in Requests |-> IF EntriesOf(r) = {} THEN 0 ELSE request[r].token]>>
  BY Zenon DEF StatusNow, GroupNow
<1> QED
  BY Zenon, <1>1, <1>2, <1>3, <1>4 DEF J!Next

\* The group of a command moves only with its first event.
LEMMA GroupKept ==
    ASSUME JournalInv, [Next]_vars, NEW r \in Requests, EntriesOf(r)' = EntriesOf(r)
    PROVE  GroupNow'[r] = GroupNow[r]
<1>1. CASE EntriesOf(r) = {}
  BY Zenon, <1>1 DEF GroupNow
<1>2. CASE EntriesOf(r) # {}
  <2>1. PICK e \in entries : e.request = r
    BY Zenon, <1>2 DEF EntriesOf
  <2>2. request'[r] = request[r]
    BY Zenon, <2>1, JournalParts, EntriesSent, CommandsFixed
  <2> QED
    BY Zenon, <2>2 DEF GroupNow
<1> QED
  BY Zenon, <1>1, <1>2

\* When the commands of the ledger, and only they, get a new status, their
\* transaction is finished.
LEMMA LedgerFinishes ==
    ASSUME JournalInv, [Next]_vars, ~Gone, ~Committing, pc \notin {"persist", "publish"}, NEW how,
           \A r \in Requests :
               /\ r \in fence_ledger.requests => Status(r)' = how
               /\ r \notin fence_ledger.requests => Status(r)' = Status(r)
               /\ EntriesOf(r)' = EntriesOf(r)
    PROVE  (\E r \in Requests : FinishNow(r, how)) \/ UNCHANGED <<StatusNow, GroupNow>>
<1>1. UNCHANGED GroupNow
  <2>1. \A r \in Requests : GroupNow'[r] = GroupNow[r]
    BY Zenon, GroupKept
  <2> QED
    BY <2>1 DEF GroupNow
<1>2. CASE fence_ledger.requests = {}
  BY Zenon, <1>1, <1>2 DEF StatusNow
<1>3. ASSUME NEW r \in fence_ledger.requests
      PROVE  r \in Requests /\ FinishNow(r, how)
  <2>1. r \in Requests /\ fence_ledger.requests \subseteq Requests
    BY Zenon, <1>3, JournalParts, CommandIds
  <2>2. \A q \in Requests : Status(q) = "staged" <=> q \in fence_ledger.requests
    BY Zenon, StagedCommands
  <2>3. \A q \in fence_ledger.requests : GroupNow[q] = fence_ledger.token
    BY Zenon, <2>1, JournalParts DEF TransactionOK, GroupNow
  <2>4. fence_ledger.token # 0
    <3>1. NoLedger.requests = {}
      BY DEF NoLedger
    <3> QED
      BY Zenon, <1>3, <3>1, JournalParts DEF LedgerOK
  <2>5. \A q \in Requests : StatusNow[q] = Status(q)
    BY Zenon DEF StatusNow
  <2>6. TransactionNow(r) = fence_ledger.requests
    BY Zenon, <1>3, <2>1, <2>2, <2>3, <2>4, <2>5 DEF TransactionNow
  <2>7. StatusNow' = [q \in Requests |-> IF q \in fence_ledger.requests THEN how ELSE StatusNow[q]]
    BY Zenon, <2>5 DEF StatusNow
  <2> QED
    BY Zenon, <1>1, <1>3, <2>1, <2>2, <2>5, <2>6, <2>7 DEF FinishNow
<1> QED
  BY Zenon, <1>2, <1>3

\* Every step of the store is a step of the journal or leaves it alone.
LEMMA JournalNext ==
    ASSUME JournalInv, [Next]_vars, ~Panic
    PROVE  J!Next
<1>1. TellNow
  <2>1. \A r \in Requests : StatusNow'[r] = Status(r)'
    BY Zenon DEF StatusNow
  <2> QED
    BY Zenon, <2>1, TellStep DEF TellNow, J!Honest
<1>2. \A r \in Requests : StatusNow[r] = Status(r)
  BY Zenon DEF StatusNow
<1>3. ASSUME \A r \in Requests : Status(r)' = Status(r) /\ EntriesOf(r)' = EntriesOf(r)
      PROVE  UNCHANGED <<StatusNow, GroupNow>>
  <2>1. \A r \in Requests : GroupNow'[r] = GroupNow[r]
    BY Zenon, <1>3, GroupKept
  <2>2. UNCHANGED GroupNow
    BY <2>1 DEF GroupNow
  <2>3. UNCHANGED StatusNow
    BY Zenon, <1>3 DEF StatusNow
  <2> QED
    BY Zenon, <2>2, <2>3
<1>4. CASE UNCHANGED <<entries, published, cancelVars>>
  BY Zenon, <1>1, <1>3, <1>4, StatusSame, JournalActions
<1>5. CASE IndexAppend
  <2>1. PICK c \in Requests : c = cur
    BY Zenon, <1>5, JournalParts, IndexedSequences
  <2>2. /\ Status(c) = "none" /\ Status(c)' = "staged"
        /\ \A r \in Requests : r # c => Status(r)' = Status(r) /\ EntriesOf(r)' = EntriesOf(r)
    BY Zenon, <1>5, <2>1, IndexStages
  <2>3. \A r \in Requests : r # c => GroupNow'[r] = GroupNow[r]
    BY Zenon, <2>2, GroupKept
  <2>4. GroupNow' = [GroupNow EXCEPT ![c] = GroupNow'[c]]
    BY <2>3 DEF GroupNow
  <2>5. StatusNow' = [StatusNow EXCEPT ![c] = "staged"]
    BY <2>2 DEF StatusNow
  <2>6. StageNow(c)
    BY Zenon, <1>2, <2>2, <2>4, <2>5 DEF StageNow
  <2> QED
    BY Zenon, <1>1, <2>6, JournalActions
<1>6. CASE PublishAppend
  <2>1. PICK c \in Requests : c = cur
    BY Zenon, <1>6, JournalParts, CurrentEvents DEF PublishAppend
  <2>2. /\ Status(c) = "staged" /\ Status(c)' = "visible" /\ request[c].token = 0
        /\ \A r \in Requests : r # c => Status(r)' = Status(r)
        /\ \A r \in Requests : EntriesOf(r)' = EntriesOf(r)
    BY Zenon, <1>6, <2>1, PublishFinishes
  <2>3. \A r \in Requests : GroupNow'[r] = GroupNow[r]
    BY Zenon, <2>2, GroupKept
  <2>4. UNCHANGED GroupNow
    BY <2>3 DEF GroupNow
  <2>5. TransactionNow(c) = {c}
    BY Zenon, <2>2 DEF TransactionNow, GroupNow
  <2>6. StatusNow' = [q \in Requests |-> IF q \in {c} THEN "visible" ELSE StatusNow[q]]
    BY Zenon, <1>2, <2>2 DEF StatusNow
  <2>7. FinishNow(c, "visible")
    BY Zenon, <1>2, <2>2, <2>4, <2>5, <2>6 DEF FinishNow
  <2> QED
    BY Zenon, <1>1, <2>7, JournalActions
<1>7. CASE CommitFence
  <2>1. ~Gone /\ ~Committing /\ pc \notin {"persist", "publish"}
    BY Zenon, <1>7 DEF CommitFence, Gone, Committing
  <2> QED
    BY Zenon, <1>1, <1>7, <2>1, CommitFinishes, LedgerFinishes, JournalActions
<1>8. ASSUME CancelInIndex(fence_ledger.token), UNCHANGED <<entries, published>>,
             pc \in {"execute", "shutdown_drain"}
      PROVE  J!Next
  <2>1. ~Gone /\ ~Committing /\ pc \notin {"persist", "publish"}
    BY Zenon, <1>8 DEF Gone, Committing
  <2> QED
    BY Zenon, <1>1, <1>8, <2>1, CancelFinishes, LedgerFinishes, JournalActions
<1>9. CASE CancelFence
  BY Zenon, <1>8, <1>9 DEF CancelFence, indexVars
<1>10. CASE AutoCancelFence
  BY Zenon, <1>4, <1>8, <1>10 DEF AutoCancelFence
<1>11. CASE WriterMoves /\ ~IndexAppend /\ ~PublishAppend /\ ~CommitFence /\ ~CancelFence /\ ~AutoCancelFence
  <2>1. UNCHANGED <<published, cancelVars>>
    BY Zenon, <1>11, JournalParts, WriterGateFrame DEF gateVars, published, cancelVars, StartAppend
  <2>2. UNCHANGED entries
    BY Zenon, <1>11, IndexFrame DEF indexVars, BroadcastAppend, BroadcastFence, PersistCancel
  <2> QED
    BY Zenon, <1>4, <2>1, <2>2
<1>12. CASE ~WriterMoves
  BY Zenon, <1>4, <1>12, JournalParts, HidingByWriter
<1> QED
  BY Zenon, <1>5, <1>6, <1>7, <1>9, <1>10, <1>11, <1>12

\* With one producer and no panics the store implements the abstract journal:
\* an append, a batch or all of a fence appear whole or are hidden whole, what is
\* decided is final, and a caller is told once: "ok" only of what readers see,
\* "cancelled" only of what they never will, "error" only of what was never
\* staged (write_api.rs, fence_runtime.rs, writer/append.rs and runtime.rs).
THEOREM StoreIsJournal ==
    ASSUME OneProducer, MaxPanics = 0
    PROVE  Spec => RefinesJournal
<1>1. Init => J!Init
  <2>1. SUFFICES ASSUME Init
                 PROVE  J!Init
    BY Zenon
  <2>2. entries = {} /\ request = [r \in Requests |-> NoRequest] /\ reply = [r \in Requests |-> "unsent"]
    BY Zenon, <2>1 DEF Init, WriterInit
  <2>3. \A r \in Requests : EntriesOf(r) = {} /\ Status(r) = "none"
    BY Zenon, <2>2, StatusCases DEF EntriesOf
  <2>4. \A r \in Requests : reply[r] = "unsent"
    BY Zenon, <2>2
  <2> QED
    BY Zenon, <2>3, <2>4 DEF J!Init
<1>2. JournalInv /\ [Next]_vars => [J!Next]_(J!vars)
  BY Zenon, JournalNext, JournalParts, NoPanic
<1> QED
  BY <1>1, <1>2, JournalInvariant, PTL DEF RefinesJournal, J!Spec, Spec
=============================================================================
