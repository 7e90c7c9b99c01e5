-------------------------- MODULE WriteFenceProofs --------------------------
(***************************************************************************)
(* What a cancelled fence hides, and that batches are never cut: the fifth *)
(* layer of the inductive invariant.  Then, for one producer, where its    *)
(* commands wait and what its open fence has staged.                       *)
(***************************************************************************)
EXTENDS WriteGateProofs

\* The inductive invariant of what is hidden.
HidingInv == GateInv /\ HeldOK /\ HiddenOK /\ CancelledOK /\ CutsOK

\* Replies, outside the writer: a command that has events keeps its reply.
LEMMA OutsideReplies ==
    ASSUME GateInv, HeldOK, [Next]_vars, ~WriterMoves
    PROVE  \A e \in entries : reply'[e.request] = reply[e.request]
<1>1. /\ ControlOK /\ RespondersOK /\ reply \in [Requests -> Replies] /\ issued \in Nat
      /\ \A e \in entries : e.request \in Requests
  BY Zenon, CommandIds DEF GateInv, HoldersOK, ControlOK, TypeOK, IndexTypeOK
<1>2. CASE UNCHANGED reply
  BY Zenon, <1>2
<1>3. ASSUME NEW r \in Requests, reply[r] = "unsent", NEW how, reply' = [reply EXCEPT ![r] = how]
      PROVE  \A e \in entries : reply'[e.request] = reply[e.request]
  BY Zenon, <1>1, <1>3 DEF HeldOK
<1>4. ASSUME NEW command, PrepareAndEnqueue(command)
      PROVE  \A e \in entries : reply'[e.request] = reply[e.request]
  <2>1. issued + 1 \in Requests /\ reply' = [reply EXCEPT ![issued + 1] = "sent"]
    BY <1>1, <1>4, WriterAssumption DEF PrepareAndEnqueue, Prepare, Enqueue, Requests
  <2>2. reply[issued + 1] = "unsent"
    BY <1>1, <2>1 DEF RespondersOK
  <2> QED
    BY Zenon, <1>3, <2>1, <2>2
<1>5. ASSUME NEW c \in Clients, Send(c) \/ SendFails(c)
      PROVE  \A e \in entries : reply'[e.request] = reply[e.request]
  <2>1. client[c].at = "routed" /\ \E how : reply' = [reply EXCEPT ![client[c].req] = how]
    BY Zenon, <1>5 DEF Send, SendFails, Enqueue
  <2>2. client[c].req \in Requests /\ reply[client[c].req] = "unsent"
    BY Zenon, <1>1, <2>1, CommandIds DEF RespondersOK
  <2> QED
    BY Zenon, <1>3, <2>1, <2>2
<1>6. ASSUME NEW c \in Clients,
             \/ Route(c) \/ SubmitSync(c) \/ BeginFence(c) \/ SendBegin(c) \/ SendBeginFails(c)
             \/ AwaitBegin(c) \/ FinishFence(c) \/ AwaitFinish(c) \/ DropFence(c)
      PROVE  \A e \in entries : reply'[e.request] = reply[e.request]
  BY Zenon, <1>2, <1>4, <1>6 DEF Route, SubmitSync, BeginFence, SendBegin, SendBeginFails, AwaitBegin,
     FinishFence, AwaitFinish, DropFence
<1>7. CASE HelperSend \/ CloseEvent \/ SendShutdown \/ UNCHANGED vars
  BY Zenon, <1>2, <1>4, <1>7 DEF HelperSend, CloseEvent, SendShutdown, vars, writerVars
<1> QED
  BY Zenon, <1>5, <1>6, <1>7 DEF Next, ClientStep

\* Replies, inside the writer: what a step may tell a command with events.
LEMMA WriterReplies ==
    ASSUME GateInv, HeldOK, WriterMoves
    PROVE  \A r \in Requests :
               \/ reply'[r] = reply[r]
               \/ reply'[r] \in {"ok", "error", "dropped"}
               \/ /\ r \in fence_ledger.requests /\ reply'[r] = "cancelled"
                  /\ PersistCancel \/ (AutoCancelFence /\ fence_ledger.token # 0)
<1> DEFINE Plain == \A r \in Requests : reply'[r] = reply[r] \/ reply'[r] \in {"ok", "error", "dropped"}
<1>1. ASSUME NEW rs, NEW how \in {"ok", "error", "dropped"}, Answer(rs, how)
      PROVE  Plain
  BY Zenon, <1>1 DEF Answer
<1>2. CASE AppendStep
  BY Zenon, <1>1, <1>2 DEF AppendStep, StartAppend, RefuseAppend, AcceptItem, RotateSegment, RotateFails,
     WriteFrame, WriteFails, SyncBatch, IndexAppend, PublishAppend, BroadcastAppend, FailAppend
<1>3. CASE ExecuteBegin \/ DeferredBegin \/ CommitRefused \/ CommitFence \/ BroadcastFence
           \/ CancelRefused \/ CancelFence
  BY Zenon, <1>1, <1>3 DEF ExecuteBegin, DeferredBegin, CommitRefused, CommitFence, BroadcastFence,
     CancelRefused, CancelFence, BeginLedger
<1>4. CASE CommitFails
  BY Zenon, <1>4 DEF CommitFails
<1>5. CASE PersistCancel
  BY Zenon, <1>5 DEF PersistCancel
<1>6. CASE Receive \/ EndDrain \/ PeriodicSync \/ SyncBarrier \/ DeferredSync \/ StartShutdown
  BY Zenon, <1>1, <1>6 DEF Receive, EndDrain, PeriodicSync, SyncBarrier, DeferredSync, StartShutdown
<1>7. CASE AutoCancelFence
  BY Zenon, <1>7 DEF AutoCancelFence, Answer
<1>8. CASE DeferredShutdown \/ FinishShutdown
  BY Zenon, <1>8 DEF DeferredShutdown, FinishShutdown
<1>9. CASE Panic
  BY Zenon, <1>1, <1>9 DEF Panic
<1> QED
  BY Zenon, <1>2, <1>3, <1>4, <1>5, <1>6, <1>7, <1>8, <1>9 DEF WriterMoves, WriterStep, FenceStep, LoopStep

\* Which steps change the ledger, and that all others keep its requests waiting.
LEMMA HeldStep ==
    ASSUME GateInv, HeldOK, [Next]_vars
    PROVE  HeldOK'
<1>1. /\ ControlOK /\ RespondersOK /\ LedgerOK /\ LoopTypeOK
      /\ fence_ledger.requests \subseteq Requests /\ NoLedger.requests = {}
      /\ \A e \in entries : e.request \in Requests
  BY Zenon DEF GateInv, GateOK, HoldersOK, ControlOK, TypeOK, IndexTypeOK, LedgerTypeOK, NoLedger
<1>2. CASE ~WriterMoves
  <2>1. UNCHANGED <<pc, cur, fence_ledger, entries>>
    BY Zenon, <1>1, <1>2, OutsideFrame DEF loopVars, indexVars
  <2> QED
    BY Zenon, <1>2, <2>1, OutsideReplies DEF HeldOK
<1>3. ASSUME WriterMoves
      PROVE  \A r \in Requests :
                 /\ reply[r] # "unsent" => reply'[r] # "unsent"
                 /\ reply'[r] = "sent" => reply[r] = "sent"
  BY Zenon, <1>3, WriterReplies
<1>4. ASSUME WriterMoves, UNCHANGED entries,
             \A e \in entries : reply[e.request] = "sent" /\ reply'[e.request] = "sent" =>
                 e.request \in fence_ledger'.requests
      PROVE  HeldOK'
  BY Zenon, <1>1, <1>3, <1>4 DEF HeldOK
<1>5. ASSUME WriterMoves, UNCHANGED entries, fence_ledger'.requests = fence_ledger.requests,
             pc \notin {"publish", "broadcast"}
      PROVE  HeldOK'
  BY Zenon, <1>1, <1>3, <1>5 DEF HeldOK
<1>6. CASE IndexAppend
  <2>1. pc = "index" /\ UNCHANGED <<reply, cur>>
    BY Zenon, <1>1, <1>6, Settled DEF IndexAppend
  <2>2. reply[cur] = "sent" /\ cur \in Requests
    BY Zenon, <1>1, <2>1, CurrentHeld DEF Executing, Busy
  <2>3. \A e \in entries' : e \in entries \/ e.request = cur
    BY <1>6 DEF IndexAppend
  <2>4. CASE Fenced(cur)
    <3>1. fence_ledger'.requests = fence_ledger.requests \cup {cur}
      BY Zenon, <1>1, <1>6, <2>4 DEF IndexAppend, ControlOK, TypeOK, LedgerTypeOK
    <3> QED
      BY Zenon, <2>1, <2>2, <2>3, <3>1 DEF HeldOK
  <2>5. CASE ~Fenced(cur)
    <3>1. UNCHANGED fence_ledger /\ pc' = "publish"
      BY Zenon, <1>6, <2>5 DEF IndexAppend
    <3> QED
      BY Zenon, <2>1, <2>2, <2>3, <3>1 DEF HeldOK
  <2> QED
    BY Zenon, <2>4, <2>5
<1>7. CASE PublishAppend
  <2>1. pc = "publish" /\ pc' = "broadcast" /\ UNCHANGED <<cur, reply, entries, fence_ledger>>
    BY Zenon, <1>7 DEF PublishAppend, indexVars
  <2> QED
    BY Zenon, <2>1 DEF HeldOK
<1>8. CASE WriterMoves /\ BroadcastAppend
  <2>1. /\ UNCHANGED <<entries, fence_ledger>> /\ reply'[cur] = "ok"
    BY Zenon, <1>1, <1>8, CurrentCommand DEF BroadcastAppend, Answer, Busy
  <2> QED
    BY Zenon, <1>1, <1>4, <1>8, <2>1 DEF HeldOK
<1>9. ASSUME WriterMoves, UNCHANGED entries, pc \notin {"publish", "broadcast"},
             \A r \in fence_ledger.requests : reply'[r] # "sent"
      PROVE  HeldOK'
  BY Zenon, <1>1, <1>4, <1>9 DEF HeldOK
<1>10. CASE WriterMoves /\ (CommitFails \/ PersistCancel \/ DeferredShutdown)
  BY Zenon, <1>1, <1>9, <1>10 DEF CommitFails, PersistCancel, DeferredShutdown, indexVars
<1>11. CASE WriterMoves /\ BroadcastFence
  <2>1. UNCHANGED entries /\ \A r \in fence_ledger.requests \cup {cur} : r \in Requests => reply'[r] = "ok"
    BY Zenon, <1>11 DEF BroadcastFence, Answer
  <2> QED
    BY Zenon, <1>1, <1>4, <1>11, <2>1 DEF HeldOK
<1>12. CASE WriterMoves /\ AutoCancelFence
  <2>1. pc = "shutdown_drain" /\ UNCHANGED entries
    BY Zenon, <1>12 DEF AutoCancelFence
  <2>2. CASE fence_ledger.token = 0
    BY Zenon, <1>1, <1>9, <1>12, <2>1, <2>2 DEF LedgerOK
  <2>3. CASE fence_ledger.token # 0
    <3>1. \A r \in fence_ledger.requests : reply'[r] = "cancelled"
      BY Zenon, <1>1, <1>12, <2>3 DEF AutoCancelFence, Answer
    <3> QED
      BY Zenon, <1>9, <1>12, <2>1, <3>1
  <2> QED
    BY Zenon, <2>2, <2>3
<1>13. CASE WriterMoves /\ Panic
  <2>1. UNCHANGED entries /\ \E more : Answer(Unwound \cup more, "dropped")
    <3>1. Unwound = Unwound \cup {}
      BY Zenon
    <3> QED
      BY Zenon, <1>13, <3>1 DEF Panic
  <2>2. \A r \in fence_ledger.requests : reply[r] = "sent" /\ r \notin Queued
    BY <1>1 DEF RespondersOK, Queued
  <2>3. pc \in {"publish", "broadcast"} => cur \in Requests /\ reply[cur] = "sent" /\ cur \notin Queued
    BY Zenon, <1>1, CurrentHeld DEF Executing, Busy, Queued
  <2>4. \A e \in entries : reply[e.request] = "sent" => e.request \in Unwound
    BY Zenon, <1>1, <2>2, <2>3 DEF HeldOK, Unwound
  <2>5. \A e \in entries : reply[e.request] = "sent" => reply'[e.request] = "dropped"
    BY Zenon, <1>1, <2>1, <2>4 DEF Answer
  <2> QED
    BY Zenon, <1>4, <1>13, <2>1, <2>5
<1>14. CASE WriterMoves /\ (ExecuteBegin \/ DeferredBegin)
  <2>1. pc \in {"execute", "deferred"} /\ UNCHANGED entries
    BY Zenon, <1>14 DEF ExecuteBegin, DeferredBegin, indexVars
  <2>2. CASE UNCHANGED fence_ledger
    BY Zenon, <1>5, <1>14, <2>1, <2>2
  <2>3. CASE ~UNCHANGED fence_ledger
    <3>1. fence_ledger.token = 0
      BY Zenon, <1>14, <2>3 DEF ExecuteBegin, DeferredBegin, BeginLedger
    <3>2. fence_ledger.requests = {}
      BY Zenon, <1>1, <3>1 DEF LedgerOK
    <3> QED
      BY Zenon, <1>9, <1>14, <2>1, <3>2
  <2> QED
    BY Zenon, <2>2, <2>3
<1>15. CASE WriterMoves /\ (\/ StartAppend \/ RefuseAppend \/ AcceptItem \/ RotateSegment \/ RotateFails
                            \/ WriteFrame \/ WriteFails \/ SyncBatch)
  BY Zenon, <1>5, <1>15 DEF StartAppend, RefuseAppend, AcceptItem, RotateSegment, RotateFails, WriteFrame,
     WriteFails, SyncBatch, indexVars
<1>16. CASE WriterMoves /\ (\/ CommitRefused \/ CommitFence \/ CancelRefused \/ CancelFence)
  BY Zenon, <1>5, <1>16 DEF CommitRefused, CommitFence, CancelRefused, CancelFence, indexVars
<1>17. CASE WriterMoves /\ (\/ Receive \/ EndDrain \/ PeriodicSync \/ SyncBarrier \/ DeferredSync
                            \/ StartShutdown \/ FinishShutdown)
  BY Zenon, <1>5, <1>17 DEF Receive, EndDrain, PeriodicSync, SyncBarrier, DeferredSync, StartShutdown,
     FinishShutdown, indexVars
<1> QED
  BY Zenon, <1>2, <1>6, <1>7, <1>8, <1>10, <1>11, <1>12, <1>13, <1>14, <1>15, <1>16, <1>17
     DEF WriterMoves, WriterStep, AppendStep, FenceStep, LoopStep

-----------------------------------------------------------------------------
(* What a cancel hides.                                                    *)

\* A cancel closes the fence and adds its range, which was allocated.
LEMMA CancelEffect ==
    ASSUME GateInv, NEW token, CancelInIndex(token)
    PROVE  /\ CloseFence /\ cancelled_ranges' = cancelled_ranges \cup FenceRange
           /\ \A s \in FenceRange : s \in Nat /\ s < active_fence_end /\ s < allocated
           /\ \A l \in Lanes : lane_cancelled_ranges'[l] \subseteq
                  lane_cancelled_ranges[l] \cup FenceRange
<1>1. GateTypeOK /\ FenceRangeSound
  BY Zenon DEF GateInv, GateOK, HoldersOK, ControlOK, TypeOK
<1>2. CloseFence /\ cancelled_ranges' = cancelled_ranges \cup FenceRange
  BY Zenon DEF CancelInIndex, cancel_fence
<1>3. \A l \in Lanes : lane_cancelled_ranges'[l] = lane_cancelled_ranges[l] \cup
          {e.seq : e \in {x \in entries : x.lane = l /\ x.seq \in FenceRange}}
  BY Zenon DEF CancelInIndex, cancel_fence
<1>4. \A s \in FenceRange : s \in Nat /\ s < active_fence_end /\ s < allocated
  BY <1>1 DEF FenceRange, FenceRangeSound, GateTypeOK, Unset
<1> QED
  BY <1>2, <1>3, <1>4

\* The hidden sequences change only by a cancel, which indexes nothing.
LEMMA CancelSteps ==
    ASSUME GateInv, [Next]_vars
    PROVE  \/ UNCHANGED cancelVars
           \/ /\ \E token : CancelInIndex(token)
              /\ UNCHANGED <<allocated, entries, published>>
<1>1. ASSUME NEW token, CancelInIndex(token), UNCHANGED <<allocated, entries, published>>
      PROVE  \E t : CancelInIndex(t) /\ UNCHANGED <<allocated, entries, published>>
  BY Zenon, <1>1
<1>2. CASE UNCHANGED gateVars
  BY Zenon, <1>2 DEF gateVars, cancelVars
<1>3. CASE StartAppend \/ IndexAppend \/ PublishAppend \/ CommitFence
  BY Zenon, <1>3 DEF StartAppend, IndexAppend, PublishAppend, CommitFence
<1>4. CASE CancelFence
  BY Zenon, <1>1, <1>4 DEF CancelFence, indexVars
<1>5. CASE AutoCancelFence
  BY Zenon, <1>1, <1>5 DEF AutoCancelFence
<1>6. CASE Panic
  BY Zenon, <1>1, <1>6 DEF Panic
<1>7. ASSUME NEW c \in Clients, BeginFence(c) \/ SendBeginFails(c)
      PROVE  \/ UNCHANGED cancelVars
             \/ \E token : CancelInIndex(token) /\ UNCHANGED <<allocated, entries, published>>
  BY Zenon, <1>1, <1>7 DEF BeginFence, SendBeginFails, WriterAside, indexVars
<1> QED
  BY Zenon, <1>2, <1>3, <1>4, <1>5, <1>6, <1>7, GateFrame

\* What is hidden stays hidden.
LEMMA CancelledGrows ==
    ASSUME GateInv, [Next]_vars
    PROVE  cancelled_ranges \subseteq cancelled_ranges'
  BY Zenon, CancelSteps, CancelEffect DEF cancelVars

\* HiddenOK is inductive.
LEMMA HiddenStep ==
    ASSUME GateInv, HeldOK, HiddenOK, [Next]_vars
    PROVE  HiddenOK'
<1>1. /\ ControlOK /\ RespondersOK /\ LedgerOK /\ LedgerTypeOK /\ LoopTypeOK
      /\ NoLedger.requests = {} /\ \A t : [NoLedger EXCEPT !.token = t].requests = {}
      /\ \A e \in entries : e.request \in Requests
  BY Zenon DEF GateInv, GateOK, HoldersOK, ControlOK, TypeOK, IndexTypeOK, NoLedger
<1>2. cancelled_ranges \subseteq cancelled_ranges'
  BY Zenon, CancelledGrows
<1>3. CASE IndexAppend
  <2>1. pc = "index" /\ UNCHANGED reply
    BY Zenon, <1>3 DEF IndexAppend
  <2>2. reply[cur] = "sent" /\ cur \in Requests /\ cur \notin fence_ledger.requests
    BY Zenon, <1>1, <2>1, CurrentHeld DEF Executing, Busy
  <2>3. \A e \in entries : e.request # cur
    BY Zenon, <2>1, <2>2 DEF HeldOK
  <2>4. \A e \in entries' : e \in entries \/ (e.request = cur /\ e.seq \in CurSeqs)
    BY <1>3, IndexedSequences DEF IndexAppend, CurSeqs
  <2>5. CASE Fenced(cur)
    <3>1. /\ fence_ledger'.requests = fence_ledger.requests \cup {cur}
          /\ fence_ledger'.seqs = fence_ledger.seqs \cup CurSeqs
      BY Zenon, <1>1, <1>3, <2>5 DEF IndexAppend, LedgerTypeOK
    <3> QED
      BY Zenon, <1>2, <2>1, <2>2, <2>3, <2>4, <3>1 DEF HiddenOK
  <2>6. CASE ~Fenced(cur)
    <3>1. UNCHANGED fence_ledger
      BY Zenon, <1>3, <2>6 DEF IndexAppend
    <3> QED
      BY Zenon, <1>2, <2>1, <2>2, <2>4, <3>1 DEF HiddenOK
  <2> QED
    BY Zenon, <2>5, <2>6
<1>4. CASE ~IndexAppend
  <2>1. UNCHANGED entries
    BY Zenon, <1>4, IndexFrame DEF indexVars, BroadcastAppend, BroadcastFence, PersistCancel,
       AutoCancelFence, Panic
  <2>2. UNCHANGED fence_ledger \/ fence_ledger'.requests = {}
    BY Zenon, <1>1, <1>4, LedgerFrame DEF ExecuteBegin, DeferredBegin, BeginLedger, CommitFails,
       BroadcastFence, PersistCancel, DeferredShutdown, AutoCancelFence, Panic
  <2>3. ASSUME NEW e \in entries, reply'[e.request] = "cancelled"
        PROVE  e.seq \in cancelled_ranges'
    <3>1. CASE ~WriterMoves
      BY Zenon, <1>2, <2>3, <3>1, OutsideReplies DEF HiddenOK
    <3>2. CASE WriterMoves /\ reply'[e.request] = reply[e.request]
      BY Zenon, <1>2, <2>3, <3>2 DEF HiddenOK
    <3>3. CASE e.request \in fence_ledger.requests /\ PersistCancel
      BY Zenon, <1>1, <1>2, <3>3 DEF HiddenOK, LedgerOK, PersistCancel
    <3>4. CASE e.request \in fence_ledger.requests /\ AutoCancelFence /\ fence_ledger.token # 0
      <4>1. e.seq \in fence_ledger.seqs
        BY Zenon, <3>4 DEF HiddenOK
      <4>2. fence_ledger.seqs \subseteq FenceRange
        BY Zenon, <1>1, <3>4 DEF LedgerOK, LedgerOwnsFence, AutoCancelFence, Committing
      <4>3. CancelInIndex(fence_ledger.token)
        BY Zenon, <3>4 DEF AutoCancelFence
      <4> QED
        BY Zenon, <4>1, <4>2, <4>3, CancelEffect
    <3> QED
      BY Zenon, <1>1, <2>3, <3>1, <3>2, <3>3, <3>4, WriterReplies
  <2> QED
    BY Zenon, <2>1, <2>2, <2>3 DEF HiddenOK
<1> QED
  BY Zenon, <1>3, <1>4

-----------------------------------------------------------------------------
(* Where the bounds lie.                                                   *)

\* CancelledOK is inductive.
LEMMA CancelledStep ==
    ASSUME GateInv, CancelledOK, [Next]_vars
    PROVE  CancelledOK'
<1>1. /\ ControlOK /\ GateTypeOK /\ FenceRangeSound /\ LoopTypeOK
      /\ allocated \in Nat /\ allocated' \in Nat /\ allocated <= allocated'
      /\ active_fence_end \in Nat /\ work.first \in Nat /\ cancelled_ranges \subseteq Nat
  BY Zenon, AllocatedGrows DEF GateInv, GateOK, HoldersOK, ControlOK, TypeOK, GateTypeOK, LoopTypeOK
<1>2. \/ UNCHANGED cancelVars
      \/ /\ CloseFence /\ cancelled_ranges' = cancelled_ranges \cup FenceRange
         /\ \A s \in FenceRange : s \in Nat /\ s < active_fence_end /\ s < allocated
         /\ \A l \in Lanes : lane_cancelled_ranges'[l] \subseteq
                lane_cancelled_ranges[l] \cup FenceRange
  BY Zenon, CancelSteps, CancelEffect
<1>3. \A s \in cancelled_ranges' : s \in Nat /\ s < allocated'
  <2>1. \A s \in cancelled_ranges' : s \in Nat /\ s < allocated
    BY Zenon, <1>1, <1>2 DEF CancelledOK, cancelVars
  <2> QED
    BY <1>1, <2>1
<1>4. \A l \in Lanes : lane_cancelled_ranges'[l] \subseteq cancelled_ranges'
  BY Zenon, <1>2 DEF CancelledOK, cancelVars
<1>5. ASSUME Unindexed'
      PROVE  active_fence_end' <= work'.first /\ \A s \in cancelled_ranges' : s < work'.first
  <2>1. CASE StartAppend
    <3>1. work'.first = allocated /\ UNCHANGED <<active_fence_end, cancelled_ranges>>
      BY Zenon, <2>1 DEF StartAppend, fenceVars, cancelVars
    <3>2. active_fence_end <= allocated
      BY <1>1 DEF FenceRangeSound, Unset
    <3> QED
      BY Zenon, <1>1, <3>1, <3>2 DEF CancelledOK
  <2>2. CASE AcceptItem \/ Continue
    <3>1. Unindexed /\ work'.first = work.first /\ UNCHANGED gateVars
      BY Zenon, <1>1, <2>2, AcceptFrame, ContinueFrame DEF Unindexed
    <3> QED
      BY Zenon, <3>1 DEF CancelledOK, gateVars
  <2>3. CASE ~WriterMoves
    <3>1. Unindexed /\ UNCHANGED work
      BY Zenon, <1>1, <1>5, <2>3, OutsideFrame DEF loopVars, Unindexed
    <3>2. active_fence_end' \in {active_fence_end, 0}
      <4>1. ASSUME NEW c \in Clients, ClientStep(c)
            PROVE  active_fence_end' \in {active_fence_end, 0}
        BY Zenon, <4>1 DEF ClientStep, gateVars, Route, Send, SendFails, SubmitSync, BeginFence, begin_fence,
           begin_fence_refused, fenceVars, SendBegin, SendBeginFails, CancelInIndex, cancel_fence,
           CloseFence, AwaitBegin, FinishFence, AwaitFinish, DropFence
      <4>2. CASE HelperSend \/ CloseEvent \/ SendShutdown \/ UNCHANGED vars
        BY Zenon, <4>2 DEF gateVars, HelperSend, CloseEvent, SendShutdown, vars, writerVars
      <4> QED
        BY Zenon, <2>3, <4>1, <4>2 DEF Next
    <3>3. /\ work'.first = work.first /\ active_fence_end <= work.first
          /\ \A s \in cancelled_ranges : s < work.first
      BY Zenon, <3>1 DEF CancelledOK
    <3>4. active_fence_end' <= work'.first
      BY <1>1, <3>2, <3>3
    <3>5. \A s \in Nat : s < active_fence_end => s < work.first
      BY <1>1, <3>3
    <3> QED
      BY Zenon, <1>2, <3>3, <3>4, <3>5 DEF cancelVars
  <2>4. CASE IndexAppend \/ PublishAppend
    <3>1. pc' \notin {"accept", "rotate", "write", "sync_batch", "index"}
      BY Zenon, <1>1, <2>4, Settled DEF IndexAppend, PublishAppend
    <3> QED
      BY Zenon, <1>5, <3>1 DEF Unindexed
  <2>5. CASE WriterMoves /\ ~StartAppend /\ ~AcceptItem /\ ~Continue /\ ~IndexAppend /\ ~PublishAppend
    BY Zenon, <1>1, <1>5, <2>5, RestFrame DEF Unindexed, InAppend
  <2> QED
    BY Zenon, <2>1, <2>2, <2>3, <2>4, <2>5
<1> QED
  BY Zenon, <1>3, <1>4, <1>5 DEF CancelledOK

-----------------------------------------------------------------------------
(* Batches are not cut.                                                    *)

\* The bounds of readers, ledger and fence that a step keeps, takes over from
\* the ledger, clears, or moves above every event do not cut.
LEMMA CutsKept ==
    ASSUME CutsOK, GateTypeOK, IndexTypeOK, UNCHANGED entries,
           visible' \in {visible, fence_ledger.up_to} \/ \A e \in entries : e.seq < visible',
           \A l \in Lanes : \/ lane_visible'[l] \in {lane_visible[l], fence_ledger.points[l]}
                            \/ \A e \in entries : e.lane = l => e.seq < lane_visible'[l],
           fence_ledger'.up_to \in {fence_ledger.up_to, 0},
           \A l \in Lanes : fence_ledger'.points[l] \in {fence_ledger.points[l], 0},
           active_fence_start' \in {active_fence_start, Unset},
           active_fence_end' \in {active_fence_end, 0},
           cancelled_ranges' \in {cancelled_ranges, cancelled_ranges \cup FenceRange}
    PROVE  CutsOK'
<1>1. \A e \in entries : e.seq \in Nat
  BY Zenon DEF IndexTypeOK
<1>2. Cut(0) /\ Cut(Unset) /\ \A l \in Lanes : LaneCut(l, 0)
  BY <1>1 DEF Cut, LaneCut, Unset
<1>3. ASSUME NEW n, Cut(n)
      PROVE  \A e, f \in entries' : e.request = f.request => (e.seq < n <=> f.seq < n)
  BY Zenon, <1>3 DEF Cut
<1>4. ASSUME NEW l \in Lanes, NEW n, LaneCut(l, n)
      PROVE  \A e, f \in entries' :
                 e.request = f.request /\ e.lane = l /\ f.lane = l => (e.seq < n <=> f.seq < n)
  BY Zenon, <1>4 DEF LaneCut
<1>5. Cut(visible') /\ Cut(fence_ledger'.up_to) /\ Cut(active_fence_start') /\ Cut(active_fence_end')
  <2>1. Cut(visible')
    <3>1. CASE visible' \in {visible, fence_ledger.up_to}
      BY Zenon, <3>1 DEF CutsOK
    <3>2. CASE \A e \in entries : e.seq < visible'
      BY Zenon, <3>2 DEF Cut
    <3> QED
      BY Zenon, <3>1, <3>2
  <2> QED
    BY Zenon, <1>2, <2>1 DEF CutsOK
<1>6. \A l \in Lanes : LaneCut(l, lane_visible'[l]) /\ LaneCut(l, fence_ledger'.points[l])
  <2> SUFFICES ASSUME NEW l \in Lanes
               PROVE  LaneCut(l, lane_visible'[l]) /\ LaneCut(l, fence_ledger'.points[l])
    BY Zenon
  <2>1. CASE \A e \in entries : e.lane = l => e.seq < lane_visible'[l]
    BY <1>2, <2>1 DEF CutsOK, LaneCut
  <2> QED
    BY Zenon, <1>2, <2>1 DEF CutsOK
<1>7. \A e, f \in entries : e.request = f.request => (e.seq \in FenceRange <=> f.seq \in FenceRange)
  <2>1. CASE active_fence_start = Unset
    BY Zenon, <2>1 DEF FenceRange
  <2>2. CASE active_fence_start # Unset
    <3>1. \A e \in entries : e.seq \in FenceRange <=>
              ~(e.seq < active_fence_start) /\ e.seq < active_fence_end
      BY <1>1, <2>2 DEF FenceRange, GateTypeOK
    <3> QED
      BY Zenon, <3>1 DEF CutsOK, Cut
  <2> QED
    BY Zenon, <2>1, <2>2
<1>8. \A e, f \in entries' : e.request = f.request =>
          (e.seq \in cancelled_ranges' <=> f.seq \in cancelled_ranges')
  BY Zenon, <1>7 DEF CutsOK
<1>9. Cut(visible)' /\ Cut(fence_ledger.up_to)' /\ Cut(active_fence_start)' /\ Cut(active_fence_end)'
  BY Zenon, <1>5 DEF Cut
<1>10. \A l \in Lanes : LaneCut(l, lane_visible[l])' /\ LaneCut(l, fence_ledger.points[l])'
  BY Zenon, <1>6 DEF LaneCut
<1> QED
  BY Zenon, <1>8, <1>9, <1>10 DEF CutsOK

\* Every event is below the bounds that an unfenced publish sets.
LEMMA PublishedAbove ==
    ASSUME GateInv, pc = "publish"
    PROVE  /\ \A e \in entries : e.seq < LastSeq + 1
           /\ \A l \in Lanes : work.points[l] # 0 =>
                  \A e \in entries : e.lane = l => e.seq < work.points[l]
<1>1. /\ ControlOK /\ SequencesOK /\ PointsOK /\ LoopTypeOK /\ IndexTypeOK
  BY Zenon DEF GateInv, GateOK, HoldersOK, ControlOK, TypeOK
<1>2. /\ work.first \in Nat /\ work.points \in [Lanes -> Nat] /\ Count(cur) \in Nat
      /\ LastSeq = work.first + Count(cur) - 1 /\ \A e \in entries : e.seq \in Nat
  BY Zenon, <1>1, CurrentCommand DEF Busy, LoopTypeOK, IndexTypeOK, LastSeq
<1>3. \A e \in entries : e.seq < LastSeq + 1
  BY Zenon, <1>1 DEF SequencesOK, UniqueSequence
<1>4. ASSUME NEW l \in Lanes, work.points[l] # 0, NEW e \in entries, e.lane = l
      PROVE  e.seq < work.points[l]
  <2>1. work.first < work.points[l] /\ work.points[l] \in Nat
    BY Zenon, <1>1, <1>2, <1>4 DEF PointsOK, InAppend
  <2>2. CASE e.seq < work.first
    BY <1>2, <2>1, <2>2
  <2>3. CASE ~(e.seq < work.first)
    <3> DEFINE i == e.seq - work.first + 1
    <3>1. i \in 1 .. Count(cur) /\ work.first + i - 1 = e.seq
      BY <1>2, <1>3, <2>3
    <3>2. [seq |-> work.first + i - 1, lane |-> request[cur].lanes[i], request |-> cur] \in entries
      BY Zenon, <1>1, <3>1 DEF SequencesOK
    <3>3. e = [seq |-> work.first + i - 1, lane |-> request[cur].lanes[i], request |-> cur]
      BY Zenon, <1>1, <3>1, <3>2 DEF SequencesOK, UniqueSequence
    <3>4. request[cur].lanes[i] = l
      BY <1>4, <3>3
    <3>5. work.points[request[cur].lanes[i]] >= work.first + i
      BY Zenon, <1>1, <3>1 DEF PointsOK, InAppend
    <3>6. work.points[l] >= work.first + i
      BY Zenon, <3>4, <3>5
    <3> QED
      BY <1>2, <2>1, <3>1, <3>6
  <2> QED
    BY Zenon, <2>2, <2>3
<1> QED
  BY Zenon, <1>3, <1>4

\* The events an append indexes are above every bound that exists; the bounds
\* it leaves in the ledger and the fence are above its events.
LEMMA CutsIndex ==
    ASSUME GateInv, HeldOK, CancelledOK, CutsOK, IndexAppend
    PROVE  CutsOK'
<1>1. /\ ControlOK /\ RespondersOK /\ SequencesOK /\ PointsOK /\ BoundsOK /\ LedgerOK
      /\ FenceRangeSound /\ LoopTypeOK /\ LedgerTypeOK /\ GateTypeOK /\ IndexTypeOK
      /\ pc = "index" /\ Unindexed /\ InAppend /\ ~Committing
  BY Zenon DEF GateInv, GateOK, HoldersOK, ControlOK, TypeOK, IndexAppend, Unindexed, InAppend, Committing
<1>2. /\ work.first \in Nat /\ Count(cur) \in Nat /\ Count(cur) > 0 /\ LastSeq \in Nat
      /\ LastSeq = work.first + Count(cur) - 1
      /\ \A e \in entries : e.seq \in Nat /\ e.seq < work.first
      /\ work.points \in [Lanes -> Nat]
  BY Zenon, <1>1, IndexedSequences DEF IndexTypeOK, LoopTypeOK
<1>3. \A e \in entries : e.request # cur
  <2>1. reply[cur] = "sent" /\ cur \notin fence_ledger.requests
    BY Zenon, <1>1, CurrentHeld DEF Executing, Busy
  <2> QED
    BY Zenon, <1>1, <2>1 DEF HeldOK
<1>4. \A e \in entries' : \/ e \in entries
                          \/ /\ e.request = cur /\ e.seq \in Nat
                             /\ work.first <= e.seq /\ e.seq <= LastSeq
                             /\ e.seq < work.points[e.lane]
  <2>1. ASSUME NEW i \in 1 .. Count(cur)
        PROVE  work.first + i - 1 < work.points[request[cur].lanes[i]]
    <3>1. work.points[request[cur].lanes[i]] >= work.first + i
      BY Zenon, <1>1, <2>1 DEF PointsOK
    <3>2. request[cur].lanes[i] \in Lanes
      BY Zenon, <2>1, IndexedSequences
    <3> QED
      BY <1>2, <3>1, <3>2
  <2>2. \A e \in entries' : \/ e \in entries
                            \/ \E i \in 1 .. Count(cur) :
                                   e = [seq |-> work.first + i - 1, lane |-> request[cur].lanes[i],
                                        request |-> cur]
    BY Zenon DEF IndexAppend
  <2> QED
    BY <1>2, <2>1, <2>2
<1>5. ASSUME NEW n, n \in Int, n <= work.first, Cut(n)
      PROVE  \A e, f \in entries' : e.request = f.request => (e.seq < n <=> f.seq < n)
  BY <1>2, <1>3, <1>4, <1>5 DEF Cut
<1>6. ASSUME NEW l \in Lanes, NEW n, n \in Nat, n <= work.first, LaneCut(l, n)
      PROVE  \A e, f \in entries' :
                 e.request = f.request /\ e.lane = l /\ f.lane = l => (e.seq < n <=> f.seq < n)
  BY <1>2, <1>3, <1>4, <1>6 DEF LaneCut
<1>7. \A e \in entries' : e.seq < LastSeq + 1
  BY <1>2, <1>4
<1>8. /\ active_fence_end \in Nat /\ active_fence_end <= work.first
      /\ active_fence_start \in Int /\ active_fence_start <= work.first
      /\ active_fence_start \in Nat \cup {Unset}
  <2>1. active_fence_end \in Nat /\ active_fence_end <= work.first
    BY Zenon, <1>1 DEF CancelledOK, GateTypeOK
  <2>2. CASE active_fence_start = Unset
    BY <1>2, <2>1, <2>2 DEF Unset
  <2>3. CASE active_fence_start # Unset
    BY <1>1, <1>2, <2>1, <2>3 DEF FenceRangeSound, GateTypeOK
  <2> QED
    BY Zenon, <2>1, <2>2, <2>3
<1>9. fence_ledger.up_to \in Nat /\ fence_ledger.up_to <= work.first
  <2>1. fence_ledger.token = 0 => fence_ledger.up_to = 0
    BY <1>1 DEF LedgerOK, NoLedger
  <2>2. fence_ledger.token # 0 => fence_ledger.up_to = active_fence_end
    BY Zenon, <1>1 DEF LedgerOK, LedgerOwnsFence
  <2> QED
    BY <1>2, <1>8, <2>1, <2>2
<1>10. \A l \in Lanes : fence_ledger.points[l] \in Nat /\ fence_ledger.points[l] <= work.first
  <2> SUFFICES ASSUME NEW l \in Lanes
               PROVE  fence_ledger.points[l] \in Nat /\ fence_ledger.points[l] <= work.first
    BY Zenon
  <2>1. fence_ledger.points[l] \in Nat /\ fence_ledger.points[l] <= fence_ledger.up_to
    BY Zenon, <1>1 DEF LedgerOK, LedgerTypeOK
  <2>2. work.first \in Nat
    BY Zenon, <1>2
  <2> QED
    BY <1>9, <2>1, <2>2
<1>11. /\ UNCHANGED <<visible, lane_visible, cancelled_ranges>>
       /\ visible \in Nat /\ visible <= work.first
       /\ \A l \in Lanes : lane_visible[l] \in Nat /\ lane_visible[l] <= work.first
  BY Zenon, <1>1 DEF IndexAppend, published, cancelVars, BoundsOK, GateTypeOK
<1>12. Cut(visible)' /\ \A l \in Lanes : LaneCut(l, lane_visible[l])'
  <2>1. Cut(visible)'
    BY <1>5, <1>11 DEF CutsOK, Cut
  <2>2. ASSUME NEW l \in Lanes
        PROVE  LaneCut(l, lane_visible[l])'
    BY Zenon, <1>6, <1>11, <2>2 DEF CutsOK, LaneCut
  <2> QED
    BY Zenon, <2>1, <2>2
<1>13. \A e, f \in entries' : e.request = f.request =>
           (e.seq \in cancelled_ranges' <=> f.seq \in cancelled_ranges')
  <2>1. \A s \in cancelled_ranges : s \in Nat /\ s < work.first
    BY Zenon, <1>1 DEF CancelledOK, GateTypeOK
  <2>2. \A e \in entries' : e.seq \in cancelled_ranges => e \in entries
    BY <1>2, <1>4, <2>1
  <2> QED
    BY Zenon, <1>3, <1>4, <1>11, <2>2 DEF CutsOK
<1>14. CASE ~Fenced(cur)
  <2>1. UNCHANGED <<fence_ledger, active_fence_start, active_fence_end>>
    BY Zenon, <1>14 DEF IndexAppend, fenceVars
  <2>2. Cut(fence_ledger.up_to)' /\ Cut(active_fence_start)' /\ Cut(active_fence_end)'
    <3>1. Cut(fence_ledger.up_to)'
      BY <1>5, <1>9, <2>1 DEF CutsOK, Cut
    <3>2. Cut(active_fence_start)'
      BY Zenon, <1>5, <1>8, <2>1 DEF CutsOK, Cut
    <3>3. Cut(active_fence_end)'
      BY <1>5, <1>8, <2>1 DEF CutsOK, Cut
    <3> QED
      BY Zenon, <3>1, <3>2, <3>3
  <2>3. \A l \in Lanes : LaneCut(l, fence_ledger.points[l])'
    <3> SUFFICES ASSUME NEW l \in Lanes
                 PROVE  LaneCut(l, fence_ledger.points[l])'
      BY Zenon
    <3> QED
      BY Zenon, <1>6, <1>10, <2>1 DEF CutsOK, LaneCut
  <2> QED
    BY Zenon, <1>12, <1>13, <2>2, <2>3 DEF CutsOK
<1>15. CASE Fenced(cur)
  <2>1. /\ fence_ledger'.up_to = Larger(fence_ledger.up_to, LastSeq + 1)
        /\ fence_ledger'.points = [l \in Lanes |-> Larger(fence_ledger.points[l], work.points[l])]
        /\ active_fence_start' = IF active_fence_start = Unset \/ work.first < active_fence_start
                                 THEN work.first ELSE active_fence_start
        /\ active_fence_end' = IF LastSeq + 1 > active_fence_end THEN LastSeq + 1
                               ELSE active_fence_end
    BY Zenon, <1>1, <1>15 DEF IndexAppend, note_fence_progress, LedgerTypeOK
  <2>2. fence_ledger'.up_to = LastSeq + 1 /\ active_fence_end' = LastSeq + 1
    BY <1>2, <1>8, <1>9, <2>1 DEF Larger
  <2>3. Cut(fence_ledger.up_to)' /\ Cut(active_fence_end)'
    BY Zenon, <1>7, <2>2 DEF Cut
  <2>4. Cut(active_fence_start)'
    <3>1. Cut(work.first)
      BY Zenon, <1>2 DEF Cut
    <3>2. active_fence_start' \in {work.first, active_fence_start}
      BY Zenon, <2>1
    <3>3. Cut(active_fence_start') /\ active_fence_start' \in Int /\ active_fence_start' <= work.first
      BY <1>2, <1>8, <3>1, <3>2 DEF CutsOK
    <3> QED
      BY Zenon, <1>5, <3>3 DEF Cut
  <2>5. ASSUME NEW l \in Lanes
        PROVE  LaneCut(l, fence_ledger.points[l])'
    <3>1. fence_ledger'.points[l] = Larger(fence_ledger.points[l], work.points[l])
      BY Zenon, <2>1
    <3>2. CASE work.points[l] = 0
      <4>1. fence_ledger'.points[l] = fence_ledger.points[l]
        BY <1>10, <3>1, <3>2 DEF Larger
      <4> QED
        BY Zenon, <1>6, <1>10, <4>1 DEF CutsOK, LaneCut
    <3>3. CASE work.points[l] # 0
      <4>1. work.first < work.points[l] /\ work.points[l] \in Nat
        BY Zenon, <1>1, <1>2, <3>3 DEF PointsOK
      <4>2. fence_ledger'.points[l] = work.points[l]
        BY <1>2, <1>10, <3>1, <4>1 DEF Larger
      <4>3. \A e \in entries' : e.lane = l => e.seq < work.points[l]
        BY <1>2, <1>4, <4>1
      <4> QED
        BY Zenon, <4>2, <4>3 DEF LaneCut
    <3> QED
      BY Zenon, <3>2, <3>3
  <2> QED
    BY Zenon, <1>12, <1>13, <2>3, <2>4, <2>5 DEF CutsOK
<1> QED
  BY Zenon, <1>14, <1>15

\* CutsOK is inductive.
LEMMA CutsStep ==
    ASSUME HidingInv, [Next]_vars
    PROVE  CutsOK'
<1>1. /\ GateInv /\ HeldOK /\ CancelledOK /\ CutsOK /\ ControlOK /\ GateTypeOK /\ IndexTypeOK
      /\ LoopTypeOK
  BY Zenon DEF HidingInv, GateInv, HoldersOK, ControlOK, TypeOK
<1>2. CASE IndexAppend
  BY Zenon, <1>1, <1>2, CutsIndex
<1>3. CASE ~IndexAppend
  <2>1. UNCHANGED entries
    BY Zenon, <1>3, IndexFrame DEF indexVars, BroadcastAppend, BroadcastFence, PersistCancel,
       AutoCancelFence, Panic
  <2>2. \/ UNCHANGED fence_ledger
        \/ fence_ledger'.up_to = 0 /\ fence_ledger'.points = NoLanePoints
    <3>1. /\ NoLedger.up_to = 0 /\ NoLedger.points = NoLanePoints
          /\ \A t : /\ [NoLedger EXCEPT !.token = t].up_to = 0
                    /\ [NoLedger EXCEPT !.token = t].points = NoLanePoints
      BY Zenon DEF NoLedger
    <3> QED
      BY Zenon, <1>3, <3>1, LedgerFrame DEF ExecuteBegin, DeferredBegin, BeginLedger, CommitFails,
         BroadcastFence, PersistCancel, DeferredShutdown, AutoCancelFence, Panic
  <2>3. /\ fence_ledger'.up_to \in {fence_ledger.up_to, 0}
        /\ \A l \in Lanes : fence_ledger'.points[l] \in {fence_ledger.points[l], 0}
    BY Zenon, <2>2 DEF NoLanePoints
  <2>4. /\ active_fence_start' \in {active_fence_start, Unset}
        /\ active_fence_end' \in {active_fence_end, 0}
    BY Zenon, <1>3, GateFrame DEF gateVars, fenceVars, StartAppend, PublishAppend, CommitFence,
       finish_fence_on_lanes, CancelFence, CancelInIndex, cancel_fence, CloseFence,
       AutoCancelFence, Panic, BeginFence, begin_fence, begin_fence_refused, SendBeginFails
  <2>5. cancelled_ranges' \in {cancelled_ranges, cancelled_ranges \cup FenceRange}
    BY Zenon, <1>1, CancelSteps, CancelEffect DEF cancelVars
  <2>6. /\ visible' \in {visible, fence_ledger.up_to} \/ \A e \in entries : e.seq < visible'
        /\ \A l \in Lanes : \/ lane_visible'[l] \in {lane_visible[l], fence_ledger.points[l]}
                            \/ \A e \in entries : e.lane = l => e.seq < lane_visible'[l]
    <3>1. CASE UNCHANGED published
      BY Zenon, <3>1 DEF published
    <3>2. CASE publish_on_lanes(fence_ledger.up_to, fence_ledger.points)
      BY Zenon, <3>2 DEF publish_on_lanes
    <3>3. CASE PublishAppend
      <4>1. pc = "publish" /\ publish_on_lanes(LastSeq + 1, work.points)
        BY Zenon, <3>3 DEF PublishAppend
      <4> QED
        BY Zenon, <1>1, <4>1, PublishedAbove DEF publish_on_lanes
    <3> QED
      BY Zenon, <1>3, <3>1, <3>2, <3>3, GateFrame DEF gateVars, published, StartAppend, CommitFence,
         finish_fence_on_lanes, CancelFence, AutoCancelFence, Panic, BeginFence, SendBeginFails
  <2> QED
    BY Zenon, <1>1, <2>1, <2>3, <2>4, <2>5, <2>6, CutsKept
<1> QED
  BY Zenon, <1>2, <1>3

\* Nothing is indexed at first.
LEMMA HidingInvInit == Init => HidingInv
<1> SUFFICES ASSUME Init
             PROVE  HidingInv
  BY Zenon
<1>1. entries = {} /\ cancelled_ranges = {} /\ pc = "recv"
  BY Zenon DEF Init, WriterInit
<1>2. \A l \in Lanes : lane_cancelled_ranges[l] = {}
  BY Zenon DEF Init, WriterInit
<1>3. HeldOK /\ HiddenOK /\ CancelledOK
  BY Zenon, <1>1, <1>2 DEF HeldOK, HiddenOK, CancelledOK, Unindexed
<1>4. CutsOK
  BY Zenon, <1>1 DEF CutsOK, Cut, LaneCut
<1> QED
  BY Zenon, <1>3, <1>4, GateInvInit DEF HidingInv

\* The whole invariant is inductive.
LEMMA HidingInvStep == HidingInv /\ [Next]_vars => HidingInv'
<1> SUFFICES ASSUME HidingInv, [Next]_vars
             PROVE  HidingInv'
  BY Zenon
<1>1. GateInv /\ HeldOK /\ HiddenOK /\ CancelledOK /\ CutsOK
  BY Zenon DEF HidingInv
<1>2. GateInv'
  BY Zenon, <1>1, GateInvStep
<1>3. HeldOK' /\ HiddenOK' /\ CancelledOK'
  BY Zenon, <1>1, HeldStep, HiddenStep, CancelledStep
<1>4. CutsOK'
  BY Zenon, CutsStep
<1> QED
  BY Zenon, <1>2, <1>3, <1>4 DEF HidingInv

\* The whole invariant holds in every reachable state.
LEMMA HidingInvariant == Spec => []HidingInv
  BY HidingInvInit, HidingInvStep, PTL DEF Spec

-----------------------------------------------------------------------------
(* The theorems.                                                           *)

\* A fenced append whose caller was told that its fence was cancelled is hidden
\* from global and lane readers, whatever happens afterwards: panics of the
\* writer, failing I/O, other producers and fences included (cancel_fence,
\* auto_cancel_fence_on_shutdown).
THEOREM CancelledStaysHidden == Spec => []CancelledHidden
<1>1. HidingInv => CancelledHidden
  BY Zenon DEF HidingInv, HiddenOK, CancelledHidden, Hidden, is_visible, SeenOnLane, is_visible_on_lane
<1> QED
  BY <1>1, HidingInvariant, PTL

\* No reader ever sees a part of a batch: neither a publish nor a cancelled
\* fence draws its line through one, for any number of producers, batches,
\* faults and panics (append_batch, publish_on_lanes, cancel_fence).
THEOREM BatchesNeverCut == Spec => []BatchAtomic
<1>1. HidingInv => BatchAtomic
  <2> SUFFICES ASSUME HidingInv, NEW e \in entries, NEW f \in entries, e.request = f.request
               PROVE  /\ is_visible(e.seq) <=> is_visible(f.seq)
                      /\ e.lane = f.lane => (SeenOnLane(e) <=> SeenOnLane(f))
    BY Zenon DEF BatchAtomic
  <2>1. CutsOK /\ CancelledOK /\ e.lane \in Lanes /\ f.lane \in Lanes
    BY Zenon DEF HidingInv, GateInv, HoldersOK, ControlOK, TypeOK, IndexTypeOK
  <2>2. e.seq \in cancelled_ranges <=> f.seq \in cancelled_ranges
    BY Zenon, <2>1 DEF CutsOK
  <2>3. is_visible(e.seq) <=> is_visible(f.seq)
    BY Zenon, <2>1, <2>2 DEF CutsOK, Cut, is_visible
  <2>4. ASSUME e.lane = f.lane
        PROVE  SeenOnLane(e) <=> SeenOnLane(f)
    <3>1. e.seq < lane_visible[e.lane] <=> f.seq < lane_visible[f.lane]
      BY Zenon, <2>1, <2>4 DEF CutsOK, LaneCut
    <3>2. lane_cancelled_ranges[e.lane] \subseteq cancelled_ranges
          /\ lane_cancelled_ranges[f.lane] \subseteq cancelled_ranges
      BY Zenon, <2>1 DEF CancelledOK
    <3> QED
      BY Zenon, <2>2, <3>1, <3>2 DEF SeenOnLane, is_visible_on_lane
  <2> QED
    BY Zenon, <2>3, <2>4
<1> QED
  BY <1>1, HidingInvariant, PTL

\* A hidden sequence is never shown again by the store that hid it: the hidden
\* ranges only grow (cancel_fence).
THEOREM HiddenNeverShrinks == Spec => [][cancelled_ranges \subseteq cancelled_ranges']_vars
<1>1. HidingInv /\ [Next]_vars => [cancelled_ranges \subseteq cancelled_ranges']_vars
  BY Zenon, CancelledGrows DEF HidingInv
<1> QED
  BY <1>1, HidingInvariant, PTL DEF Spec

-----------------------------------------------------------------------------
(* Where commands wait.                                                    *)

\* Producer d stays where it is, with the command it has.
SamePlace(d) == client'[d].at = client[d].at /\ client'[d].req = client[d].req

\* A step that issues nothing: only an answered begin lets its producer go on.
NoCommand ==
    /\ UNCHANGED <<request, issued, reply, queue>>
    /\ \A d \in Clients :
           /\ client[d].at = "routed" => SamePlace(d)
           /\ client[d].at = "beginning" /\ reply[client[d].req] = "sent" => SamePlace(d)

\* A command is issued and sent at once; only close sends an unfenced append so.
Issues(command) ==
    /\ PrepareAndEnqueue(command) /\ UNCHANGED gateVars
    /\ \A d \in Clients : client[d].at \in {"routed", "beginning"} => SamePlace(d)
    /\ command.op = "BeginVisibilityFence" =>
           \E c \in Clients : /\ client[c].at = "begun" /\ client'[c].at = "beginning"
                              /\ client'[c].req = issued + 1 /\ command.token = client[c].token
    /\ command.op \in {"Append", "AppendBatch"} => active_fence = 0

\* A submission is routed: outside a fence only while none is open.
Routes(c) ==
    /\ \E command : /\ Prepare(command) /\ command.op \in AppendOps
                    /\ command.op \in {"Append", "AppendBatch"} => active_fence = 0
    /\ UNCHANGED <<reply, queue, gateVars>>
    /\ client'[c].at = "routed" /\ client'[c].req = issued + 1
    /\ \A d \in Clients : client[d].at \in {"routed", "beginning"} => SamePlace(d)

\* A routed command is sent, or fails.
Leaves(c) ==
    /\ client[c].at = "routed" /\ UNCHANGED <<request, issued, gateVars>>
    /\ \A d \in Clients : d # c => SamePlace(d)
    /\ \/ Enqueue(client[c].req)
       \/ UNCHANGED queue /\ reply' = [reply EXCEPT ![client[c].req] = "error"]

\* What a step of another thread does to commands and producers.
LEMMA OutsideCommands ==
    ASSUME ControlOK, [Next]_vars, ~WriterMoves
    PROVE  \/ NoCommand
           \/ \E command : Issues(command)
           \/ \E c \in Clients : Routes(c) \/ Leaves(c)
<1>1. client \in [Clients -> ClientType]
  BY Zenon DEF ControlOK, TypeOK, ControlTypeOK
<1>2. ASSUME NEW c \in Clients, client[c].at \notin {"routed", "beginning"},
             \A d \in Clients : d # c => client'[d] = client[d]
      PROVE  \A d \in Clients : client[d].at \in {"routed", "beginning"} => SamePlace(d)
  BY Zenon, <1>2 DEF SamePlace
<1>3. ASSUME UNCHANGED <<request, issued, reply, queue>>,
             \A d \in Clients : client[d].at \in {"routed", "beginning"} => SamePlace(d)
      PROVE  NoCommand
  BY Zenon, <1>3 DEF NoCommand
<1>4. ASSUME UNCHANGED client
      PROVE  \A d \in Clients : client[d].at \in {"routed", "beginning"} => SamePlace(d)
  BY Zenon, <1>4 DEF SamePlace
<1>5. ASSUME NEW c \in Clients, Route(c)
      PROVE  Routes(c)
  <2>1. /\ \E s \in Submissions(c) :
               Prepare(s) /\ client' = [client EXCEPT ![c].at = "routed", ![c].req = issued + 1]
        /\ client[c].at \in {"idle", "fenced"} /\ (client[c].token = 0 => active_fence = 0)
        /\ UNCHANGED <<reply, queue, gateVars>>
    BY Zenon, <1>5 DEF Route
  <2>2. \A s \in Submissions(c) : s.op \in AppendOps /\ (s.op \in {"Append", "AppendBatch"} => client[c].token = 0)
    BY DEF Submissions, AppendOps
  <2>3. /\ client'[c].at = "routed" /\ client'[c].req = issued + 1
        /\ \A d \in Clients : d # c => client'[d] = client[d]
    BY Zenon, <1>1, <2>1 DEF ClientType
  <2> QED
    BY Zenon, <1>2, <2>1, <2>2, <2>3 DEF Routes
<1>6. ASSUME NEW c \in Clients, Send(c) \/ SendFails(c)
      PROVE  Leaves(c)
  BY Zenon, <1>1, <1>6 DEF Send, SendFails, Move, Leaves, SamePlace
<1>7. ASSUME NEW c \in Clients, SubmitSync(c)
      PROVE  \E command : Issues(command)
  <2>1. Issues([op |-> "Sync", token |-> 0, lanes |-> <<>>])
    BY Zenon, <1>4, <1>7 DEF SubmitSync, Issues
  <2> QED
    BY Zenon, <2>1
<1>8. ASSUME NEW c \in Clients, BeginFence(c)
      PROVE  NoCommand
  BY Zenon, <1>1, <1>2, <1>3, <1>4, <1>8 DEF BeginFence
<1>9. ASSUME NEW c \in Clients, SendBegin(c)
      PROVE  \E command : Issues(command)
  <2> DEFINE command == [op |-> "BeginVisibilityFence", token |-> client[c].token, lanes |-> <<>>]
  <2>1. /\ client[c].at = "begun" /\ PrepareAndEnqueue(command) /\ UNCHANGED gateVars
        /\ client' = [client EXCEPT ![c].at = "beginning", ![c].req = issued + 1]
    BY Zenon, <1>9 DEF SendBegin
  <2>2. /\ client'[c].at = "beginning" /\ client'[c].req = issued + 1
        /\ \A d \in Clients : d # c => client'[d] = client[d]
    BY Zenon, <1>1, <2>1 DEF ClientType
  <2>3. Issues(command)
    BY Zenon, <1>2, <2>1, <2>2 DEF Issues
  <2> QED
    BY Zenon, <2>3
<1>10. ASSUME NEW c \in Clients, SendBeginFails(c) \/ AwaitFinish(c)
       PROVE  NoCommand
  BY Zenon, <1>1, <1>2, <1>3, <1>10 DEF SendBeginFails, AwaitFinish
<1>11. ASSUME NEW c \in Clients, AwaitBegin(c)
       PROVE  NoCommand
  <2>1. /\ client[c].at = "beginning" /\ reply[client[c].req] # "sent"
        /\ UNCHANGED <<request, issued, reply, queue>>
        /\ \A d \in Clients : d # c => client'[d] = client[d]
    BY Zenon, <1>1, <1>11 DEF AwaitBegin
  <2> QED
    BY Zenon, <2>1 DEF NoCommand, SamePlace
<1>12. ASSUME NEW c \in Clients, FinishFence(c)
       PROVE  \E command : Issues(command)
  <2>1. PICK op \in {"CommitVisibilityFence", "CancelVisibilityFence"} :
            PrepareAndEnqueue([op |-> op, token |-> client[c].token, lanes |-> <<>>])
    BY Zenon, <1>12 DEF FinishFence
  <2>2. /\ client[c].at = "fenced" /\ \A d \in Clients : d # c => client'[d] = client[d]
        /\ UNCHANGED gateVars
    BY Zenon, <1>1, <1>12 DEF FinishFence
  <2>3. Issues([op |-> op, token |-> client[c].token, lanes |-> <<>>])
    BY Zenon, <1>2, <2>1, <2>2 DEF Issues
  <2> QED
    BY Zenon, <2>3
<1>13. ASSUME NEW token, PrepareAndEnqueue(CancelCommand(token)), UNCHANGED gateVars,
              \A d \in Clients : client[d].at \in {"routed", "beginning"} => SamePlace(d)
       PROVE  \E command : Issues(command)
  <2>1. Issues(CancelCommand(token))
    BY Zenon, <1>13 DEF Issues, CancelCommand
  <2> QED
    BY Zenon, <2>1
<1>14. ASSUME NEW c \in Clients, DropFence(c)
       PROVE  NoCommand \/ \E command : Issues(command)
  <2>1. /\ client[c].at = "fenced" /\ \A d \in Clients : d # c => client'[d] = client[d]
        /\ UNCHANGED gateVars
    BY Zenon, <1>1, <1>14 DEF DropFence
  <2>2. \/ PrepareAndEnqueue(CancelCommand(client[c].token))
        \/ UNCHANGED <<request, issued, reply, queue>>
    BY Zenon, <1>14 DEF DropFence
  <2> QED
    BY Zenon, <1>2, <1>3, <1>13, <2>1, <2>2
<1>15. ASSUME HelperSend
       PROVE  NoCommand \/ \E command : Issues(command)
  BY Zenon, <1>3, <1>4, <1>13, <1>15 DEF HelperSend
<1>16. ASSUME CloseEvent
       PROVE  \E command : Issues(command)
  <2>1. Issues([op |-> "Append", token |-> 0, lanes |-> <<Lane0>>])
    BY Zenon, <1>4, <1>16 DEF CloseEvent, Issues
  <2> QED
    BY Zenon, <2>1
<1>17. ASSUME SendShutdown
       PROVE  \E command : Issues(command)
  <2>1. Issues([op |-> "Shutdown", token |-> 0, lanes |-> <<>>])
    BY Zenon, <1>4, <1>17 DEF SendShutdown, Issues
  <2> QED
    BY Zenon, <2>1
<1>18. ASSUME UNCHANGED vars
       PROVE  NoCommand
  BY Zenon, <1>3, <1>4, <1>18 DEF vars, writerVars, controlVars
<1> QED
  BY Zenon, <1>5, <1>6, <1>7, <1>8, <1>9, <1>10, <1>11, <1>12, <1>14, <1>15, <1>16, <1>17, <1>18
     DEF Next, ClientStep

\* The command has its final answer after the step.
Told(r) == reply'[r] \notin {"unsent", "sent"}

\* The unfenced append at hand stays at hand until it is answered.
LEMMA CurrentStays ==
    ASSUME ControlOK, RespondersOK, WriterMoves, Executing, cur \in PendingUnfenced
    PROVE  (Executing' /\ cur' = cur) \/ Told(cur)
<1>1. /\ cur \in Requests /\ reply[cur] = "sent" /\ request[cur].op \in {"Append", "AppendBatch"}
      /\ \A i \in 1 .. Len(queue) : queue[i] # cur
      /\ LoopTypeOK /\ UNCHANGED request
  BY Zenon, CurrentHeld, WriterFrame DEF PendingUnfenced, ControlOK, TypeOK
<1>2. ASSUME NEW how \in {"ok", "error", "dropped"}, NEW rs, cur \in rs, Answer(rs, how)
      PROVE  Told(cur)
  BY Zenon, <1>1, <1>2 DEF Answer, Told
<1>3. CASE StartAppend \/ AcceptItem \/ RotateSegment \/ WriteFrame \/ PublishAppend
  BY Zenon, <1>3 DEF StartAppend, AcceptItem, RotateSegment, WriteFrame, PublishAppend, Executing, Busy
<1>4. CASE RefuseAppend \/ RotateFails \/ WriteFails \/ BroadcastAppend
  BY Zenon, <1>2, <1>4 DEF RefuseAppend, RotateFails, WriteFails, BroadcastAppend, FailAppend
<1>5. CASE SyncBatch
  BY Zenon, <1>2, <1>5 DEF SyncBatch, FailAppend, Executing, Busy
<1>6. CASE IndexAppend
  BY Zenon, <1>1, <1>6 DEF IndexAppend, Fenced, Executing, Busy
<1>7. CASE FenceStep
  BY Zenon, <1>1, <1>7 DEF FenceStep, ExecuteBegin, DeferredBegin, CommitRefused, CommitFails, CommitFence,
     BroadcastFence, CancelRefused, CancelFence, PersistCancel, ControlOK, StepOK
<1>8. CASE LoopStep
  BY Zenon, <1>1, <1>8 DEF LoopStep, Receive, EndDrain, PeriodicSync, SyncBarrier, DeferredSync, NeedsBarrier,
     DeferredShutdown, StartShutdown, AutoCancelFence, FinishShutdown, Executing, Busy
<1>9. CASE Panic
  <2>1. cur \in Unwound
    BY Zenon, <1>1, <1>9 DEF Panic, Unwound, Queued
  <2> QED
    BY Zenon, <1>2, <1>9, <2>1 DEF Panic
<1> QED
  BY Zenon, <1>3, <1>4, <1>5, <1>6, <1>7, <1>8, <1>9 DEF WriterMoves, WriterStep, AppendStep

\* The writer leaves the channel alone, takes its first command between two
\* commands, or drops all of them.
LEMMA WriterQueue ==
    ASSUME ControlOK, RespondersOK, WriterMoves
    PROVE  \/ UNCHANGED queue /\ (Executing' /\ ~Executing => FALSE) /\ (Executing' => cur' = cur)
           \/ /\ ~Executing /\ queue # <<>> /\ queue' = Tail(queue) /\ cur' = Head(queue)
              /\ Executing' /\ UNCHANGED reply
           \/ queue' = <<>> /\ ~Executing' /\ \A i \in 1 .. Len(queue) : Told(queue[i])
<1>1. LoopTypeOK /\ queue \in Seq(Requests) /\ \A i \in 1 .. Len(queue) : queue[i] \in Requests
  BY CommandIds DEF ControlOK, TypeOK
<1>2. ASSUME NEW delta, Settle(delta) \/ SettleSynced
      PROVE  ~Executing'
  BY Zenon, <1>1, <1>2, Settled DEF Executing
<1>3. CASE StartAppend \/ AcceptItem \/ RotateSegment \/ WriteFrame \/ PublishAppend
  BY Zenon, <1>3 DEF StartAppend, AcceptItem, RotateSegment, WriteFrame, PublishAppend, Executing, Busy
<1>4. CASE RefuseAppend \/ RotateFails \/ WriteFails \/ BroadcastAppend
  BY Zenon, <1>2, <1>4 DEF RefuseAppend, RotateFails, WriteFails, BroadcastAppend, FailAppend
<1>5. CASE SyncBatch
  BY Zenon, <1>2, <1>5 DEF SyncBatch, FailAppend, Executing, Busy
<1>6. CASE IndexAppend
  BY Zenon, <1>2, <1>6 DEF IndexAppend, Executing, Busy
<1>7. CASE ExecuteBegin \/ DeferredBegin \/ CommitRefused \/ CommitFails \/ BroadcastFence \/ CancelRefused
           \/ PersistCancel \/ DeferredSync
  BY Zenon, <1>2, <1>7 DEF ExecuteBegin, DeferredBegin, CommitRefused, CommitFails, BroadcastFence,
     CancelRefused, PersistCancel, DeferredSync
<1>8. CASE CommitFence \/ CancelFence \/ SyncBarrier
  BY Zenon, <1>8 DEF CommitFence, CancelFence, SyncBarrier, Executing, Busy
<1>9. CASE EndDrain \/ PeriodicSync \/ StartShutdown \/ AutoCancelFence
  BY Zenon, <1>9 DEF EndDrain, PeriodicSync, StartShutdown, AutoCancelFence, Executing, Busy
<1>10. CASE Receive
  BY Zenon, <1>10 DEF Receive, Take, Executing, Busy
<1>11. CASE DeferredShutdown \/ FinishShutdown
  <2>1. queue' = <<>> /\ ~Executing'
    BY Zenon, <1>11 DEF DeferredShutdown, FinishShutdown, Executing, Busy
  <2>2. \A i \in 1 .. Len(queue) : queue[i] \in Queued
    BY Zenon DEF Queued
  <2>3. \A r \in Requests : r \in Queued => reply'[r] \in {"ok", "error", "dropped"}
    BY Zenon, <1>11 DEF DeferredShutdown, FinishShutdown
  <2> QED
    BY Zenon, <1>1, <2>1, <2>2, <2>3 DEF Told
<1>12. CASE Panic
  <2>1. ~Executing'
    BY Zenon, <1>12 DEF Panic, Executing, Busy
  <2>2. CASE UNCHANGED queue
    BY Zenon, <2>1, <2>2
  <2>3. CASE ~UNCHANGED queue
    <3>1. queue' = <<>> /\ Answer(Unwound \cup Queued, "dropped")
      BY Zenon, <1>12, <2>3 DEF Panic
    <3>2. \A i \in 1 .. Len(queue) : queue[i] \in Unwound \cup Queued
      BY Zenon DEF Queued
    <3> QED
      BY Zenon, <1>1, <2>1, <3>1, <3>2 DEF Answer, Told
  <2> QED
    BY Zenon, <2>2, <2>3
<1> QED
  BY Zenon, <1>3, <1>4, <1>5, <1>6, <1>7, <1>8, <1>9, <1>10, <1>11, <1>12
     DEF WriterMoves, WriterStep, AppendStep, FenceStep, LoopStep

\* Commands leave the channel from the front, and enter it at the end.
LEMMA QueueTail ==
    ASSUME ControlOK, queue # <<>>, queue' = Tail(queue)
    PROVE  /\ Len(queue) \in Nat /\ Len(queue') \in Nat /\ Len(queue') = Len(queue) - 1
           /\ \A i \in 1 .. Len(queue') : i + 1 \in 1 .. Len(queue) /\ queue'[i] = queue[i + 1]
           /\ \A i \in 1 .. Len(queue) : i # 1 => i - 1 \in 1 .. Len(queue') /\ queue'[i - 1] = queue[i]
           /\ Head(queue) = queue[1] /\ 1 \in 1 .. Len(queue)
BY CommandIds

\* The channel after a command was added.
LEMMA QueueAppend ==
    ASSUME ControlOK, NEW r, queue' = Append(queue, r)
    PROVE  /\ Len(queue) \in Nat /\ Len(queue') = Len(queue) + 1
           /\ \A i \in 1 .. Len(queue) : i \in 1 .. Len(queue') /\ queue'[i] = queue[i]
           /\ queue'[Len(queue) + 1] = r
           /\ \A i \in 1 .. Len(queue') : i \in 1 .. Len(queue) \/ i = Len(queue) + 1
BY CommandIds

\* Who is in the channel after a command was added.
LEMMA QueuedAfterAppend ==
    ASSUME ControlOK, NEW r, queue' = Append(queue, r)
    PROVE  Queued' = Queued \cup {r}
<1>1. Len(queue) + 1 \in 1 .. Len(queue')
  BY QueueAppend
<1> QED
  BY Zenon, <1>1, QueueAppend DEF Queued

\* Who is in the channel after the first command was taken.
LEMMA QueuedAfterTail ==
    ASSUME ControlOK, queue # <<>>, queue' = Tail(queue)
    PROVE  Queued \subseteq Queued' \cup {Head(queue)}
<1>1. ASSUME NEW i \in 1 .. Len(queue)
      PROVE  queue[i] = Head(queue) \/ \E j \in 1 .. Len(queue') : queue'[j] = queue[i]
  BY Zenon, QueueTail
<1> QED
  BY Zenon, <1>1 DEF Queued

-----------------------------------------------------------------------------
\* A pending unfenced append was pending before, or is new and finds no fence.
LEMMA UnfencedFrame ==
    ASSUME ControlOK, RespondersOK, [Next]_vars, NEW r \in PendingUnfenced'
    PROVE  \/ r \in PendingUnfenced
           \/ /\ ~WriterMoves /\ active_fence = 0 /\ UNCHANGED gateVars
              /\ r = issued + 1 /\ (r \in Queued' \/ \E c \in Clients : RoutedBy(c, r)')
<1>1. r \in Requests /\ request'[r].op \in {"Append", "AppendBatch"} /\ Pending(r)
  BY Zenon, PendingStep DEF PendingUnfenced
<1>2. CASE request'[r] = request[r]
  BY Zenon, <1>1, <1>2 DEF PendingUnfenced
<1>3. ASSUME request'[r] # request[r], NEW command, Prepare(command)
      PROVE  r = issued + 1 /\ request'[r] = command
  <2>1. request \in [Requests -> Command \cup {NoRequest}]
    BY Zenon DEF ControlOK, TypeOK, CommandTypeOK
  <2> QED
    BY Zenon, <1>1, <1>3, <2>1 DEF Prepare
<1>4. CASE request'[r] # request[r]
  <2>1. ~WriterMoves
    BY Zenon, <1>4, WriterFrame
  <2>2. ASSUME NEW command, Issues(command)
        PROVE  /\ active_fence = 0 /\ UNCHANGED gateVars /\ r = issued + 1 /\ r \in Queued'
    <3>1. /\ Prepare(command) /\ queue' = Append(queue, issued + 1) /\ UNCHANGED gateVars
          /\ command.op \in {"Append", "AppendBatch"} => active_fence = 0
      BY Zenon, <2>2 DEF Issues, PrepareAndEnqueue, Enqueue
    <3> QED
      BY Zenon, <1>1, <1>3, <1>4, <3>1, QueuedAfterAppend
  <2>3. ASSUME NEW c \in Clients, Routes(c)
        PROVE  /\ active_fence = 0 /\ UNCHANGED gateVars /\ r = issued + 1 /\ RoutedBy(c, r)'
    <3>1. PICK command : /\ Prepare(command)
                         /\ command.op \in {"Append", "AppendBatch"} => active_fence = 0
      BY Zenon, <2>3 DEF Routes
    <3>2. r = issued + 1 /\ request'[r] = command
      BY Zenon, <1>3, <1>4, <3>1
    <3> QED
      BY Zenon, <1>1, <2>3, <3>1, <3>2 DEF Routes, RoutedBy
  <2> QED
    BY Zenon, <1>4, <2>1, <2>2, <2>3, OutsideCommands DEF NoCommand, Leaves
<1> QED
  BY Zenon, <1>2, <1>4

\* The inductive invariant of where commands wait.
RoutesInv == HidingInv /\ RoutesOK

\* Parts of the invariant.
LEMMA HidingParts ==
    ASSUME HidingInv
    PROVE  /\ GateInv /\ GateOK /\ HeldOK /\ HiddenOK /\ CancelledOK /\ CutsOK
           /\ ControlOK /\ RespondersOK /\ TokensOK /\ GateTypeOK /\ LoopTypeOK /\ LedgerTypeOK /\ IndexTypeOK
           /\ SequencesOK /\ PointsOK /\ BoundsOK /\ FenceRangeSound /\ LedgerOK
BY Zenon DEF HidingInv, GateInv, GateOK, HoldersOK, ControlOK, TypeOK

\* An unfenced append waits where the invariant says.
LEMMA UnfencedPlaces ==
    ASSUME RoutesInv, [Next]_vars, NEW r \in PendingUnfenced'
    PROVE  r \in Queued' \/ (Executing' /\ cur' = r) \/ \E c \in Clients : RoutedBy(c, r)'
<1>1. ControlOK /\ RespondersOK /\ RoutesOK
  BY Zenon, HidingParts DEF RoutesInv
<1>2. ~Told(r) /\ r \in Requests
  BY Zenon DEF Told, PendingUnfenced, Pending
<1>3. CASE r \in PendingUnfenced /\ WriterMoves
  <2>1. CASE r \in Queued
    <3>1. CASE UNCHANGED queue
      BY Zenon, <2>1, <3>1 DEF Queued
    <3>2. CASE queue # <<>> /\ queue' = Tail(queue) /\ cur' = Head(queue) /\ Executing'
      BY Zenon, <1>1, <2>1, <3>2, QueuedAfterTail
    <3>3. CASE \A i \in 1 .. Len(queue) : Told(queue[i])
      BY Zenon, <1>2, <2>1, <3>3 DEF Queued
    <3> QED
      BY Zenon, <1>1, <1>3, <3>1, <3>2, <3>3, WriterQueue
  <2>2. CASE Executing /\ cur = r
    BY Zenon, <1>1, <1>2, <1>3, <2>2, CurrentStays
  <2>3. ASSUME NEW c \in Clients, RoutedBy(c, r)
        PROVE  RoutedBy(c, r)'
    BY Zenon, <1>3, <2>3, WriterFrame DEF RoutedBy
  <2> QED
    BY Zenon, <1>1, <1>3, <2>1, <2>2, <2>3 DEF RoutesOK
<1>4. CASE r \in PendingUnfenced /\ ~WriterMoves
  <2>1. Executing /\ cur = r => Executing' /\ cur' = r
    BY Zenon, <1>1, <1>4, OutsideFrame DEF loopVars, Executing, Busy
  <2>2. ASSUME \A c \in Clients : RoutedBy(c, r) => SamePlace(c), Queued \subseteq Queued'
        PROVE  r \in Queued' \/ (Executing' /\ cur' = r) \/ \E c \in Clients : RoutedBy(c, r)'
    <3>1. r \in Queued \/ (Executing /\ cur = r) \/ \E c \in Clients : RoutedBy(c, r)
      BY Zenon, <1>1, <1>4 DEF RoutesOK
    <3>2. ASSUME NEW c \in Clients, RoutedBy(c, r)
          PROVE  RoutedBy(c, r)'
      BY Zenon, <2>2, <3>2 DEF RoutedBy, SamePlace
    <3> QED
      BY Zenon, <2>1, <2>2, <3>1, <3>2
  <2>3. CASE NoCommand
    BY Zenon, <2>2, <2>3 DEF NoCommand, RoutedBy, Queued
  <2>4. ASSUME NEW command, Issues(command)
        PROVE  r \in Queued' \/ (Executing' /\ cur' = r) \/ \E c \in Clients : RoutedBy(c, r)'
    <3>1. Queued \subseteq Queued'
      BY Zenon, <1>1, <2>4, QueuedAfterAppend DEF Issues, PrepareAndEnqueue, Enqueue
    <3> QED
      BY Zenon, <2>2, <2>4, <3>1 DEF Issues, RoutedBy
  <2>5. ASSUME NEW c \in Clients, Routes(c)
        PROVE  r \in Queued' \/ (Executing' /\ cur' = r) \/ \E d \in Clients : RoutedBy(d, r)'
    BY Zenon, <2>2, <2>5 DEF Routes, RoutedBy, Queued
  <2>6. ASSUME NEW c \in Clients, Leaves(c), Enqueue(client[c].req)
        PROVE  r \in Queued' \/ (Executing' /\ cur' = r) \/ \E d \in Clients : RoutedBy(d, r)'
    <3>1. Queued' = Queued \cup {client[c].req}
      BY Zenon, <1>1, <2>6, QueuedAfterAppend DEF Enqueue
    <3>2. CASE RoutedBy(c, r)
      BY Zenon, <3>1, <3>2 DEF RoutedBy
    <3>3. CASE ~RoutedBy(c, r)
      BY Zenon, <2>2, <2>6, <3>1, <3>3 DEF Leaves
    <3> QED
      BY Zenon, <3>2, <3>3
  <2>7. ASSUME NEW c \in Clients, Leaves(c), ~Enqueue(client[c].req)
        PROVE  r \in Queued' \/ (Executing' /\ cur' = r) \/ \E d \in Clients : RoutedBy(d, r)'
    <3>1. UNCHANGED queue /\ reply' = [reply EXCEPT ![client[c].req] = "error"]
      BY Zenon, <2>7 DEF Leaves
    <3>2. ~RoutedBy(c, r)
      BY Zenon, <1>1, <1>2, <3>1, CommandIds DEF RoutedBy, Told
    <3> QED
      BY Zenon, <2>2, <2>7, <3>1, <3>2 DEF Leaves, Queued
  <2> QED
    BY Zenon, <1>1, <1>4, <2>3, <2>4, <2>5, <2>6, <2>7, OutsideCommands
<1> QED
  BY Zenon, <1>1, <1>3, <1>4, UnfencedFrame

\* A producer whose begin is not answered waits for the answer.
LEMMA BeginsWait ==
    ASSUME RoutesInv, [Next]_vars, NEW r \in Begins', Pending(r)'
    PROVE  reply'[r] = "sent" /\ \E c \in Clients : client'[c].at = "beginning" /\ client'[c].req = r
<1>1. ControlOK /\ RespondersOK /\ RoutesOK /\ GateInv /\ HeldOK /\ r \in Requests /\ Pending(r)
      /\ reply \in [Requests -> Replies] /\ issued \in Nat
      /\ request \in [Requests -> Command \cup {NoRequest}]
  BY Zenon, HidingParts, PendingStep, CommandIds DEF RoutesInv, Begins, ControlOK, TypeOK, CommandTypeOK
<1>2. CASE WriterMoves
  <2>1. UNCHANGED <<request, client>> /\ r \in Begins
    BY Zenon, <1>2, WriterFrame DEF Begins
  <2>2. reply[r] = "sent" /\ \E c \in Clients : client[c].at = "beginning" /\ client[c].req = r
    BY Zenon, <1>1, <2>1 DEF RoutesOK
  <2>3. reply'[r] = "sent"
    BY Zenon, <1>1, <1>2, <2>2, WriterReplies DEF Pending
  <2> QED
    BY Zenon, <2>1, <2>2, <2>3
<1>3. ASSUME ~WriterMoves, r \in Begins, reply'[r] = reply[r],
             \A d \in Clients : client[d].at = "beginning" /\ reply[client[d].req] = "sent" => SamePlace(d)
      PROVE  reply'[r] = "sent" /\ \E c \in Clients : client'[c].at = "beginning" /\ client'[c].req = r
  <2>1. reply[r] = "sent"
    BY Zenon, <1>1, <1>3 DEF RoutesOK
  <2>2. PICK c \in Clients : client[c].at = "beginning" /\ client[c].req = r
    BY Zenon, <1>1, <1>3 DEF RoutesOK
  <2>3. SamePlace(c)
    BY Zenon, <1>3, <2>1, <2>2
  <2> QED
    BY Zenon, <1>3, <2>1, <2>2, <2>3 DEF SamePlace
<1>4. CASE NoCommand /\ ~WriterMoves
  BY Zenon, <1>3, <1>4 DEF NoCommand, Begins
<1>5. ASSUME NEW command, Issues(command), ~WriterMoves
      PROVE  reply'[r] = "sent" /\ \E c \in Clients : client'[c].at = "beginning" /\ client'[c].req = r
  <2>1. /\ request' = [request EXCEPT ![issued + 1] = command] /\ issued + 1 \in Requests
        /\ reply' = [reply EXCEPT ![issued + 1] = "sent"]
    BY <1>1, <1>5, WriterAssumption DEF Issues, PrepareAndEnqueue, Prepare, Enqueue, Requests
  <2>2. CASE r = issued + 1
    <3>1. command.op = "BeginVisibilityFence" /\ reply'[r] = "sent"
      BY Zenon, <1>1, <2>1, <2>2 DEF Begins
    <3> QED
      BY Zenon, <1>5, <2>2, <3>1 DEF Issues
  <2>3. CASE r # issued + 1
    BY Zenon, <1>1, <1>3, <1>5, <2>1, <2>3 DEF Issues, Begins
  <2> QED
    BY Zenon, <2>2, <2>3
<1>6. ASSUME NEW c \in Clients, Routes(c), ~WriterMoves
      PROVE  reply'[r] = "sent" /\ \E d \in Clients : client'[d].at = "beginning" /\ client'[d].req = r
  <2>1. PICK command : Prepare(command) /\ command.op \in AppendOps
    BY Zenon, <1>6 DEF Routes
  <2>2. r \in Begins
    BY Zenon, <1>1, <2>1 DEF Begins, Prepare, AppendOps
  <2> QED
    BY Zenon, <1>3, <1>6, <2>2 DEF Routes
<1>7. ASSUME NEW c \in Clients, Leaves(c), ~WriterMoves
      PROVE  reply'[r] = "sent" /\ \E d \in Clients : client'[d].at = "beginning" /\ client'[d].req = r
  <2>1. client[c].at = "routed" /\ r \in Begins /\ reply[r] = "sent"
    BY Zenon, <1>1, <1>7 DEF Leaves, Begins, RoutesOK
  <2>2. reply[client[c].req] = "unsent"
    BY Zenon, <1>1, <2>1 DEF RespondersOK
  <2>3. reply'[r] = reply[r]
    BY Zenon, <1>1, <1>7, <2>1, <2>2 DEF Leaves, Enqueue
  <2> QED
    BY Zenon, <1>3, <1>7, <2>1, <2>3 DEF Leaves
<1> QED
  BY Zenon, <1>1, <1>2, <1>4, <1>5, <1>6, <1>7, OutsideCommands

\* The places of commands, in every state of any number of producers.
LEMMA RoutesStep ==
    ASSUME RoutesInv, [Next]_vars
    PROVE  RoutesInv'
<1>1. HidingInv'
  BY Zenon, HidingInvStep DEF RoutesInv
<1> QED
  BY Zenon, <1>1, UnfencedPlaces, BeginsWait DEF RoutesInv, RoutesOK

-----------------------------------------------------------------------------
(* One producer.                                                           *)

\* One thread appends and opens fences.
OneProducer == \A c, d \in Clients : c = d

\* The inductive invariant of the commands behind an open fence.
AloneInv == RoutesInv /\ FenceAloneOK

\* The gate's token changes with a new one, or is given up.
LEMMA FenceTokenFrame ==
    ASSUME HidingInv, [Next]_vars
    PROVE  active_fence' = active_fence \/ active_fence' = 0 \/ active_fence' = next_fence_token
<1>1. CASE UNCHANGED gateVars
  BY Zenon, <1>1 DEF gateVars
<1>2. CASE StartAppend \/ IndexAppend \/ PublishAppend
  BY Zenon, <1>2 DEF StartAppend, IndexAppend, PublishAppend, fenceVars, note_fence_progress
<1>3. CASE CommitFence \/ CancelFence \/ AutoCancelFence \/ Panic
  BY Zenon, <1>3 DEF CommitFence, CancelFence, AutoCancelFence, Panic, CancelInIndex, cancel_fence,
     finish_fence_on_lanes, CloseFence, fenceVars
<1>4. ASSUME NEW c \in Clients, BeginFence(c) \/ SendBeginFails(c)
      PROVE  active_fence' = active_fence \/ active_fence' = 0 \/ active_fence' = next_fence_token
  BY Zenon, <1>4 DEF BeginFence, SendBeginFails, begin_fence, begin_fence_refused, CancelInIndex, cancel_fence,
     CloseFence, fenceVars
<1> QED
  BY Zenon, <1>1, <1>2, <1>3, <1>4, GateFrame

\* The ledger takes the token of the begin at hand, or none.
LEMMA LedgerTokenFrame ==
    ASSUME HidingInv, [Next]_vars
    PROVE  \/ fence_ledger'.token = fence_ledger.token
           \/ fence_ledger'.token = 0
           \/ /\ WriterMoves /\ Executing /\ cur \in Begins /\ Pending(cur)
              /\ fence_ledger'.token = request[cur].token /\ active_fence = request[cur].token
<1>1. /\ ControlOK /\ RespondersOK /\ LedgerTypeOK /\ NoLedger.token = 0
      /\ \A t : [NoLedger EXCEPT !.token = t].token = t
  BY Zenon, HidingParts DEF NoLedger
<1>2. CASE ~WriterMoves
  BY Zenon, <1>1, <1>2, OutsideFrame
<1>3. CASE IndexAppend
  BY Zenon, <1>1, <1>3 DEF IndexAppend, LedgerTypeOK
<1>4. ASSUME WriterMoves, ExecuteBegin \/ DeferredBegin
      PROVE  \/ fence_ledger'.token = fence_ledger.token
             \/ /\ WriterMoves /\ Executing /\ cur \in Begins /\ Pending(cur)
                /\ fence_ledger'.token = request[cur].token /\ active_fence = request[cur].token
  <2>1. Executing /\ request[cur].op = "BeginVisibilityFence"
    BY Zenon, <1>4 DEF ExecuteBegin, DeferredBegin, Executing, Busy
  <2>2. cur \in Begins /\ Pending(cur)
    BY Zenon, <1>1, <2>1, CurrentHeld DEF Begins, Pending
  <2> QED
    BY Zenon, <1>1, <1>4, <2>1, <2>2 DEF ExecuteBegin, DeferredBegin, BeginLedger
<1>5. CASE CommitFails \/ BroadcastFence \/ PersistCancel \/ DeferredShutdown \/ AutoCancelFence \/ Panic
  BY Zenon, <1>1, <1>5 DEF CommitFails, BroadcastFence, PersistCancel, DeferredShutdown, AutoCancelFence, Panic
<1> QED
  BY Zenon, <1>2, <1>3, <1>4, <1>5, LedgerFrame

\* The tokens of pending begins were drawn.
LEMMA BeginTokens ==
    ASSUME HidingInv
    PROVE  /\ next_fence_token \in Nat /\ fence_ledger.token \in Nat /\ active_fence \in Nat
           /\ fence_ledger.token # next_fence_token
           /\ \A b \in Begins : Pending(b) => request[b].token # 0 /\ request[b].token # next_fence_token
<1>1. TokensOK /\ GateTypeOK /\ LedgerTypeOK /\ ControlOK
  BY Zenon, HidingParts
<1>2. next_fence_token \in Nat /\ fence_ledger.token \in Nat /\ active_fence \in Nat
  BY Zenon, <1>1 DEF GateTypeOK, LedgerTypeOK
<1>3. \A b \in Begins : request[b].token < next_fence_token /\ (Pending(b) => request[b].token # 0)
  BY Zenon, <1>1 DEF TokensOK, Fresh
<1>4. \A b \in Begins : request[b].token \in Nat
  BY <1>1 DEF Begins, ControlOK, TypeOK, CommandTypeOK, Command, NoRequest
<1>5. fence_ledger.token < next_fence_token
  BY Zenon, <1>1 DEF TokensOK
<1> QED
  BY <1>2, <1>3, <1>4, <1>5

\* When the ledger of a fence is opened, and while it is open, no unfenced
\* append is on its way.
LEMMA LedgerAlone ==
    ASSUME AloneInv, [Next]_vars,
           fence_ledger'.token # 0, fence_ledger'.token = active_fence'
    PROVE  PendingUnfenced' = {}
<1> SUFFICES ASSUME NEW r \in PendingUnfenced'
             PROVE  FALSE
  BY Zenon
<1>1. HidingInv /\ ControlOK /\ RespondersOK /\ FenceAloneOK
  BY Zenon, HidingParts DEF AloneInv, RoutesInv
<1>2. r \in PendingUnfenced
  BY Zenon, <1>1, UnfencedFrame DEF gateVars
<1>3. CASE fence_ledger'.token = fence_ledger.token
  BY Zenon, <1>1, <1>2, <1>3, FenceTokenFrame, BeginTokens DEF FenceAloneOK
<1>4. CASE Executing /\ cur \in Begins /\ Pending(cur) /\ active_fence = request[cur].token
  BY Zenon, <1>1, <1>2, <1>4 DEF FenceAloneOK
<1> QED
  BY Zenon, <1>1, <1>3, <1>4, LedgerTokenFrame

\* A begin that is on its way keeps all unfenced appends ahead of it.
LEMMA BeginBehind ==
    ASSUME AloneInv, [Next]_vars, NEW b \in Begins, Pending(b), request[b].token = active_fence
    PROVE  /\ Executing' /\ cur' = b => PendingUnfenced' \cap PendingUnfenced = {}
           /\ \A i \in 1 .. Len(queue') : queue'[i] = b =>
                  \A r \in PendingUnfenced' \cap PendingUnfenced :
                      (Executing' /\ cur' = r) \/ \E j \in 1 .. i - 1 : queue'[j] = r
<1>1. /\ HidingInv /\ ControlOK /\ RespondersOK /\ FenceAloneOK /\ RoutesOK /\ queue \in Seq(Requests)
      /\ Len(queue) \in Nat
  BY HidingParts, CommandIds DEF AloneInv, RoutesInv
<1>2. /\ Executing /\ cur = b => PendingUnfenced = {}
      /\ \A i \in 1 .. Len(queue) : queue[i] = b =>
             \A r \in PendingUnfenced :
                 (Executing /\ cur = r) \/ \E j \in 1 .. i - 1 : queue[j] = r
  BY Zenon, <1>1 DEF FenceAloneOK
<1>3. reply[b] = "sent"
  BY Zenon, <1>1 DEF RoutesOK
<1>4. \A r \in PendingUnfenced' : ~Told(r)
  BY Zenon DEF Told, PendingUnfenced, Pending
<1>5. CASE WriterMoves /\ UNCHANGED queue /\ (Executing' => Executing /\ cur' = cur)
  BY Zenon, <1>1, <1>2, <1>4, <1>5, CurrentStays
<1>6. CASE ~Executing /\ queue # <<>> /\ queue' = Tail(queue) /\ cur' = Head(queue) /\ Executing'
  <2>1. /\ Len(queue') \in Nat /\ Len(queue') = Len(queue) - 1 /\ cur' = queue[1] /\ 1 \in 1 .. Len(queue)
        /\ \A i \in 1 .. Len(queue') : i + 1 \in 1 .. Len(queue) /\ queue'[i] = queue[i + 1]
    BY Zenon, <1>1, <1>6, QueueTail
  <2>2. ASSUME cur' = b
        PROVE  PendingUnfenced = {}
    <3>1. \A r \in PendingUnfenced : \E j \in 1 .. 1 - 1 : queue[j] = r
      BY Zenon, <1>2, <1>6, <2>1, <2>2
    <3> QED
      BY <3>1
  <2>3. ASSUME NEW i \in 1 .. Len(queue'), queue'[i] = b, NEW r \in PendingUnfenced
        PROVE  cur' = r \/ \E j \in 1 .. i - 1 : queue'[j] = r
    <3>1. PICK j \in 1 .. (i + 1) - 1 : queue[j] = r
      BY Zenon, <1>2, <1>6, <2>1, <2>3
    <3>2. CASE j = 1
      BY Zenon, <2>1, <3>1, <3>2
    <3>3. CASE j # 1
      <4>1. j - 1 \in 1 .. i - 1 /\ j - 1 \in 1 .. Len(queue') /\ (j - 1) + 1 = j
        BY <2>1, <3>3
      <4>2. queue'[j - 1] = r
        BY Zenon, <2>1, <3>1, <4>1
      <4> QED
        BY Zenon, <4>1, <4>2
    <3> QED
      BY Zenon, <3>2, <3>3
  <2> QED
    BY Zenon, <1>6, <2>2, <2>3
<1>7. CASE queue' = <<>> /\ ~Executing'
  <2>1. Len(queue') = 0
    BY <1>7
  <2>2. ~\E i \in 1 .. Len(queue') : TRUE
    BY <2>1
  <2> QED
    BY Zenon, <1>7, <2>2
<1>8. CASE ~WriterMoves
  <2>1. UNCHANGED cur /\ (Executing' <=> Executing)
    BY Zenon, <1>1, <1>8, OutsideFrame DEF loopVars, Executing, Busy
  <2>2. CASE UNCHANGED queue
    BY Zenon, <1>2, <2>1, <2>2
  <2>3. ASSUME NEW x, queue' = Append(queue, x), x # b
        PROVE  \A i \in 1 .. Len(queue') : queue'[i] = b =>
                  \A r \in PendingUnfenced :
                      (Executing /\ cur = r) \/ \E j \in 1 .. i - 1 : queue'[j] = r
    <3>1. SUFFICES ASSUME NEW i \in 1 .. Len(queue'), queue'[i] = b, NEW r \in PendingUnfenced,
                          ~(Executing /\ cur = r)
                   PROVE  \E j \in 1 .. i - 1 : queue'[j] = r
      BY Zenon
    <3>2. i \in 1 .. Len(queue) /\ queue[i] = b
      BY Zenon, <1>1, <2>3, <3>1, QueueAppend
    <3>3. PICK j \in 1 .. i - 1 : queue[j] = r
      BY Zenon, <1>2, <3>1, <3>2
    <3>4. j \in 1 .. Len(queue)
      BY <1>1, <3>2
    <3> QED
      BY Zenon, <1>1, <2>3, <3>3, <3>4, QueueAppend
  <2>4. ASSUME NEW c \in Clients, Leaves(c), ~UNCHANGED queue
        PROVE  queue' = Append(queue, client[c].req) /\ client[c].req # b
    BY Zenon, <1>1, <1>3, <2>4 DEF Leaves, Enqueue, RespondersOK
  <2>5. ASSUME NEW command, Issues(command)
        PROVE  queue' = Append(queue, issued + 1) /\ issued + 1 # b
    <3>1. issued \in Nat /\ b \in Requests
      BY Zenon, <1>1, CommandIds DEF Begins
    <3>2. b <= issued
      BY <1>1, <1>3, <3>1 DEF RespondersOK, Requests
    <3> QED
      BY <2>5, <3>1, <3>2 DEF Issues, PrepareAndEnqueue, Enqueue
  <2>6. UNCHANGED queue \/ \E x : queue' = Append(queue, x) /\ x # b
    BY Zenon, <1>1, <1>8, <2>4, <2>5, OutsideCommands DEF NoCommand, Routes
  <2> QED
    BY Zenon, <1>2, <2>1, <2>2, <2>3, <2>6
<1> QED
  BY Zenon, <1>1, <1>5, <1>6, <1>7, <1>8, WriterQueue

\* A begin that is sent: its producer has no append under way, so that all of
\* them are in the channel or with the writer.
LEMMA BeginSent ==
    ASSUME OneProducer, AloneInv, [Next]_vars, NEW b \in Begins', Pending(b)', b > issued
    PROVE  /\ ~(Executing' /\ cur' = b)
           /\ \A i \in 1 .. Len(queue') : queue'[i] = b =>
                  \A r \in PendingUnfenced' :
                      (Executing' /\ cur' = r) \/ \E j \in 1 .. i - 1 : queue'[j] = r
<1>1. /\ HidingInv /\ ControlOK /\ RespondersOK /\ RoutesInv /\ RoutesOK /\ queue \in Seq(Requests)
      /\ Len(queue) \in Nat /\ issued \in Nat /\ b \in Requests /\ b \in Nat
  BY HidingParts, CommandIds DEF AloneInv, RoutesInv, Begins, Requests
<1>2. reply'[b] = "sent" /\ reply[b] = "unsent"
  BY Zenon, <1>1, BeginsWait DEF RespondersOK
<1>3. ~WriterMoves
  <2>1. CASE WriterMoves
    BY Zenon, <1>1, <1>2, <2>1, WriterReplies, HidingParts
  <2> QED
    BY Zenon, <2>1
<1>4. UNCHANGED cur /\ (Executing' <=> Executing) /\ (Executing => cur # b)
  <2>1. Executing => cur \in Requests /\ reply[cur] = "sent"
    BY Zenon, <1>1, CurrentHeld
  <2> QED
    BY Zenon, <1>1, <1>2, <1>3, <2>1, OutsideFrame DEF loopVars, Executing, Busy
<1>5. PICK command : Issues(command) /\ b = issued + 1 /\ command.op = "BeginVisibilityFence"
  <2>1. CASE NoCommand
    BY Zenon, <1>2, <2>1 DEF NoCommand
  <2>2. ASSUME NEW c \in Clients, Routes(c)
        PROVE  FALSE
    BY Zenon, <1>2, <2>2 DEF Routes
  <2>3. ASSUME NEW c \in Clients, Leaves(c)
        PROVE  FALSE
    <3>1. client[c].req \in Nat /\ client[c].req <= issued /\ reply'[b] # reply[b]
      BY Zenon, <1>1, <1>2 DEF ControlOK, TypeOK, ControlTypeOK, ClientType, IssuedOK
    <3>2. b # client[c].req
      BY <1>1, <3>1
    <3> QED
      BY Zenon, <1>1, <2>3, <3>1, <3>2, CommandIds DEF Leaves, Enqueue
  <2>4. ASSUME NEW command, Issues(command)
        PROVE  b = issued + 1 /\ command.op = "BeginVisibilityFence"
    <3>1. reply' = [reply EXCEPT ![issued + 1] = "sent"] /\ request' = [request EXCEPT ![issued + 1] = command]
      BY Zenon, <2>4 DEF Issues, PrepareAndEnqueue, Prepare, Enqueue
    <3>2. b = issued + 1
      BY Zenon, <1>1, <1>2, <3>1, CommandIds
    <3> QED
      BY Zenon, <1>1, <3>1, <3>2 DEF Begins, ControlOK, TypeOK, CommandTypeOK
  <2> QED
    BY Zenon, <1>1, <1>3, <2>1, <2>2, <2>3, <2>4, OutsideCommands
<1>6. PICK c \in Clients : client[c].at = "begun"
  BY Zenon, <1>5 DEF Issues
<1>7. queue' = Append(queue, b)
  BY Zenon, <1>5 DEF Issues, PrepareAndEnqueue, Enqueue
<1>8. ASSUME NEW i \in 1 .. Len(queue'), queue'[i] = b
      PROVE  i = Len(queue) + 1
  <2>1. i \in 1 .. Len(queue) => queue[i] = b
    BY Zenon, <1>1, <1>7, <1>8, QueueAppend
  <2>2. i \notin 1 .. Len(queue)
    BY Zenon, <1>1, <1>2, <2>1 DEF RespondersOK
  <2> QED
    BY Zenon, <1>1, <1>7, <2>2, QueueAppend
<1>9. ASSUME NEW r \in PendingUnfenced'
      PROVE  (Executing' /\ cur' = r) \/ \E j \in 1 .. Len(queue) : queue'[j] = r
  <2>1. r \in PendingUnfenced
    <3>1. r # b
      BY Zenon DEF PendingUnfenced, Begins
    <3> QED
      BY Zenon, <1>1, <1>5, <3>1, UnfencedFrame
  <2>2. ASSUME NEW d \in Clients, RoutedBy(d, r)
        PROVE  FALSE
    BY Zenon, <1>6, <2>2 DEF OneProducer, RoutedBy
  <2>3. r \in Queued \/ (Executing /\ cur = r)
    BY Zenon, <1>1, <2>1, <2>2 DEF RoutesOK
  <2>4. CASE r \in Queued
    BY Zenon, <1>1, <1>7, <2>4, QueueAppend DEF Queued
  <2> QED
    BY Zenon, <1>4, <2>3, <2>4
<1>10. ASSUME NEW i \in 1 .. Len(queue'), queue'[i] = b
       PROVE  1 .. i - 1 = 1 .. Len(queue)
  BY <1>1, <1>8, <1>10
<1> QED
  BY Zenon, <1>4, <1>9, <1>10

\* FenceAloneOK is inductive for a single producer.
LEMMA AloneStep ==
    ASSUME OneProducer, AloneInv, [Next]_vars
    PROVE  AloneInv'
<1>1. /\ HidingInv /\ ControlOK /\ RespondersOK /\ RoutesInv /\ issued \in Nat
      /\ \A r \in 1 .. issued : request'[r] = request[r]
  BY Zenon, HidingParts, CommandIds, CommandsFixed DEF AloneInv, RoutesInv
<1>2. ASSUME NEW b \in Begins', Pending(b)', request'[b].token = active_fence'
      PROVE  /\ Executing' /\ cur' = b => PendingUnfenced' = {}
             /\ \A i \in 1 .. Len(queue') : queue'[i] = b =>
                    \A r \in PendingUnfenced' :
                        (Executing' /\ cur' = r) \/ \E j \in 1 .. i - 1 : queue'[j] = r
  <2>1. CASE b > issued
    BY Zenon, <1>2, <2>1, BeginSent
  <2>2. CASE ~(b > issued)
    <3>1. b \in Requests /\ b \in 1 .. issued /\ Pending(b)
      BY <1>1, <1>2, <2>2, PendingStep DEF Begins, Requests
    <3>2. b \in Begins /\ request'[b] = request[b]
      BY Zenon, <1>1, <3>1 DEF Begins
    <3>3. request[b].token = active_fence /\ active_fence # 0 /\ active_fence' = active_fence
      BY Zenon, <1>1, <1>2, <3>1, <3>2, BeginTokens, FenceTokenFrame
    <3>4. PendingUnfenced' \subseteq PendingUnfenced
      BY Zenon, <1>1, <3>3, UnfencedFrame
    <3>5. PendingUnfenced' \cap PendingUnfenced = PendingUnfenced'
      BY Zenon, <3>4
    <3> QED
      BY Zenon, <3>1, <3>2, <3>3, <3>5, BeginBehind
  <2> QED
    BY Zenon, <2>1, <2>2
<1>3. FenceAloneOK'
  BY Zenon, <1>2, LedgerAlone DEF FenceAloneOK
<1> QED
  BY Zenon, <1>1, <1>3, RoutesStep DEF AloneInv

-----------------------------------------------------------------------------
(* Nothing is published past what the open fence has staged.               *)

\* The inductive invariant of what an open fence has staged.
StagedInv == AloneInv /\ StagedOK

\* A number is not above itself.
LEMMA SelfBelow == \A n \in Nat : n <= n
OBVIOUS

\* Parts of the invariant, with the types the arithmetic needs.
LEMMA StagedParts ==
    ASSUME StagedInv
    PROVE  /\ HidingInv /\ AloneInv /\ FenceAloneOK /\ StagedOK
           /\ GateInv /\ ControlOK /\ RespondersOK /\ CancelledOK /\ BoundsOK /\ FenceRangeSound /\ LedgerOK
           /\ visible \in Nat /\ lane_visible \in [Lanes -> Nat] /\ allocated \in Nat
           /\ active_fence_end \in Nat /\ active_fence_start \in Nat \cup {Unset} /\ Unset \notin Nat
           /\ fence_ledger.up_to \in Nat /\ fence_ledger.points \in [Lanes -> Nat]
           /\ cancelled_ranges \subseteq Nat /\ \A e \in entries : e.seq \in Nat
<1>1. HidingInv /\ AloneInv /\ FenceAloneOK /\ StagedOK
  BY Zenon DEF StagedInv, AloneInv, RoutesInv
<1>2. Unset \notin Nat
  BY DEF Unset
<1> QED
  BY Zenon, <1>1, <1>2, HidingParts DEF GateTypeOK, LedgerTypeOK, IndexTypeOK

\* With something staged under the open fence the writer holds no unfenced
\* append.
LEMMA StagedExcludes ==
    ASSUME StagedInv, active_fence_start # Unset, ~Gone
    PROVE  /\ active_fence # 0 /\ fence_ledger.token = active_fence
           /\ InAppend => Fenced(cur)
           /\ ~PublishAppend
<1>1. active_fence # 0 /\ fence_ledger.token = active_fence
  BY Zenon, StagedParts DEF StagedOK, FenceRangeSound
<1>2. PendingUnfenced = {}
  BY Zenon, <1>1, StagedParts DEF FenceAloneOK
<1>3. ASSUME InAppend
      PROVE  Fenced(cur)
  <2>1. Executing /\ request[cur].op \in AppendOps
    BY Zenon, <1>3, StagedParts DEF InAppend, Executing, Busy, ControlOK, StepOK
  <2>2. cur \in Requests /\ reply[cur] = "sent"
    BY Zenon, <2>1, StagedParts, CurrentHeld
  <2> QED
    BY <1>2, <2>1, <2>2 DEF PendingUnfenced, Pending, Fenced, AppendOps
<1>4. ~PublishAppend
  BY Zenon, <1>3, StagedParts DEF PublishAppend, InAppend, ControlOK, StepOK
<1> QED
  BY Zenon, <1>1, <1>3, <1>4

\* So the gate never refuses the commit of the fence.
LEMMA CommitNeverRefused ==
    ASSUME StagedInv
    PROVE  ~CommitFails
<1> SUFFICES ASSUME CommitFails
             PROVE  FALSE
  BY Zenon
<1>1. pc = "deferred" /\ fence_ledger.up_to # 0 /\ ~PublishAdmitted(fence_ledger.up_to, fence_ledger.points)
  BY Zenon DEF CommitFails, CommitAdmitted
<1>2. fence_ledger.token # 0
  <2>1. NoLedger.up_to = 0
    BY DEF NoLedger
  <2> QED
    BY Zenon, <1>1, <2>1, StagedParts DEF LedgerOK
<1>3. fence_ledger.up_to = active_fence_end
  BY Zenon, <1>1, <1>2, StagedParts DEF LedgerOK, LedgerOwnsFence, Committing
<1>4. active_fence_start # Unset /\ active_fence_start < active_fence_end /\ active_fence_end <= allocated
  BY Zenon, <1>1, <1>3, StagedParts DEF FenceRangeSound
<1>5. /\ visible <= active_fence_start
      /\ \A l \in Lanes : lane_visible[l] <= active_fence_start
      /\ \A l \in Lanes : fence_ledger.points[l] # 0 => active_fence_start < fence_ledger.points[l]
      /\ \A l \in Lanes : fence_ledger.points[l] <= fence_ledger.up_to
  BY Zenon, <1>4, StagedParts DEF StagedOK, LedgerOK
<1>6. /\ visible \in Nat /\ lane_visible \in [Lanes -> Nat] /\ allocated \in Nat /\ active_fence_end \in Nat
      /\ active_fence_start \in Nat /\ fence_ledger.points \in [Lanes -> Nat]
  BY Zenon, <1>4, StagedParts
<1>7. PublishAdmitted(fence_ledger.up_to, fence_ledger.points)
  BY <1>3, <1>4, <1>5, <1>6 DEF PublishAdmitted
<1> QED
  BY Zenon, <1>1, <1>7

\* The fenced append that is indexed extends what the fence has staged.
LEMMA StagedIndex ==
    ASSUME StagedInv, IndexAppend, Fenced(cur)
    PROVE  StagedOK'
<1>1. pc = "index" /\ InAppend /\ Unindexed /\ ~Gone
  BY Zenon DEF IndexAppend, InAppend, Unindexed, Gone
<1>2. /\ work.first \in Nat /\ work.points \in [Lanes -> Nat] /\ LoopTypeOK
      /\ visible <= work.first /\ \A l \in Lanes : lane_visible[l] <= work.first
      /\ \A l \in Lanes : work.points[l] # 0 => work.first < work.points[l]
      /\ \A s \in cancelled_ranges : s < work.first
      /\ active_fence_end <= work.first
      /\ \A e \in entries : e.seq < work.first
  BY Zenon, <1>1, StagedParts, HidingParts
     DEF LoopTypeOK, BoundsOK, PointsOK, CancelledOK, SequencesOK
<1>3. /\ active_fence = fence_ledger.token
      /\ active_fence_start' = IF active_fence_start = Unset \/ work.first < active_fence_start
                               THEN work.first ELSE active_fence_start
      /\ UNCHANGED <<active_fence, visible, lane_visible, cancelled_ranges>>
      /\ Settle(1)
  BY Zenon DEF IndexAppend, note_fence_progress, published, cancelVars
<1>4. pc' \notin {"broadcast", "persist", "exited", "crashed"}
  BY Zenon, <1>2, <1>3, Settled
<1>5. /\ fence_ledger'.token = fence_ledger.token
      /\ \A l \in Lanes : fence_ledger'.points[l] = Larger(fence_ledger.points[l], work.points[l])
      /\ fence_ledger'.requests = fence_ledger.requests \cup {cur}
      /\ \A e \in entries' : e \in entries \/ e.request = cur
  <2>1. fence_ledger' = [fence_ledger EXCEPT
                   !.up_to = Larger(@, LastSeq + 1),
                   !.points = [l \in Lanes |-> Larger(@[l], work.points[l])],
                   !.seqs = @ \cup CurSeqs,
                   !.requests = @ \cup {cur}]
    BY Zenon DEF IndexAppend
  <2>2. LedgerTypeOK
    BY Zenon, StagedParts, HidingParts
  <2>3. \A e \in entries' : e \in entries \/ e.request = cur
    BY DEF IndexAppend
  <2> QED
    BY <2>1, <2>2, <2>3 DEF LedgerTypeOK
<1>6. /\ active_fence_start' \in Nat
      /\ visible <= active_fence_start'
      /\ \A l \in Lanes : lane_visible[l] <= active_fence_start'
      /\ active_fence_start' <= work.first
      /\ \A s \in cancelled_ranges : s < active_fence_start'
      /\ active_fence_start # Unset => active_fence_start' = active_fence_start
      /\ active_fence_start = Unset => active_fence_start' = work.first
  <2>1. CASE active_fence_start = Unset
    BY Zenon, <1>2, <1>3, <2>1, StagedParts, SelfBelow
  <2>2. CASE active_fence_start # Unset
    <3>1. active_fence_start \in Nat /\ active_fence_start < active_fence_end /\ active_fence_end \in Nat
      BY Zenon, <2>2, StagedParts DEF FenceRangeSound
    <3>2. active_fence_start <= work.first /\ ~(work.first < active_fence_start)
      BY <1>2, <3>1
    <3> QED
      BY Zenon, <1>3, <2>2, <3>1, <3>2, StagedParts DEF StagedOK
  <2> QED
    BY Zenon, <2>1, <2>2
<1>7. ASSUME NEW l \in Lanes, fence_ledger'.points[l] # 0
      PROVE  active_fence_start' < fence_ledger'.points[l]
  <2>1. /\ fence_ledger.points[l] \in Nat /\ work.points[l] \in Nat
        /\ fence_ledger'.points[l] = Larger(fence_ledger.points[l], work.points[l])
    BY Zenon, <1>2, <1>5, StagedParts
  <2>2. fence_ledger.points[l] # 0 => active_fence_start' < fence_ledger.points[l]
    <3>1. CASE active_fence_start # Unset
      BY Zenon, <1>6, <3>1, StagedParts DEF StagedOK
    <3>2. CASE active_fence_start = Unset
      <4>1. fence_ledger.token # 0 /\ ~Committing /\ pc # "persist"
        BY Zenon, <1>1, StagedParts DEF LedgerOK, Committing
      <4>2. fence_ledger.up_to = 0 /\ fence_ledger.points[l] <= fence_ledger.up_to
        BY Zenon, <3>2, <4>1, StagedParts DEF LedgerOK, LedgerOwnsFence, FenceRangeSound
      <4> QED
        BY <2>1, <4>2
    <3> QED
      BY Zenon, <3>1, <3>2
  <2>3. work.points[l] # 0 => active_fence_start' < work.points[l]
    BY <1>2, <1>6, <2>1
  <2> QED
    BY <1>6, <1>7, <2>1, <2>2, <2>3 DEF Larger
<1>8. ASSUME NEW e \in entries', active_fence_start' <= e.seq
      PROVE  e.request \in fence_ledger'.requests
  <2>1. CASE e.request = cur
    BY Zenon, <1>5, <2>1
  <2>2. CASE e \in entries
    <3>1. active_fence_start # Unset
      BY <1>2, <1>6, <1>8, <2>2, StagedParts
    <3>2. e.request \in fence_ledger.requests
      BY Zenon, <1>1, <1>6, <1>8, <2>2, <3>1, StagedParts DEF StagedOK
    <3> QED
      BY Zenon, <1>5, <3>2
  <2> QED
    BY Zenon, <1>5, <2>1, <2>2
<1> QED
  BY Zenon, <1>3, <1>4, <1>5, <1>6, <1>7, <1>8 DEF StagedOK, Committing

\* Once the writer has ended it stays so.
LEMMA GoneStays ==
    ASSUME ControlOK, [Next]_vars, Gone
    PROVE  Gone' /\ ~WriterMoves
<1>1. ~WriterStep
  <2>1. pc \in {"exited", "crashed"}
    BY Zenon DEF Gone
  <2>2. ~AppendStep
    BY Zenon, <2>1 DEF AppendStep, StartAppend, RefuseAppend, AcceptItem, RotateSegment, RotateFails,
       WriteFrame, WriteFails, SyncBatch, IndexAppend, PublishAppend, BroadcastAppend
  <2>3. ~FenceStep
    BY Zenon, <2>1 DEF FenceStep, ExecuteBegin, DeferredBegin, CommitRefused, CommitFails, CommitFence,
       BroadcastFence, CancelRefused, CancelFence, PersistCancel
  <2>4. ~LoopStep
    BY Zenon, <2>1 DEF LoopStep, Receive, EndDrain, PeriodicSync, SyncBarrier, DeferredSync,
       DeferredShutdown, StartShutdown, AutoCancelFence, FinishShutdown
  <2> QED
    BY Zenon, <2>2, <2>3, <2>4 DEF WriterStep
<1>2. ~WriterMoves
  BY Zenon, <1>1 DEF WriterMoves, Panic, Gone
<1> QED
  BY Zenon, <1>2, OutsideFrame DEF Gone, loopVars

\* What a fence has staged moves only with the fenced append that is indexed.
LEMMA StagedGate ==
    ASSUME StagedInv, [Next]_vars, active_fence_start' # Unset, ~(IndexAppend /\ Fenced(cur))
    PROVE  /\ active_fence_start # Unset
           /\ UNCHANGED <<active_fence, active_fence_start, visible, lane_visible, cancelled_ranges>>
           /\ ~IndexAppend /\ ~Panic
           /\ AutoCancelFence => fence_ledger.token = 0
<1> DEFINE Kept == UNCHANGED <<active_fence, active_fence_start, visible, lane_visible, cancelled_ranges>>
           Same == active_fence_start # Unset /\ Kept
<1>1. active_fence = 0 => active_fence_start = Unset
  BY Zenon, StagedParts DEF FenceRangeSound
<1>2. ~Panic
  <2>1. ASSUME Panic
        PROVE  FALSE
    <3>1. (UNCHANGED fenceVars /\ active_fence = 0) \/ CancelInIndex(active_fence)
      BY Zenon, <2>1 DEF Panic
    <3> QED
      BY Zenon, <1>1, <3>1 DEF fenceVars, CancelInIndex, cancel_fence, CloseFence
  <2> QED
    BY Zenon, <2>1
<1>3. ASSUME IndexAppend
      PROVE  FALSE
  <2>1. pc = "index" /\ ~Fenced(cur) /\ UNCHANGED active_fence_start
    BY Zenon, <1>3 DEF IndexAppend, fenceVars
  <2>2. InAppend /\ ~Gone
    BY Zenon, <2>1 DEF InAppend, Gone
  <2> QED
    BY Zenon, <2>1, <2>2, StagedExcludes
<1>4. ASSUME UNCHANGED gateVars
      PROVE  Same
  BY Zenon, <1>4 DEF gateVars
<1>5. ASSUME StartAppend
      PROVE  Same
  BY Zenon, <1>5 DEF StartAppend, published, fenceVars, cancelVars
<1>6. ASSUME PublishAppend
      PROVE  Same
  <2>1. UNCHANGED active_fence_start /\ pc = "publish"
    BY Zenon, <1>6 DEF PublishAppend, fenceVars
  <2> QED
    BY Zenon, <1>6, <2>1, StagedExcludes DEF Gone
<1>7. ASSUME CommitFence \/ CancelFence
      PROVE  Same
  BY Zenon, <1>7 DEF CommitFence, CancelFence, finish_fence_on_lanes, CancelInIndex, cancel_fence, CloseFence
<1>8. AutoCancelFence => fence_ledger.token = 0
  BY Zenon DEF AutoCancelFence, CancelInIndex, cancel_fence, CloseFence
<1>9. ASSUME AutoCancelFence
      PROVE  Same
  BY Zenon, <1>8, <1>9 DEF AutoCancelFence, published, fenceVars, cancelVars
<1>10. ASSUME NEW c \in Clients, BeginFence(c) \/ SendBeginFails(c)
       PROVE  Same
  BY Zenon, <1>10 DEF BeginFence, SendBeginFails, begin_fence, begin_fence_refused, CancelInIndex, cancel_fence,
     CloseFence, published, fenceVars, cancelVars
<1>11. Same
  BY Zenon, <1>2, <1>3, <1>4, <1>5, <1>6, <1>7, <1>9, <1>10, GateFrame
<1> QED
  BY Zenon, <1>2, <1>3, <1>8, <1>11

\* The ledger of a fence that has staged something leaves only with the writer.
LEMMA StagedLedger ==
    ASSUME StagedInv, [Next]_vars, active_fence_start' # Unset, ~(IndexAppend /\ Fenced(cur))
    PROVE  UNCHANGED fence_ledger \/ (fence_ledger' = NoLedger /\ Gone')
<1>1. /\ active_fence_start # Unset /\ ~IndexAppend /\ ~Panic
      /\ AutoCancelFence => fence_ledger.token = 0
      /\ ~Committing /\ pc # "persist"
  BY Zenon, StagedGate, StagedParts DEF StagedOK
<1>2. ~Gone => fence_ledger.token # 0
  BY Zenon, <1>1, StagedExcludes
<1>3. CASE ExecuteBegin \/ DeferredBegin
  BY Zenon, <1>2, <1>3 DEF ExecuteBegin, DeferredBegin, BeginLedger, Gone
<1>4. ~CommitFails
  BY Zenon, CommitNeverRefused
<1>5. ~BroadcastFence /\ ~PersistCancel /\ ~AutoCancelFence
  BY Zenon, <1>1, <1>2 DEF BroadcastFence, PersistCancel, AutoCancelFence, Committing, Gone
<1>6. CASE DeferredShutdown
  BY Zenon, <1>6 DEF DeferredShutdown, Gone
<1> QED
  BY Zenon, <1>1, <1>3, <1>4, <1>5, <1>6, LedgerFrame

\* The writer broadcasts a commit or persists a cancel only when it has just taken
\* the fence out of the gate.
LEMMA FinishPhase ==
    ASSUME ControlOK, WriterMoves, Committing' \/ pc' = "persist"
    PROVE  CommitFence \/ CancelFence
<1>1. UNCHANGED request /\ LoopTypeOK
  BY Zenon, WriterFrame DEF ControlOK, TypeOK
<1>2. ASSUME NEW delta, Settle(delta) \/ SettleSynced
      PROVE  FALSE
  BY Zenon, <1>1, <1>2, Settled DEF Committing
<1>3. ~RefuseAppend /\ ~RotateFails /\ ~WriteFails /\ ~BroadcastAppend
  BY Zenon, <1>2 DEF RefuseAppend, RotateFails, WriteFails, BroadcastAppend, FailAppend
<1>4. ~SyncBatch /\ ~StartAppend /\ ~AcceptItem /\ ~RotateSegment /\ ~WriteFrame
  BY Zenon, <1>2 DEF SyncBatch, FailAppend, StartAppend, AcceptItem, RotateSegment, WriteFrame, Committing
<1>5. ~ExecuteBegin /\ ~DeferredBegin /\ ~CommitRefused /\ ~CommitFails /\ ~BroadcastFence
      /\ ~CancelRefused /\ ~PersistCancel /\ ~DeferredSync
  BY Zenon, <1>2 DEF ExecuteBegin, DeferredBegin, CommitRefused, CommitFails, BroadcastFence,
     CancelRefused, PersistCancel, DeferredSync
<1>6. ~IndexAppend
  BY Zenon, <1>2 DEF IndexAppend, Committing
<1>7. ~PublishAppend
  <2>1. ASSUME PublishAppend
        PROVE  FALSE
    <3>1. pc = "publish" /\ UNCHANGED cur /\ pc' = "broadcast"
      BY Zenon, <2>1 DEF PublishAppend
    <3>2. request[cur].op \in AppendOps /\ request[cur].op = "CommitVisibilityFence"
      BY Zenon, <1>1, <3>1 DEF Committing, ControlOK, StepOK, InAppend
    <3> QED
      BY Zenon, <3>2 DEF AppendOps
  <2> QED
    BY Zenon, <2>1
<1>8. ~Receive /\ ~EndDrain /\ ~PeriodicSync /\ ~SyncBarrier /\ ~DeferredShutdown /\ ~StartShutdown
      /\ ~AutoCancelFence /\ ~FinishShutdown
  BY Zenon DEF Receive, Take, EndDrain, PeriodicSync, SyncBarrier, DeferredShutdown, StartShutdown,
     AutoCancelFence, FinishShutdown, Committing
<1>9. ~Panic
  BY Zenon DEF Panic, Committing
<1> QED
  BY Zenon, <1>3, <1>4, <1>5, <1>6, <1>7, <1>8, <1>9
     DEF WriterMoves, WriterStep, AppendStep, FenceStep, LoopStep

\* StagedOK is inductive for a single producer.
LEMMA StagedStep ==
    ASSUME OneProducer, StagedInv, [Next]_vars
    PROVE  StagedInv'
<1>1. StagedOK /\ ControlOK
  BY Zenon, StagedParts
<1>2. CASE IndexAppend /\ Fenced(cur)
  BY Zenon, <1>2, StagedIndex, StagedParts, AloneStep DEF StagedInv
<1>3. ASSUME ~(IndexAppend /\ Fenced(cur)), active_fence_start' # Unset
      PROVE  /\ ~Committing' /\ pc' # "persist"
             /\ visible' <= active_fence_start'
             /\ \A l \in Lanes : lane_visible'[l] <= active_fence_start'
             /\ \A l \in Lanes : fence_ledger'.points[l] # 0 => active_fence_start' < fence_ledger'.points[l]
             /\ \A s \in cancelled_ranges' : s < active_fence_start'
             /\ fence_ledger'.token = active_fence' \/ Gone'
             /\ ~Gone' => \A e \in entries' :
                    active_fence_start' <= e.seq => e.request \in fence_ledger'.requests
  <2>1. /\ active_fence_start # Unset
        /\ UNCHANGED <<active_fence, active_fence_start, visible, lane_visible, cancelled_ranges>>
        /\ ~IndexAppend
    BY Zenon, <1>3, StagedGate
  <2>2. UNCHANGED entries
    BY Zenon, <2>1, IndexFrame DEF indexVars, BroadcastAppend, BroadcastFence, PersistCancel, AutoCancelFence, Panic
  <2>3. UNCHANGED fence_ledger \/ (fence_ledger' = NoLedger /\ Gone')
    BY Zenon, <1>3, StagedLedger
  <2>4. Gone => Gone'
    BY Zenon, <1>1, GoneStays
  <2>5. ~Committing' /\ pc' # "persist"
    <3>1. CASE WriterMoves
      BY Zenon, <1>1, <1>3, <3>1, FinishPhase
         DEF CommitFence, CancelFence, finish_fence_on_lanes, CancelInIndex, cancel_fence, CloseFence
    <3>2. CASE ~WriterMoves
      BY Zenon, <1>1, <2>1, <3>2, OutsideFrame DEF StagedOK, Committing, loopVars, Busy
    <3> QED
      BY Zenon, <3>1, <3>2
  <2>6. \A l \in Lanes : NoLedger.points[l] = 0
    BY DEF NoLedger, NoLanePoints
  <2> QED
    BY Zenon, <1>1, <2>1, <2>2, <2>3, <2>4, <2>5, <2>6 DEF StagedOK
<1>4. CASE ~(IndexAppend /\ Fenced(cur))
  BY Zenon, <1>3, <1>4, StagedParts, AloneStep DEF StagedInv, StagedOK
<1> QED
  BY Zenon, <1>2, <1>4

\* At the start nothing waits and nothing is staged.
LEMMA StagedInit ==
    ASSUME Init
    PROVE  StagedInv
<1>1. HidingInv
  BY Zenon, HidingInvInit
<1>2. /\ request = [r \in Requests |-> NoRequest] /\ fence_ledger = NoLedger
      /\ active_fence_start = Unset
  BY Zenon DEF Init, WriterInit
<1>3. PendingUnfenced = {} /\ Begins = {}
  BY <1>2 DEF PendingUnfenced, Begins, NoRequest
<1> QED
  BY Zenon, <1>1, <1>2, <1>3 DEF StagedInv, AloneInv, RoutesInv, RoutesOK, FenceAloneOK, StagedOK

\* With one producer the layer holds in every reachable state.
LEMMA StagedInvariant ==
    ASSUME OneProducer
    PROVE  Spec => []StagedInv
<1>1. Init => StagedInv
  BY Zenon, StagedInit
<1>2. StagedInv /\ [Next]_vars => StagedInv'
  BY Zenon, StagedStep
<1> QED
  BY <1>1, <1>2, PTL DEF Spec

\* What is staged is out of every reader's reach, and a cancel hides nothing a
\* reader has seen.
LEMMA StagedUnseen ==
    ASSUME StagedInv, NEW e \in entries, e.seq \in FenceRange
    PROVE  ~(e.seq < visible) /\ ~(e.seq < lane_visible[e.lane])
<1>1. e.seq \in Nat /\ e.lane \in Lanes
  BY Zenon, StagedParts, HidingParts DEF IndexTypeOK
<1>2. active_fence_start # Unset /\ e.seq \in active_fence_start .. active_fence_end - 1
  BY Zenon DEF FenceRange
<1>3. active_fence_start \in Nat /\ active_fence_end \in Nat
  BY Zenon, <1>2, StagedParts
<1>4. active_fence_start <= e.seq
  BY <1>1, <1>2, <1>3
<1>5. /\ visible <= active_fence_start /\ lane_visible[e.lane] <= active_fence_start
      /\ visible \in Nat /\ lane_visible[e.lane] \in Nat
  BY Zenon, <1>1, <1>2, StagedParts DEF StagedOK
<1> QED
  BY <1>1, <1>3, <1>4, <1>5

\* With one producer, whatever is staged under a fence is hidden from global and
\* lane readers until the fence commits, and for good once it is cancelled,
\* across panics and restarts of the writer (VisibilityFence, fence_runtime.rs).
\* A second producer breaks it: an append routed before the fence began is
\* published past what the fence staged.
THEOREM StagedStaysHidden ==
    ASSUME OneProducer
    PROVE  Spec => []FenceHides
<1>1. StagedInv => FenceHides
  <2>1. SUFFICES ASSUME StagedInv, NEW e \in entries,
                        \/ e.request \in fence_ledger.requests /\ ~Committing
                        \/ reply[e.request] = "cancelled"
                 PROVE  Hidden(e)
    BY Zenon DEF FenceHides
  <2>2. HiddenOK /\ LedgerOK
    BY Zenon, <2>1, StagedParts, HidingParts
  <2>3. CASE e.seq \in cancelled_ranges
    BY Zenon, <2>3 DEF Hidden, SeenOnLane, is_visible, is_visible_on_lane
  <2>4. CASE e.seq \in FenceRange
    BY Zenon, <2>1, <2>4, StagedUnseen DEF Hidden, SeenOnLane, is_visible, is_visible_on_lane
  <2>5. CASE e.request \in fence_ledger.requests /\ ~Committing /\ pc # "persist"
    <3>1. fence_ledger.token # 0
      <4>1. NoLedger.requests = {}
        BY DEF NoLedger
      <4> QED
        BY Zenon, <2>2, <2>5, <4>1 DEF LedgerOK
    <3> QED
      BY Zenon, <2>1, <2>2, <2>4, <2>5, <3>1 DEF LedgerOK, LedgerOwnsFence, HiddenOK
  <2> QED
    BY Zenon, <2>1, <2>2, <2>3, <2>5 DEF LedgerOK, HiddenOK
<1> QED
  BY <1>1, StagedInvariant, PTL

\* With one producer, an event a reader has seen is never hidden again, though the
\* writer may panic, restart and cancel the fence that is open in the gate.
THEOREM SeenStaysSeen ==
    ASSUME OneProducer
    PROVE  Spec => SeenForever
<1>1. StagedInv /\ [Next]_vars => [\A e \in entries : Seen(e) => Seen(e)']_vars
  <2>1. SUFFICES ASSUME StagedInv, [Next]_vars, NEW e \in entries, Seen(e)
                 PROVE  Seen(e)'
    BY Zenon
  <2>2. GateInv /\ ControlOK /\ ControlOK' /\ e.lane \in Lanes /\ e.seq \in Nat
    BY Zenon, <2>1, StagedParts, HidingParts, ControlStep DEF IndexTypeOK
  <2>3. /\ e.seq < visible /\ e.seq < lane_visible[e.lane]
        /\ e.seq \notin cancelled_ranges /\ e.seq \notin lane_cancelled_ranges[e.lane]
    BY Zenon, <2>1 DEF Seen, SeenOnLane, is_visible, is_visible_on_lane
  <2>4. e.seq < visible' /\ e.seq < lane_visible'[e.lane]
    <3>1. /\ visible <= visible' /\ lane_visible[e.lane] <= lane_visible'[e.lane]
          /\ visible \in Nat /\ visible' \in Nat /\ lane_visible[e.lane] \in Nat /\ lane_visible'[e.lane] \in Nat
      BY Zenon, <2>1, <2>2, PublishedGrows DEF ControlOK, TypeOK, GateTypeOK
    <3> QED
      BY <2>2, <2>3, <3>1
  <2>5. e.seq \notin cancelled_ranges' /\ e.seq \notin lane_cancelled_ranges'[e.lane]
    <3>1. CASE UNCHANGED cancelVars
      BY Zenon, <2>3, <3>1 DEF cancelVars
    <3>2. ASSUME NEW token, CancelInIndex(token)
          PROVE  e.seq \notin cancelled_ranges' /\ e.seq \notin lane_cancelled_ranges'[e.lane]
      <4>1. /\ cancelled_ranges' = cancelled_ranges \cup FenceRange
            /\ lane_cancelled_ranges'[e.lane] \subseteq lane_cancelled_ranges[e.lane] \cup FenceRange
        BY Zenon, <2>2, <3>2, CancelEffect
      <4>2. e.seq \notin FenceRange
        BY Zenon, <2>1, <2>3, StagedUnseen
      <4> QED
        BY Zenon, <2>3, <4>1, <4>2
    <3> QED
      BY Zenon, <2>1, <2>2, <3>1, <3>2, CancelSteps
  <2> QED
    BY Zenon, <2>4, <2>5 DEF Seen, SeenOnLane, is_visible, is_visible_on_lane
<1> QED
  BY <1>1, StagedInvariant, PTL DEF SeenForever, Spec
=============================================================================
