------------------------ MODULE WriteSequenceProofs -------------------------
(***************************************************************************)
(* Who holds the responder of a command, the second layer of the inductive *)
(* invariant, and the third: which fence a begin command may open, and     *)
(* which sequences an append may own.                                      *)
(***************************************************************************)
EXTENDS WriteTypeProofs


-----------------------------------------------------------------------------
(* Responders.                                                             *)

\* Where commands are named, they are commands.
LEMMA CommandIds ==
    ASSUME ControlOK
    PROVE  /\ queue \in Seq(Requests) /\ fence_ledger.requests \subseteq Requests
           /\ issued \in Nat /\ reply \in [Requests -> Replies]
           /\ \A c \in Clients : client[c].at = "routed" => client[c].req \in Requests
<1>1. /\ queue \in Seq(Requests) /\ fence_ledger.requests \subseteq Requests
      /\ issued \in Nat /\ reply \in [Requests -> Replies]
  BY Zenon DEF ControlOK, TypeOK, CommandTypeOK, LedgerTypeOK, ControlTypeOK
<1>2. \A c \in Clients : client[c].req \in Nat
  BY Zenon DEF ControlOK, TypeOK, ControlTypeOK, ClientType
<1>3. \A c \in Clients : client[c].at = "routed" => client[c].req \in Requests
  BY <1>1, <1>2, WriterAssumption DEF ControlOK, IssuedOK, CommandsOK, Requests
<1> QED
  BY Zenon, <1>1, <1>3

\* A step that ends the command at hand and answers the commands of A, none of
\* which is left in the channel or in the ledger.
LEMMA Released ==
    ASSUME ControlOK, RespondersOK, NEW A,
           \A r \in Requests : r \notin A => reply'[r] = reply[r],
           \A r \in A \cap Requests : reply[r] # "unsent",
           queue' = <<>> \/ (queue' = queue /\ \A i \in 1 .. Len(queue) : queue[i] \notin A),
           fence_ledger'.requests \subseteq fence_ledger.requests \ A,
           ~Executing', UNCHANGED <<client, issued>>,
           Ended' => fence_ledger' = NoLedger
    PROVE  RespondersOK'
<1>1. /\ queue \in Seq(Requests) /\ fence_ledger.requests \subseteq Requests /\ issued \in Nat
      /\ \A c \in Clients : client[c].at = "routed" => client[c].req \in Requests
  BY Zenon, CommandIds
<1>2. \A i \in 1 .. Len(queue) : queue[i] \in Requests
  BY <1>1
<1>3. Len(<<>>) = 0
  BY Zenon
<1> QED
  BY <1>1, <1>2, <1>3 DEF RespondersOK

\* A step in the middle of a command.
LEMMA Unanswered ==
    ASSUME RespondersOK, UNCHANGED <<reply, queue, fence_ledger, client, issued>>,
           Executing' => Executing /\ cur' = cur,
           Ended' => Ended
    PROVE  RespondersOK'
BY DEF RespondersOK

\* The command at hand is in the writer's hands only.
LEMMA CurrentHeld ==
    ASSUME ControlOK, RespondersOK, Executing
    PROVE  /\ cur \in Requests /\ reply[cur] = "sent"
           /\ cur \notin fence_ledger.requests
           /\ \A i \in 1 .. Len(queue) : queue[i] # cur
BY Zenon, CurrentCommand DEF RespondersOK, Executing

\* A command with a new id, or the one a producer is about to send, is enqueued.
LEMMA Enqueued ==
    ASSUME ControlOK, RespondersOK, NEW r \in Requests, reply[r] = "unsent", Enqueue(r),
           UNCHANGED <<loopVars, fence_ledger>>, issued <= issued', r <= issued',
           \A c \in Clients : client'[c].at = "routed" =>
               client[c].at = "routed" /\ client'[c].req = client[c].req /\ client[c].req # r,
           issued' \in Nat
    PROVE  RespondersOK'
<1>1. /\ queue \in Seq(Requests) /\ fence_ledger.requests \subseteq Requests /\ issued \in Nat
      /\ reply \in [Requests -> Replies]
      /\ \A c \in Clients : client[c].at = "routed" => client[c].req \in Requests
  BY Zenon, CommandIds
<1>2. /\ Len(queue') = Len(queue) + 1 /\ Len(queue) \in Nat
      /\ \A i \in 1 .. Len(queue) : queue'[i] = queue[i] /\ queue[i] \in Requests
      /\ queue'[Len(queue) + 1] = r
  BY <1>1 DEF Enqueue
<1>3. /\ reply'[r] = "sent"
      /\ \A s \in Requests : s # r => reply'[s] = reply[s]
  BY Zenon, <1>1 DEF Enqueue
<1>4. /\ \A i \in 1 .. Len(queue) : queue[i] # r
      /\ r \notin fence_ledger.requests
      /\ Executing => cur # r
  BY Zenon DEF RespondersOK
<1>5. UNCHANGED <<pc, cur>>
  BY Zenon DEF loopVars
<1>6. \A i \in 1 .. Len(queue') : i \in 1 .. Len(queue) \/ (i = Len(queue) + 1 /\ queue'[i] = r)
  BY <1>2
<1>7. Executing' => Executing /\ cur \in Requests
  BY Zenon, <1>5, CurrentCommand DEF Executing, Busy
<1>8. /\ \A i \in 1 .. Len(queue') : reply'[queue'[i]] = "sent" /\ queue'[i] \notin fence_ledger'.requests
      /\ \A i, j \in 1 .. Len(queue') : queue'[i] = queue'[j] => i = j
  BY <1>2, <1>3, <1>4, <1>6 DEF RespondersOK
<1>9. Executing' => /\ reply'[cur'] = "sent"
                    /\ cur' \notin fence_ledger'.requests
                    /\ \A i \in 1 .. Len(queue') : queue'[i] # cur'
  BY Zenon, <1>2, <1>3, <1>4, <1>5, <1>6, <1>7 DEF RespondersOK
<1>10. \A s \in fence_ledger'.requests : reply'[s] = "sent"
  BY <1>1, <1>3 DEF RespondersOK
<1>11. \A s \in Requests : s > issued' => reply'[s] = "unsent"
  BY <1>1, <1>3 DEF RespondersOK, Requests
<1>12. /\ \A c \in Clients : client'[c].at = "routed" => reply'[client'[c].req] = "unsent"
       /\ \A c, d \in Clients : client'[c].at = "routed" /\ client'[d].at = "routed"
                              /\ client'[c].req = client'[d].req => c = d
  BY <1>1, <1>3 DEF RespondersOK
<1>13. Ended' => fence_ledger' = NoLedger
  BY Zenon, <1>5 DEF Ended, RespondersOK
<1> QED
  BY Zenon, <1>8, <1>9, <1>10, <1>11, <1>12, <1>13 DEF RespondersOK

\* The writer answers the command at hand, or the commands of the ledger, or
\* those a shutdown or a panic gives up.
LEMMA RespondersWriter ==
    ASSUME ControlOK, RespondersOK, WriterMoves
    PROVE  RespondersOK'
<1>1. /\ UNCHANGED <<client, issued>> /\ LoopTypeOK /\ NoLedger.requests = {}
      /\ fence_ledger.requests \subseteq Requests
  BY Zenon, WriterFrame DEF ControlOK, TypeOK, LedgerTypeOK, NoLedger
<1>2. ASSUME NEW delta, Settle(delta) \/ SettleSynced
      PROVE  ~Executing' /\ ~Ended'
  BY Zenon, <1>1, <1>2, Settled DEF Executing, Ended
<1>3. ASSUME Executing, ~Executing', ~Ended', NEW how, Answer({cur}, how), UNCHANGED queue,
             fence_ledger'.requests \subseteq fence_ledger.requests
      PROVE  RespondersOK'
  <2>1. \A r \in Requests : r \notin {cur} => reply'[r] = reply[r]
    BY Zenon, <1>3 DEF Answer
  <2> QED
    BY Zenon, <1>1, <1>3, <2>1, CurrentHeld, Released
<1>4. ASSUME Executing, ~Executing', fence_ledger' = NoLedger, UNCHANGED queue,
             \A r \in Requests : r \notin fence_ledger.requests \cup {cur} => reply'[r] = reply[r]
      PROVE  RespondersOK'
  <2>1. /\ \A r \in fence_ledger.requests \cup {cur} : reply[r] # "unsent"
        /\ \A i \in 1 .. Len(queue) : queue[i] \notin fence_ledger.requests \cup {cur}
    BY Zenon, <1>4, CurrentHeld DEF RespondersOK
  <2> QED
    BY Zenon, <1>1, <1>4, <2>1, Released
<1>5. CASE RefuseAppend \/ RotateFails \/ WriteFails \/ BroadcastAppend \/ CommitRefused
           \/ CancelRefused \/ DeferredSync
  <2>1. Executing /\ UNCHANGED <<queue, fence_ledger>>
    BY Zenon, <1>5 DEF RefuseAppend, RotateFails, WriteFails, BroadcastAppend, CommitRefused,
       CancelRefused, DeferredSync, Executing, Busy
  <2>2. \E delta : Settle(delta) \/ SettleSynced
    BY Zenon, <1>5 DEF RefuseAppend, RotateFails, WriteFails, BroadcastAppend, CommitRefused,
       CancelRefused, DeferredSync, FailAppend
  <2>3. \E how : Answer({cur}, how)
    BY Zenon, <1>5 DEF RefuseAppend, RotateFails, WriteFails, BroadcastAppend, CommitRefused,
       CancelRefused, DeferredSync, FailAppend
  <2> QED
    BY Zenon, <1>2, <1>3, <2>1, <2>2, <2>3
<1>6. CASE ExecuteBegin \/ DeferredBegin
  <2>1. Executing /\ UNCHANGED queue /\ \E delta : Settle(delta) \/ SettleSynced
    BY Zenon, <1>6 DEF ExecuteBegin, DeferredBegin, Executing, Busy
  <2>2. \E how : Answer({cur}, how)
    BY Zenon, <1>6 DEF ExecuteBegin, DeferredBegin, BeginLedger
  <2>3. fence_ledger'.requests \subseteq fence_ledger.requests
    BY Zenon, <1>6 DEF ExecuteBegin, DeferredBegin, BeginLedger, NoLedger
  <2> QED
    BY Zenon, <1>2, <1>3, <2>1, <2>2, <2>3
<1>7. CASE CommitFails \/ BroadcastFence \/ PersistCancel
  <2>1. /\ fence_ledger' = NoLedger /\ UNCHANGED queue
        /\ \E delta : Settle(delta) \/ SettleSynced
    BY Zenon, <1>7 DEF CommitFails, BroadcastFence, PersistCancel
  <2>2. Executing
    BY Zenon, <1>7 DEF CommitFails, BroadcastFence, PersistCancel, Executing, Busy
  <2>3. \A r \in Requests : r \notin fence_ledger.requests \cup {cur} => reply'[r] = reply[r]
    BY Zenon, <1>7 DEF CommitFails, BroadcastFence, PersistCancel, Answer
  <2> QED
    BY Zenon, <1>2, <1>4, <2>1, <2>2, <2>3
<1>8. CASE \/ StartAppend \/ AcceptItem \/ RotateSegment \/ WriteFrame \/ PublishAppend
           \/ CommitFence \/ CancelFence \/ SyncBarrier \/ EndDrain \/ PeriodicSync
           \/ StartShutdown \/ (SyncBatch /\ pc' = "index") \/ (IndexAppend /\ ~Fenced(cur))
  <2>1. UNCHANGED <<queue, fence_ledger>>
    BY Zenon, <1>8 DEF StartAppend, AcceptItem, RotateSegment, WriteFrame, PublishAppend, CommitFence,
       CancelFence, SyncBarrier, EndDrain, PeriodicSync, StartShutdown, SyncBatch, IndexAppend
  <2>2. (SyncBatch /\ pc' = "index") => UNCHANGED <<reply, cur>>
    BY Zenon, <1>1, Settled DEF SyncBatch, FailAppend
  <2>3. UNCHANGED <<reply, cur>>
    BY Zenon, <1>8, <2>2 DEF StartAppend, AcceptItem, RotateSegment, WriteFrame, PublishAppend,
       CommitFence, CancelFence, SyncBarrier, EndDrain, PeriodicSync, StartShutdown, IndexAppend
  <2>4. (Executing' => Executing) /\ (Ended' => Ended)
    BY Zenon, <1>8 DEF StartAppend, AcceptItem, RotateSegment, WriteFrame, PublishAppend, CommitFence,
       CancelFence, SyncBarrier, EndDrain, PeriodicSync, StartShutdown, SyncBatch, IndexAppend,
       Executing, Busy, Ended
  <2> QED
    BY Zenon, <1>1, <2>1, <2>3, <2>4, Unanswered
<1>9. CASE SyncBatch /\ pc' # "index"
  BY Zenon, <1>2, <1>3, <1>9 DEF SyncBatch, FailAppend, Executing, Busy
<1>10. CASE IndexAppend /\ Fenced(cur)
  <2>1. /\ fence_ledger'.requests = fence_ledger.requests \cup {cur}
        /\ UNCHANGED <<reply, queue>> /\ Executing /\ ~Executing' /\ ~Ended'
    BY Zenon, <1>2, <1>10 DEF IndexAppend, Executing, Busy, ControlOK, TypeOK, LedgerTypeOK
  <2>2. reply[cur] = "sent" /\ \A i \in 1 .. Len(queue) : queue[i] # cur
    BY Zenon, <2>1, CurrentHeld
  <2>3. /\ \A i \in 1 .. Len(queue) : queue[i] \notin fence_ledger'.requests
        /\ \A r \in fence_ledger'.requests : reply[r] = "sent"
    BY Zenon, <2>1, <2>2 DEF RespondersOK
  <2> DEFINE Rest == /\ \A i, j \in 1 .. Len(queue) : queue[i] = queue[j] => i = j
                     /\ \A i \in 1 .. Len(queue) : reply[queue[i]] = "sent"
                     /\ \A r \in Requests : r > issued => reply[r] = "unsent"
                     /\ \A c \in Clients : client[c].at = "routed" => reply[client[c].req] = "unsent"
                     /\ \A c, d \in Clients : client[c].at = "routed" /\ client[d].at = "routed"
                                               /\ client[c].req = client[d].req => c = d
  <2>4. Rest
    BY Zenon DEF RespondersOK
  <2>5. Rest'
    BY <1>1, <2>1, <2>4
  <2>6. /\ \A i \in 1 .. Len(queue') : queue'[i] \notin fence_ledger'.requests
        /\ \A r \in fence_ledger'.requests : reply'[r] = "sent"
    BY <2>1, <2>3
  <2> QED
    BY Zenon, <2>1, <2>5, <2>6 DEF RespondersOK
<1>11. CASE Receive
  <2>1. /\ queue # <<>> /\ queue' = Tail(queue) /\ cur' = Head(queue) /\ pc' = "execute"
        /\ UNCHANGED <<reply, fence_ledger>>
    BY Zenon, <1>11 DEF Receive, Take
  <2>2. /\ queue \in Seq(Requests) /\ Len(queue) \in Nat /\ Len(queue) > 0
        /\ Len(queue') = Len(queue) - 1 /\ cur' = queue[1]
        /\ \A i \in 1 .. Len(queue') : queue'[i] = queue[i + 1] /\ i + 1 \in 1 .. Len(queue)
    BY <2>1, CommandIds
  <2> QED
    BY <1>1, <2>1, <2>2 DEF RespondersOK, Ended
<1>12. CASE DeferredShutdown
  <2>1. /\ Executing /\ ~Executing' /\ queue' = <<>> /\ fence_ledger' = NoLedger
        /\ \A r \in Requests : r \notin Queued \cup fence_ledger.requests \cup {cur} =>
               reply'[r] = reply[r]
    BY Zenon, <1>12 DEF DeferredShutdown, Executing, Busy
  <2>2. \A r \in Queued \cup fence_ledger.requests \cup {cur} : reply[r] # "unsent"
    BY Zenon, <2>1, CurrentHeld DEF RespondersOK, Queued
  <2> QED
    BY Zenon, <1>1, <2>1, <2>2, Released
<1>13. CASE FinishShutdown
  <2>1. /\ fence_ledger = NoLedger /\ ~Executing' /\ queue' = <<>> /\ UNCHANGED fence_ledger
    BY Zenon, <1>13 DEF FinishShutdown, Executing, Busy, RespondersOK, Ended
  <2>2. \A r \in Requests : r \notin Queued \cup Draining => reply'[r] = reply[r]
    BY Zenon, <1>13 DEF FinishShutdown
  <2>3. \A r \in Queued \cup Draining : reply[r] # "unsent"
    BY Zenon DEF RespondersOK, Queued, Draining
  <2> QED
    BY Zenon, <1>1, <2>1, <2>2, <2>3, Released
<1>14. CASE AutoCancelFence
  <2>1. /\ ~Executing' /\ UNCHANGED queue /\ fence_ledger' = NoLedger
        /\ \A r \in Requests : r \notin fence_ledger.requests => reply'[r] = reply[r]
    BY Zenon, <1>14 DEF AutoCancelFence, Answer, Executing, Busy
  <2>2. /\ \A r \in fence_ledger.requests : reply[r] # "unsent"
        /\ \A i \in 1 .. Len(queue) : queue[i] \notin fence_ledger.requests
    BY Zenon DEF RespondersOK
  <2> QED
    BY Zenon, <1>1, <2>1, <2>2, Released
<1>15. CASE Panic
  <2>1. /\ ~Executing' /\ fence_ledger' = NoLedger
        /\ \/ UNCHANGED queue /\ Answer(Unwound, "dropped")
           \/ queue' = <<>> /\ Answer(Unwound \cup Queued, "dropped")
    BY Zenon, <1>15 DEF Panic, Executing, Busy
  <2>2. /\ \A r \in Unwound \cup Queued : reply[r] # "unsent"
        /\ \A i \in 1 .. Len(queue) : queue[i] \notin Unwound
    BY Zenon DEF RespondersOK, Unwound, Queued
  <2>3. CASE UNCHANGED queue /\ Answer(Unwound, "dropped")
    <3>1. \A r \in Requests : r \notin Unwound => reply'[r] = reply[r]
      BY Zenon, <2>3 DEF Answer
    <3> QED
      BY Zenon, <1>1, <2>1, <2>2, <2>3, <3>1, Released
  <2>4. CASE queue' = <<>> /\ Answer(Unwound \cup Queued, "dropped")
    <3>1. \A r \in Requests : r \notin Unwound \cup Queued => reply'[r] = reply[r]
      BY Zenon, <2>4 DEF Answer
    <3> QED
      BY Zenon, <1>1, <2>1, <2>2, <2>4, <3>1, Released
  <2> QED
    BY Zenon, <2>1, <2>3, <2>4
<1> QED
  BY Zenon, <1>5, <1>6, <1>7, <1>8, <1>9, <1>10, <1>11, <1>12, <1>13, <1>14, <1>15
     DEF WriterMoves, WriterStep, AppendStep, FenceStep, LoopStep

\* A new command is prepared and sent.
LEMMA RespondersIssue ==
    ASSUME ControlOK, RespondersOK, NEW command, PrepareAndEnqueue(command),
           UNCHANGED <<loopVars, fence_ledger>>,
           \A c \in Clients : client'[c].at = "routed" =>
               client[c].at = "routed" /\ client'[c].req = client[c].req
    PROVE  RespondersOK'
<1>1. /\ issued \in Nat /\ issued + 1 \in Requests /\ issued' = issued + 1 /\ Enqueue(issued + 1)
  BY CommandIds, WriterAssumption DEF PrepareAndEnqueue, Prepare, Requests
<1>2. reply[issued + 1] = "unsent"
  BY <1>1 DEF RespondersOK
<1>3. \A c \in Clients : client[c].req \in Nat /\ client[c].req <= issued
  BY Zenon DEF ControlOK, TypeOK, ControlTypeOK, ClientType, IssuedOK
<1>4. \A c \in Clients : client[c].req # issued + 1
  BY <1>1, <1>3
<1> QED
  BY <1>1, <1>2, <1>4, Enqueued

\* Only the issuing of commands concerns responders outside the writer.
LEMMA RespondersRest ==
    ASSUME RespondersOK, UNCHANGED <<reply, queue, fence_ledger, loopVars, issued>>,
           \A c \in Clients : client'[c].at = "routed" =>
               client[c].at = "routed" /\ client'[c].req = client[c].req
    PROVE  RespondersOK'
<1>1. UNCHANGED <<pc, cur>>
  BY Zenon DEF loopVars
<1> QED
  BY <1>1 DEF RespondersOK, Executing, Busy, Ended

\* Producers hand each responder over once.
LEMMA RespondersClient ==
    ASSUME ControlOK, RespondersOK, NEW c \in Clients, ClientStep(c)
    PROVE  RespondersOK'
<1>1. /\ client \in [Clients -> ClientType] /\ Idle.at = "idle"
      /\ \A d \in Clients : client[d].req \in Nat /\ client[d].req <= issued
  BY Zenon DEF ControlOK, TypeOK, ControlTypeOK, ClientType, IssuedOK, Idle
<1>2. CASE Route(c)
  <2>1. /\ issued' = issued + 1 /\ UNCHANGED <<reply, queue, fence_ledger, loopVars>>
        /\ client' = [client EXCEPT ![c].at = "routed", ![c].req = issued + 1]
        /\ issued < MaxRequests
    BY Zenon, <1>2 DEF Route, Prepare, WriterAside
  <2>2. /\ client'[c].req = issued + 1
        /\ \A d \in Clients : d # c => client'[d] = client[d]
    BY Zenon, <1>1, <2>1 DEF ClientType
  <2>3. issued + 1 \in Requests /\ reply[issued + 1] = "unsent"
    BY <2>1, CommandIds, WriterAssumption DEF Requests, RespondersOK
  <2>4. UNCHANGED <<pc, cur>>
    BY Zenon, <2>1 DEF loopVars
  <2>5. \A d \in Clients : client[d].req # issued + 1
    BY <1>1, CommandIds
  <2>6. \A r \in Requests : r > issued' => reply'[r] = "unsent"
    BY <2>1, CommandIds DEF RespondersOK, Requests
  <2>7. /\ \A d \in Clients : client[d].at = "routed" => reply[client[d].req] = "unsent"
        /\ \A d, e \in Clients : client[d].at = "routed" /\ client[e].at = "routed"
                              /\ client[d].req = client[e].req => d = e
    BY Zenon DEF RespondersOK
  <2>8. \A d \in Clients : client'[d].at = "routed" => reply'[client'[d].req] = "unsent"
    BY Zenon, <2>1, <2>2, <2>3, <2>7
  <2>9. \A d, e \in Clients : client'[d].at = "routed" /\ client'[e].at = "routed"
                              /\ client'[d].req = client'[e].req => d = e
    BY <2>2, <2>5, <2>7
  <2>10. Executing' = Executing /\ Ended' = Ended
    BY Zenon, <2>4 DEF Executing, Busy, Ended
  <2>11. UNCHANGED <<reply, queue, fence_ledger, cur>>
    BY Zenon, <2>1, <2>4
  <2>12. /\ \A i \in 1 .. Len(queue) : reply'[queue'[i]] = "sent" /\ queue'[i] \notin fence_ledger'.requests
         /\ \A i, j \in 1 .. Len(queue) : queue'[i] = queue'[j] => i = j
         /\ Executing' => /\ reply'[cur'] = "sent"
                          /\ cur' \notin fence_ledger'.requests
                          /\ \A i \in 1 .. Len(queue) : queue'[i] # cur'
         /\ \A r \in fence_ledger'.requests : reply'[r] = "sent"
         /\ Ended' => fence_ledger' = NoLedger
    BY Zenon, <2>10, <2>11 DEF RespondersOK
  <2> QED
    BY Zenon, <2>6, <2>8, <2>9, <2>11, <2>12 DEF RespondersOK
<1>3. CASE Send(c)
  <2>1. /\ client[c].at = "routed" /\ Enqueue(client[c].req)
        /\ client' = [client EXCEPT ![c].at = AfterSend(c)]
        /\ UNCHANGED <<loopVars, fence_ledger, issued>>
    BY Zenon, <1>3 DEF Send, Move, WriterAside
  <2>2. /\ client'[c].at # "routed"
        /\ \A d \in Clients : d # c => client'[d] = client[d]
    BY Zenon, <1>1, <2>1 DEF AfterSend, ClientType
  <2>3. client[c].req \in Requests /\ reply[client[c].req] = "unsent"
    BY Zenon, <2>1, CommandIds DEF RespondersOK
  <2>4. \A d \in Clients : client'[d].at = "routed" =>
            client[d].at = "routed" /\ client'[d].req = client[d].req /\ client[d].req # client[c].req
    BY <2>1, <2>2 DEF RespondersOK
  <2>5. issued' \in Nat /\ issued <= issued' /\ client[c].req <= issued'
    BY <1>1, <2>1, CommandIds
  <2> QED
    BY Zenon, <2>1, <2>3, <2>4, <2>5, Enqueued
<1>4. CASE SendFails(c)
  <2>1. /\ client[c].at = "routed" /\ reply' = [reply EXCEPT ![client[c].req] = "error"]
        /\ client' = [client EXCEPT ![c].at = AfterSend(c)]
        /\ UNCHANGED <<loopVars, queue, fence_ledger, issued>>
    BY Zenon, <1>4 DEF SendFails, Move, WriterAside
  <2>2. /\ client'[c].at # "routed"
        /\ \A d \in Clients : d # c => client'[d] = client[d]
    BY Zenon, <1>1, <2>1 DEF AfterSend, ClientType
  <2>3. /\ client[c].req \in Requests /\ reply[client[c].req] = "unsent"
        /\ \A r \in Requests : r # client[c].req => reply'[r] = reply[r]
    BY Zenon, <2>1, CommandIds DEF RespondersOK
  <2>4. \A d \in Clients : client'[d].at = "routed" =>
            client[d].at = "routed" /\ client'[d].req = client[d].req /\ client[d].req # client[c].req
    BY <2>1, <2>2 DEF RespondersOK
  <2>5. UNCHANGED <<pc, cur>> /\ (Executing => cur \in Requests)
    BY Zenon, <2>1, CurrentCommand DEF loopVars, Executing
  <2>6. \A i \in 1 .. Len(queue) : queue[i] \in Requests
    BY CommandIds
  <2>7. client[c].req <= issued /\ issued \in Nat
    BY Zenon, <1>1, CommandIds
  <2>8. \A r \in Requests : r > issued => r # client[c].req
    BY <2>7 DEF Requests
  <2> QED
    BY <2>1, <2>3, <2>4, <2>5, <2>6, <2>8, CommandIds DEF RespondersOK, Executing, Busy, Ended
<1>5. CASE SubmitSync(c)
  <2>1. UNCHANGED <<client, loopVars, fence_ledger>> /\ \E command : PrepareAndEnqueue(command)
    BY Zenon, <1>5 DEF SubmitSync, WriterAside
  <2> QED
    BY Zenon, <2>1, RespondersIssue
<1>6. ASSUME NEW new, client' = [client EXCEPT ![c] = new], new.at # "routed"
      PROVE  \A d \in Clients : client'[d].at = "routed" =>
                 client[d].at = "routed" /\ client'[d].req = client[d].req
  BY Zenon, <1>1, <1>6
<1>7. CASE BeginFence(c)
  <2>1. UNCHANGED <<reply, queue, fence_ledger, loopVars, issued>>
    BY Zenon, <1>7 DEF BeginFence, WriterAside
  <2>2. \/ UNCHANGED client
        \/ client' = [client EXCEPT ![c].at = "begun", ![c].token = next_fence_token]
    BY Zenon, <1>7 DEF BeginFence
  <2>3. \A d \in Clients : client'[d].at = "routed" =>
            client[d].at = "routed" /\ client'[d].req = client[d].req
    BY Zenon, <1>1, <2>2 DEF ClientType
  <2> QED
    BY Zenon, <2>1, <2>3, RespondersRest
<1>8. CASE SendBegin(c) \/ FinishFence(c)
  <2>1. /\ UNCHANGED <<loopVars, fence_ledger>> /\ \E command : PrepareAndEnqueue(command)
        /\ \E at \in {"beginning", "finishing"} :
               client' = [client EXCEPT ![c].at = at, ![c].req = issued + 1]
    BY Zenon, <1>8 DEF SendBegin, FinishFence, WriterAside
  <2>2. \A d \in Clients : client'[d].at = "routed" =>
            client[d].at = "routed" /\ client'[d].req = client[d].req
    BY Zenon, <1>1, <2>1 DEF ClientType
  <2> QED
    BY Zenon, <2>1, <2>2, RespondersIssue
<1>9. CASE SendBeginFails(c) \/ AwaitBegin(c) \/ AwaitFinish(c)
  <2>1. UNCHANGED <<reply, queue, fence_ledger, loopVars, issued>>
    BY Zenon, <1>9 DEF SendBeginFails, AwaitBegin, AwaitFinish, WriterAside
  <2>2. \E new : new.at # "routed" /\ client' = [client EXCEPT ![c] = new]
    <3>1. CASE SendBeginFails(c) \/ AwaitFinish(c)
      BY Zenon, <1>1, <3>1 DEF SendBeginFails, AwaitFinish
    <3>2. CASE AwaitBegin(c)
      <4> DEFINE new == IF reply[client[c].req] = "ok" THEN [client[c] EXCEPT !.at = "fenced"]
                        ELSE Idle
      <4>1. new.at # "routed"
        BY Zenon, <1>1 DEF ClientType
      <4>2. client' = [client EXCEPT ![c] = new]
        BY Zenon, <3>2 DEF AwaitBegin
      <4> QED
        BY Zenon, <4>1, <4>2
    <3> QED
      BY Zenon, <1>9, <3>1, <3>2
  <2> QED
    BY Zenon, <1>6, <2>1, <2>2, RespondersRest
<1>10. CASE DropFence(c)
  <2>1. /\ UNCHANGED <<loopVars, fence_ledger>> /\ client' = [client EXCEPT ![c] = Idle]
        /\ \/ \E command : PrepareAndEnqueue(command)
           \/ UNCHANGED <<reply, queue, issued>>
    BY Zenon, <1>10 DEF DropFence, WriterAside
  <2>2. \A d \in Clients : client'[d].at = "routed" =>
            client[d].at = "routed" /\ client'[d].req = client[d].req
    BY Zenon, <1>1, <1>6, <2>1
  <2> QED
    BY Zenon, <2>1, <2>2, RespondersIssue, RespondersRest
<1> QED
  BY Zenon, <1>2, <1>3, <1>4, <1>5, <1>7, <1>8, <1>9, <1>10 DEF ClientStep

\* RespondersOK is inductive.
LEMMA RespondersStep ==
    ASSUME ControlOK, RespondersOK, [Next]_vars
    PROVE  RespondersOK'
<1>1. CASE CloseEvent \/ SendShutdown
  <2>1. UNCHANGED <<client, loopVars, fence_ledger>> /\ \E command : PrepareAndEnqueue(command)
    BY Zenon, <1>1 DEF CloseEvent, SendShutdown, WriterAside
  <2> QED
    BY Zenon, <2>1, RespondersIssue
<1>2. CASE HelperSend
  <2>1. /\ UNCHANGED <<client, loopVars, fence_ledger>>
        /\ \/ \E command : PrepareAndEnqueue(command)
           \/ UNCHANGED <<reply, queue, issued>>
    BY Zenon, <1>2 DEF HelperSend, WriterAside
  <2> QED
    BY Zenon, <2>1, RespondersIssue, RespondersRest
<1>3. CASE UNCHANGED vars
  BY Zenon, <1>3, RespondersRest DEF vars, writerVars, controlVars
<1> QED
  BY Zenon, <1>1, <1>2, <1>3, RespondersWriter, RespondersClient DEF Next


-----------------------------------------------------------------------------
(* Fence tokens.                                                           *)

\* A command that was answered is never pending again.
LEMMA PendingStep ==
    ASSUME ControlOK, RespondersOK, [Next]_vars
    PROVE  \A r \in Requests : Pending(r)' => Pending(r)
<1>1. reply \in [Requests -> Replies] /\ issued \in Nat
  BY Zenon, CommandIds
<1>2. ASSUME NEW rs, NEW how, how \notin {"unsent", "sent"}, Answer(rs, how)
      PROVE  \A r \in Requests : Pending(r)' => Pending(r)
  BY Zenon, <1>2 DEF Answer, Pending
<1>3. ASSUME NEW s \in Requests, reply[s] = "unsent", Enqueue(s)
      PROVE  \A r \in Requests : Pending(r)' => Pending(r)
  BY Zenon, <1>1, <1>3 DEF Enqueue, Pending
<1>4. ASSUME NEW command, PrepareAndEnqueue(command)
      PROVE  \A r \in Requests : Pending(r)' => Pending(r)
  <2>1. issued + 1 \in Requests /\ Enqueue(issued + 1)
    BY <1>1, <1>4, WriterAssumption DEF PrepareAndEnqueue, Prepare, Requests
  <2>2. reply[issued + 1] = "unsent"
    BY <1>1, <2>1 DEF RespondersOK
  <2> QED
    BY Zenon, <1>3, <2>1, <2>2
<1>5. CASE UNCHANGED reply
  BY Zenon, <1>5 DEF Pending
<1>6. CASE AppendStep
  BY Zenon, <1>2, <1>5, <1>6 DEF AppendStep, StartAppend, RefuseAppend, AcceptItem, RotateSegment,
     RotateFails, WriteFrame, WriteFails, SyncBatch, IndexAppend, PublishAppend, BroadcastAppend,
     FailAppend
<1>7. CASE ExecuteBegin \/ DeferredBegin \/ CommitRefused \/ CommitFence \/ BroadcastFence
           \/ CancelRefused \/ CancelFence
  <2> DEFINE Answers(rs) == Answer(rs, "ok") \/ Answer(rs, "error")
  <2>1. UNCHANGED reply \/ Answers({cur}) \/ Answers(fence_ledger.requests \cup {cur})
    BY Zenon, <1>7 DEF ExecuteBegin, DeferredBegin, CommitRefused, CommitFence, BroadcastFence,
       CancelRefused, CancelFence, BeginLedger
  <2>2. ASSUME NEW rs, Answers(rs)
        PROVE  \A r \in Requests : Pending(r)' => Pending(r)
    BY <1>2, <2>2
  <2> HIDE DEF Answers
  <2> QED
    BY Zenon, <1>5, <2>1, <2>2
<1>8. CASE CommitFails \/ PersistCancel
  BY Zenon, <1>8 DEF CommitFails, PersistCancel, Pending
<1>9. CASE Receive \/ EndDrain \/ PeriodicSync \/ SyncBarrier \/ DeferredSync \/ StartShutdown
           \/ AutoCancelFence
  BY Zenon, <1>2, <1>5, <1>9 DEF Receive, EndDrain, PeriodicSync, SyncBarrier, DeferredSync,
     StartShutdown, AutoCancelFence
<1>10. CASE DeferredShutdown \/ FinishShutdown
  BY Zenon, <1>10 DEF DeferredShutdown, FinishShutdown, Pending
<1>11. CASE Panic
  BY Zenon, <1>2, <1>11 DEF Panic
<1>12. ASSUME NEW c \in Clients, ClientStep(c)
       PROVE  \A r \in Requests : Pending(r)' => Pending(r)
  <2>1. CASE Send(c)
    BY Zenon, <1>3, <2>1, CommandIds DEF Send, RespondersOK
  <2>2. CASE SendFails(c)
    BY Zenon, <1>1, <2>2, CommandIds DEF SendFails, Pending
  <2>3. CASE Route(c) \/ SubmitSync(c) \/ BeginFence(c) \/ SendBegin(c)
             \/ SendBeginFails(c) \/ AwaitBegin(c) \/ FinishFence(c) \/ AwaitFinish(c) \/ DropFence(c)
    BY Zenon, <1>4, <1>5, <2>3 DEF Route, SubmitSync, BeginFence, SendBegin, SendBeginFails, AwaitBegin,
       FinishFence, AwaitFinish, DropFence
  <2> QED
    BY Zenon, <1>12, <2>1, <2>2, <2>3 DEF ClientStep
<1>13. CASE HelperSend \/ CloseEvent \/ SendShutdown \/ UNCHANGED vars
  BY Zenon, <1>4, <1>5, <1>13 DEF HelperSend, CloseEvent, SendShutdown, vars, writerVars
<1> QED
  BY Zenon, <1>6, <1>7, <1>8, <1>9, <1>10, <1>11, <1>12, <1>13
     DEF Next, WriterMoves, WriterStep, FenceStep, LoopStep

\* Steps that begin no fence and stage nothing under one.
LEMMA TokensQuiet ==
    ASSUME ControlOK, TokensOK,
           \A r \in Begins' : r \in Begins /\ request'[r].token = request[r].token,
           \A r \in Requests : Pending(r)' => Pending(r),
           \A d \in Clients : /\ client'[d].token \in {client[d].token, 0}
                              /\ client'[d].at = "begun" =>
                                     client[d].at = "begun" /\ client'[d].token = client[d].token,
           UNCHANGED next_fence_token, fence_ledger'.token \in {fence_ledger.token, 0},
           \/ UNCHANGED <<active_fence, active_fence_start>>
           \/ active_fence' = 0 /\ active_fence_start' = Unset
    PROVE  TokensOK'
<1>1. 0 < next_fence_token
  BY DEF ControlOK, TypeOK, GateTypeOK
<1>2. \A t : Fresh(t) => Fresh(t)'
  BY Zenon DEF Fresh
<1>3. Begins \subseteq Requests
  BY Zenon DEF Begins
<1> QED
  BY <1>1, <1>2, <1>3 DEF TokensOK

\* The steps of the writer that change the gate.
LEMMA WriterGateFrame ==
    ASSUME ControlOK, [Next]_vars, WriterMoves
    PROVE  \/ UNCHANGED gateVars
           \/ StartAppend \/ IndexAppend \/ PublishAppend \/ CommitFence
           \/ CancelFence \/ AutoCancelFence \/ Panic
<1>1. /\ UNCHANGED <<client, budget>> /\ budget \in Nat /\ client \in [Clients -> ClientType]
  BY Zenon DEF WriterMoves, controlVars, ControlOK, TypeOK, ControlTypeOK
<1>2. ASSUME NEW c \in Clients, BeginFence(c)
      PROVE  FALSE
  BY <1>1, <1>2 DEF BeginFence, Charge
<1>3. ASSUME NEW c \in Clients, SendBeginFails(c)
      PROVE  FALSE
  <2>1. client[c].at = "begun" /\ client' = [client EXCEPT ![c] = Idle]
    BY Zenon, <1>3 DEF SendBeginFails
  <2> QED
    BY <1>1, <2>1 DEF Idle
<1> QED
  BY Zenon, <1>2, <1>3, GateFrame

\* The writer opens the ledger of a fence that is begun, once.
LEMMA TokensWriter ==
    ASSUME ControlOK, RespondersOK, TokensOK, [Next]_vars, WriterMoves
    PROVE  TokensOK'
<1>1. /\ UNCHANGED <<request, client>> /\ NoLedger.token = 0
      /\ Begins' = Begins /\ Begins \subseteq Requests
      /\ \A r \in Requests : Pending(r)' => Pending(r)
  BY Zenon, WriterFrame, PendingStep DEF Begins, NoLedger
<1>2. UNCHANGED next_fence_token
  BY Zenon, WriterGateFrame DEF gateVars, StartAppend, IndexAppend, PublishAppend, CommitFence,
     CancelFence, AutoCancelFence, Panic
<1>3. ASSUME fence_ledger'.token \in {fence_ledger.token, 0},
             \/ UNCHANGED <<active_fence, active_fence_start>>
             \/ active_fence' = 0 /\ active_fence_start' = Unset
      PROVE  TokensOK'
  BY Zenon, <1>1, <1>2, <1>3, TokensQuiet
<1>4. CASE ExecuteBegin \/ DeferredBegin
  <2>1. UNCHANGED <<active_fence, active_fence_start>>
    BY Zenon, <1>4 DEF ExecuteBegin, DeferredBegin, gateVars
  <2>2. CASE UNCHANGED fence_ledger
    BY Zenon, <1>3, <2>1, <2>2
  <2>3. CASE ~UNCHANGED fence_ledger
    <3>1. /\ cur \in Begins /\ active_fence = request[cur].token
          /\ fence_ledger'.token = request[cur].token /\ reply'[cur] = "ok"
      <4>1. cur \in Begins
        BY Zenon, <1>4, CurrentCommand DEF ExecuteBegin, DeferredBegin, Busy, Begins
      <4>2. /\ active_fence = request[cur].token
            /\ fence_ledger' = [NoLedger EXCEPT !.token = request[cur].token]
            /\ Answer({cur}, "ok")
        BY Zenon, <1>4, <2>3 DEF ExecuteBegin, DeferredBegin, BeginLedger
      <4>3. fence_ledger'.token = request[cur].token
        BY Zenon, <4>2 DEF NoLedger
      <4>4. reply'[cur] = "ok"
        BY Zenon, <1>1, <4>1, <4>2 DEF Answer
      <4> QED
        BY Zenon, <4>1, <4>2, <4>3, <4>4
    <3>2. \A r \in Begins : Pending(r)' => Fresh(request[r].token)'
      BY Zenon, <1>1, <2>1, <3>1 DEF TokensOK, Fresh, Pending
    <3>3. \A c \in Clients : client[c].at = "begun" => Fresh(client[c].token)'
      BY Zenon, <1>1, <2>1, <3>1 DEF TokensOK, Fresh
    <3> QED
      BY Zenon, <1>1, <1>2, <2>1, <3>1, <3>2, <3>3 DEF TokensOK
  <2> QED
    BY Zenon, <2>2, <2>3
<1>5. CASE IndexAppend
  <2>1. CASE Fenced(cur)
    <3>1. /\ UNCHANGED active_fence /\ active_fence = fence_ledger.token
          /\ fence_ledger'.token = fence_ledger.token
      BY Zenon, <1>5, <2>1 DEF IndexAppend, note_fence_progress, ControlOK, TypeOK, LedgerTypeOK
    <3>2. \A t : Fresh(t) => Fresh(t)'
      BY Zenon, <3>1 DEF Fresh
    <3> QED
      BY Zenon, <1>1, <1>2, <3>1, <3>2 DEF TokensOK
  <2>2. CASE ~Fenced(cur)
    BY Zenon, <1>3, <1>5, <2>2 DEF IndexAppend, fenceVars
  <2> QED
    BY Zenon, <2>1, <2>2
<1>6. CASE ~IndexAppend /\ ~ExecuteBegin /\ ~DeferredBegin
  <2>1. fence_ledger'.token \in {fence_ledger.token, 0}
    BY Zenon, <1>1, <1>6, LedgerFrame DEF CommitFails, BroadcastFence, PersistCancel, DeferredShutdown,
       AutoCancelFence, Panic
  <2>2. \/ UNCHANGED <<active_fence, active_fence_start>>
        \/ active_fence' = 0 /\ active_fence_start' = Unset
    BY Zenon, <1>6, WriterGateFrame DEF gateVars, fenceVars, StartAppend, PublishAppend, CommitFence,
       CancelFence, AutoCancelFence, Panic, finish_fence_on_lanes, CancelInIndex, cancel_fence,
       CloseFence
  <2> QED
    BY Zenon, <1>3, <2>1, <2>2
<1> QED
  BY Zenon, <1>4, <1>5, <1>6

\* A command other than a begin adds no begin.
LEMMA OtherCommand ==
    ASSUME ControlOK, NEW command, Prepare(command), command.op # "BeginVisibilityFence"
    PROVE  \A r \in Begins' : r \in Begins /\ request'[r].token = request[r].token
<1>1. /\ request' = [request EXCEPT ![issued + 1] = command]
      /\ request \in [Requests -> Command \cup {NoRequest}] /\ issued + 1 \in Requests
  BY CommandIds, WriterAssumption
     DEF Prepare, ControlOK, TypeOK, CommandTypeOK, Requests
<1> QED
  BY Zenon, <1>1 DEF Begins

\* Producers draw a token and send its begin command.
LEMMA TokensClient ==
    ASSUME ControlOK, RespondersOK, TokensOK, [Next]_vars, NEW c \in Clients, ClientStep(c)
    PROVE  TokensOK'
<1>1. /\ client \in [Clients -> ClientType] /\ Idle.at = "idle" /\ Idle.token = 0
      /\ UNCHANGED fence_ledger /\ Begins \subseteq Requests
      /\ \A r \in Requests : Pending(r)' => Pending(r)
      /\ next_fence_token \in Nat \ {0}
  BY Zenon, PendingStep DEF ControlOK, TypeOK, ControlTypeOK, GateTypeOK, Idle, Begins, ClientStep, Route,
     Send, SendFails, SubmitSync, BeginFence, SendBegin, SendBeginFails, AwaitBegin, FinishFence,
     AwaitFinish, DropFence, WriterAside
<1>2. CASE BeginFence(c)
  <2>1. UNCHANGED request /\ Begins' = Begins
    BY Zenon, <1>2 DEF BeginFence, Begins
  <2>2. CASE begin_fence
    <3>1. /\ active_fence' = next_fence_token /\ active_fence_start' = Unset
          /\ next_fence_token' = next_fence_token + 1
          /\ client' = [client EXCEPT ![c].at = "begun", ![c].token = next_fence_token]
      BY Zenon, <1>2, <2>2 DEF BeginFence, begin_fence, begin_fence_refused
    <3>2. /\ client'[c].token = next_fence_token
          /\ \A d \in Clients : d # c => client'[d] = client[d]
      BY Zenon, <1>1, <3>1 DEF ClientType
    <3>3. \A d \in Clients : client[d].at = "begun" /\ d # c => Fresh(client[d].token)'
      BY Zenon, <1>1, <3>1, <3>2 DEF Fresh, TokensOK
    <3>4. /\ Fresh(client[c].token)'
          /\ \A r \in Begins : Pending(r)' => Fresh(request[r].token)'
      BY <1>1, <2>1, <3>1, <3>2 DEF Fresh, TokensOK
    <3>5. /\ \A d \in Clients : client[d].token \in Nat /\ client[d].token < next_fence_token
          /\ \A r \in Begins : request[r].token < next_fence_token
      BY Zenon, <1>1 DEF TokensOK, ClientType
    <3>6. \A n : n < next_fence_token => n # next_fence_token
      BY <1>1
    <3>7. \A r \in Begins : request[r].token < next_fence_token + 1
      <4>1. \A r \in Begins : request[r].token \in Nat
        BY <1>1 DEF Begins, ControlOK, TypeOK, CommandTypeOK, Command, NoRequest
      <4> QED
        BY <1>1, <3>5, <4>1
    <3>8. fence_ledger.token < next_fence_token + 1
      BY <1>1 DEF TokensOK, ControlOK, TypeOK, LedgerTypeOK
    <3>9. \A d \in Clients : client'[d].token < next_fence_token + 1
      BY <1>1, <3>2, <3>5
    <3>10. \A d, e \in Clients : client'[d].at = "begun" /\ client'[e].at = "begun"
                              /\ client'[d].token = client'[e].token => d = e
      BY <3>2, <3>5, <3>6 DEF TokensOK
    <3>11. \A d \in Clients : client'[d].at = "begun" =>
               /\ Fresh(client[d].token)'
               /\ \A r \in Begins : request[r].token # client'[d].token
      BY Zenon, <3>2, <3>3, <3>4, <3>5, <3>6 DEF TokensOK
    <3> QED
      BY <1>1, <2>1, <3>1, <3>4, <3>7, <3>8, <3>9, <3>10, <3>11 DEF TokensOK
  <2>3. CASE begin_fence_refused
    <3>1. /\ UNCHANGED <<client, active_fence, active_fence_start>>
          /\ next_fence_token' = next_fence_token + 1
      BY Zenon, <1>2, <2>3 DEF BeginFence, begin_fence, begin_fence_refused, fenceVars
    <3>2. \A t : Fresh(t) => Fresh(t)'
      BY Zenon, <1>1, <3>1 DEF Fresh
    <3>3. /\ active_fence < next_fence_token + 1
          /\ fence_ledger.token < next_fence_token + 1
      <4>1. active_fence \in Nat /\ fence_ledger.token \in Nat /\ next_fence_token \in Nat
        BY Zenon, <1>1 DEF ControlOK, TypeOK, LedgerTypeOK, GateTypeOK
      <4> QED
        BY Zenon, <4>1, BelowNext DEF TokensOK
    <3>4. \A d \in Clients : client[d].token < next_fence_token + 1
      BY <1>1 DEF TokensOK, ClientType
    <3>5. \A r \in Begins : request[r].token < next_fence_token + 1
      <4>1. \A r \in Begins : request[r].token \in Nat
        BY <1>1 DEF Begins, ControlOK, TypeOK, CommandTypeOK, Command, NoRequest
      <4> QED
        BY <1>1, <4>1 DEF TokensOK
    <3> QED
      BY Zenon, <1>1, <2>1, <3>1, <3>2, <3>3, <3>4, <3>5 DEF TokensOK
  <2> QED
    BY Zenon, <1>2, <2>2, <2>3 DEF BeginFence
<1>3. CASE SendBegin(c)
  <2>1. /\ client[c].at = "begun" /\ UNCHANGED <<active_fence, active_fence_start, next_fence_token>>
        /\ client' = [client EXCEPT ![c].at = "beginning", ![c].req = issued + 1]
        /\ Prepare([op |-> "BeginVisibilityFence", token |-> client[c].token, lanes |-> <<>>])
    BY Zenon, <1>3 DEF SendBegin, PrepareAndEnqueue, gateVars
  <2>2. /\ client'[c].at # "begun" /\ client'[c].token = client[c].token
        /\ \A d \in Clients : d # c => client'[d] = client[d]
    BY Zenon, <1>1, <2>1 DEF ClientType
  <2>3. /\ issued + 1 \in Requests
        /\ request'[issued + 1].token = client[c].token
        /\ \A r \in Begins' : r # issued + 1 => r \in Begins /\ request'[r] = request[r]
    <3>1. /\ request \in [Requests -> Command \cup {NoRequest}] /\ issued + 1 \in Requests
      BY <2>1, CommandIds, WriterAssumption
         DEF Prepare, ControlOK, TypeOK, CommandTypeOK, Requests
    <3> QED
      BY Zenon, <2>1, <3>1 DEF Prepare, Begins
  <2>5. Begins' \subseteq Requests
    BY Zenon DEF Begins
  <2>6. /\ Fresh(client[c].token) /\ \A r \in Begins : request[r].token # client[c].token
        /\ client[c].token < next_fence_token
    BY Zenon, <2>1 DEF TokensOK
  <2>7. \A r \in Begins' : request'[r].token < next_fence_token
    BY Zenon, <2>3, <2>6 DEF TokensOK
  <2>8. \A r, s \in Begins' : request'[r].token = request'[s].token => r = s
    BY <2>3, <2>6 DEF TokensOK
  <2>9. \A d, e \in Clients : client'[d].at = "begun" /\ client'[e].at = "begun"
                              /\ client'[d].token = client'[e].token => d = e
    <3>1. \A d \in Clients : client'[d].at = "begun" =>
              client[d].at = "begun" /\ client'[d].token = client[d].token
      BY Zenon, <2>2
    <3>2. \A d, e \in Clients : client[d].at = "begun" /\ client[e].at = "begun"
                                 /\ client[d].token = client[e].token => d = e
      BY Zenon DEF TokensOK
    <3> QED
      BY <3>1, <3>2
  <2>10. \A d \in Clients : client'[d].at = "begun" =>
             /\ Fresh(client[d].token)'
             /\ \A r \in Begins' : request'[r].token # client'[d].token
    BY <1>1, <2>1, <2>2, <2>3 DEF TokensOK, Fresh
  <2>11. \A r \in Begins' : Pending(r)' => Fresh(request[r].token)'
    BY Zenon, <1>1, <2>1, <2>3, <2>5, <2>6 DEF TokensOK, Fresh
  <2>12. \A d \in Clients : client'[d].token < next_fence_token
    BY Zenon, <2>2 DEF TokensOK
  <2> QED
    BY <1>1, <2>1, <2>7, <2>8, <2>9, <2>10, <2>11, <2>12 DEF TokensOK
<1>4. CASE ~BeginFence(c) /\ ~SendBegin(c)
  <2>1. \A r \in Begins' : r \in Begins /\ request'[r].token = request[r].token
    <3>1. CASE UNCHANGED request
      BY Zenon, <3>1 DEF Begins
    <3>2. CASE \E command : Prepare(command) /\ command.op # "BeginVisibilityFence"
      BY Zenon, <3>2, OtherCommand
    <3>3. Route(c) => \E command : Prepare(command) /\ command.op # "BeginVisibilityFence"
      BY DEF Route, Submissions
    <3>4. FinishFence(c) => \E command : Prepare(command) /\ command.op # "BeginVisibilityFence"
      BY DEF FinishFence, PrepareAndEnqueue
    <3>5. \/ UNCHANGED request
          \/ \E command : Prepare(command) /\ command.op # "BeginVisibilityFence"
      <4>1. SubmitSync(c) => \E command : Prepare(command) /\ command.op # "BeginVisibilityFence"
        BY DEF SubmitSync, PrepareAndEnqueue
      <4>2. Send(c) \/ SendFails(c) \/ SendBeginFails(c) \/ AwaitBegin(c) \/ AwaitFinish(c) =>
                UNCHANGED request
        BY Zenon DEF Send, SendFails, SendBeginFails, AwaitBegin, AwaitFinish
      <4>3. DropFence(c) => \/ UNCHANGED request
                            \/ \E command : Prepare(command) /\ command.op # "BeginVisibilityFence"
        BY DEF DropFence, PrepareAndEnqueue, CancelCommand
      <4> QED
        BY Zenon, <1>4, <3>3, <3>4, <4>1, <4>2, <4>3 DEF ClientStep
    <3> QED
      BY Zenon, <3>1, <3>2, <3>5
  <2>2. \A d \in Clients : /\ client'[d].token \in {client[d].token, 0}
                           /\ client'[d].at = "begun" =>
                                  client[d].at = "begun" /\ client'[d].token = client[d].token
    <3>1. CASE Route(c) \/ Send(c) \/ SendFails(c) \/ FinishFence(c)
      <4>1. \E at \in {"routed", "idle", "fenced", "finishing"} : \E req :
                \/ client' = [client EXCEPT ![c].at = at, ![c].req = req]
                \/ client' = [client EXCEPT ![c].at = at]
        BY Zenon, <3>1 DEF Route, Send, SendFails, FinishFence, Move, AfterSend
      <4> QED
        BY <1>1, <4>1 DEF ClientType
    <3>2. CASE SubmitSync(c)
      BY Zenon, <3>2 DEF SubmitSync
    <3>3. CASE AwaitBegin(c)
      <4> DEFINE new == IF reply[client[c].req] = "ok" THEN [client[c] EXCEPT !.at = "fenced"]
                        ELSE Idle
      <4>1. new.at # "begun" /\ new.token \in {client[c].token, 0}
        BY Zenon, <1>1 DEF ClientType
      <4>2. client' = [client EXCEPT ![c] = new]
        BY Zenon, <3>3 DEF AwaitBegin
      <4> HIDE DEF new
      <4> QED
        BY Zenon, <1>1, <4>1, <4>2
    <3>4. CASE SendBeginFails(c) \/ AwaitFinish(c) \/ DropFence(c)
      <4>1. client' = [client EXCEPT ![c] = Idle]
        BY Zenon, <3>4 DEF SendBeginFails, AwaitFinish, DropFence
      <4> QED
        BY Zenon, <1>1, <4>1
    <3> QED
      BY Zenon, <1>4, <3>1, <3>2, <3>3, <3>4 DEF ClientStep
  <2>3. /\ UNCHANGED next_fence_token
        /\ \/ UNCHANGED <<active_fence, active_fence_start>>
           \/ active_fence' = 0 /\ active_fence_start' = Unset
    BY Zenon, <1>4 DEF ClientStep, Route, Send, SendFails, SubmitSync, SendBeginFails, AwaitBegin,
       FinishFence, AwaitFinish, DropFence, gateVars, fenceVars, CancelInIndex, cancel_fence,
       CloseFence
  <2> QED
    BY Zenon, <1>1, <2>1, <2>2, <2>3, TokensQuiet
<1> QED
  BY Zenon, <1>2, <1>3, <1>4

\* TokensOK is inductive.
LEMMA TokensStep ==
    ASSUME ControlOK, RespondersOK, TokensOK, [Next]_vars
    PROVE  TokensOK'
<1>1. CASE HelperSend \/ CloseEvent \/ SendShutdown
  <2>1. UNCHANGED <<client, fence_ledger, active_fence, active_fence_start, next_fence_token>>
    BY Zenon, <1>1 DEF HelperSend, CloseEvent, SendShutdown, WriterAside, gateVars
  <2>2. \A r \in Begins' : r \in Begins /\ request'[r].token = request[r].token
    <3>1. CASE UNCHANGED request
      BY Zenon, <3>1 DEF Begins
    <3>2. CASE \E command : Prepare(command) /\ command.op # "BeginVisibilityFence"
      BY Zenon, <3>2, OtherCommand
    <3>3. ASSUME NEW command, PrepareAndEnqueue(command), command.op # "BeginVisibilityFence"
          PROVE  \E other : Prepare(other) /\ other.op # "BeginVisibilityFence"
      BY Zenon, <3>3 DEF PrepareAndEnqueue
    <3>4. HelperSend => \/ UNCHANGED request
                        \/ \E command : PrepareAndEnqueue(command)
                                        /\ command.op # "BeginVisibilityFence"
      BY DEF HelperSend, CancelCommand
    <3>5. CloseEvent \/ SendShutdown => \E command : PrepareAndEnqueue(command)
                                                    /\ command.op # "BeginVisibilityFence"
      BY DEF CloseEvent, SendShutdown
    <3> QED
      BY Zenon, <1>1, <3>1, <3>2, <3>3, <3>4, <3>5
  <2> QED
    BY Zenon, <2>1, <2>2, PendingStep, TokensQuiet
<1>2. CASE UNCHANGED vars
  <2>1. UNCHANGED <<client, fence_ledger, active_fence, active_fence_start, next_fence_token,
                    request>>
    BY Zenon, <1>2 DEF vars, writerVars, gateVars, controlVars
  <2>2. \A r \in Begins' : r \in Begins /\ request'[r].token = request[r].token
    BY Zenon, <2>1 DEF Begins
  <2> QED
    BY Zenon, <2>1, <2>2, PendingStep, TokensQuiet
<1> QED
  BY Zenon, <1>1, <1>2, TokensWriter, TokensClient DEF Next

-----------------------------------------------------------------------------
\* What holds of commands, responders and tokens.
HoldersOK == ControlOK /\ RespondersOK /\ TokensOK

\* In a store just opened nobody holds a responder or a fence.
LEMMA HoldersInit == Init => HoldersOK
<1> SUFFICES ASSUME Init
             PROVE  HoldersOK
  BY Zenon
<1>1. ControlOK
  BY Zenon, ControlInit
<1>2. /\ queue = <<>> /\ fence_ledger = NoLedger /\ pc = "recv" /\ active_fence = 0
      /\ next_fence_token = 1
      /\ \A r \in Requests : reply[r] = "unsent" /\ request[r] = NoRequest
      /\ \A c \in Clients : client[c] = Idle
  BY Zenon DEF Init, WriterInit
<1>3. RespondersOK
  BY <1>2 DEF RespondersOK, Executing, Busy, Ended, Idle, NoLedger
<1>4. Begins = {}
  BY <1>2 DEF Begins, NoRequest
<1>5. TokensOK
  BY <1>2, <1>4 DEF TokensOK, Idle, NoLedger
<1> QED
  BY Zenon, <1>1, <1>3, <1>5 DEF HoldersOK

\* Control, responders and tokens are inductive together.
LEMMA HoldersStep == HoldersOK /\ [Next]_vars => HoldersOK'
BY Zenon, ControlStep, RespondersStep, TokensStep DEF HoldersOK

-----------------------------------------------------------------------------
(* Which steps matter.                                                     *)

\* Steps of other threads touch only the fence of the gate.
LEMMA OutsideFrame ==
    ASSUME ControlOK, [Next]_vars, ~WriterMoves
    PROVE  /\ UNCHANGED <<loopVars, fence_ledger, indexVars, allocated, published>>
           /\ Busy => request'[cur] = request[cur]
<1>1. ASSUME NEW c \in Clients, ClientStep(c)
      PROVE  UNCHANGED <<loopVars, fence_ledger, indexVars, allocated, published>>
  BY Zenon, <1>1 DEF ClientStep, WriterAside, Route, Send, SendFails, SubmitSync, BeginFence, SendBegin,
     SendBeginFails, AwaitBegin, FinishFence, AwaitFinish, DropFence, gateVars, published
<1>2. ASSUME HelperSend \/ CloseEvent \/ SendShutdown \/ UNCHANGED vars
      PROVE  UNCHANGED <<loopVars, fence_ledger, indexVars, allocated, published>>
  BY Zenon, <1>2 DEF WriterAside, HelperSend, CloseEvent, SendShutdown, vars, writerVars, gateVars,
     published
<1>3. Busy => request'[cur] = request[cur]
  BY Zenon, CommandsFixed DEF ControlOK, StepOK
<1> QED
  BY Zenon, <1>1, <1>2, <1>3 DEF Next

\* An append goes on to its next frame, its sync or its index insertion.
Continue == RotateSegment \/ WriteFrame \/ (SyncBatch /\ pc' = "index")

\* Where an append goes on, only its place changes.
LEMMA ContinueFrame ==
    ASSUME ControlOK, Continue
    PROVE  /\ pc \in {"rotate", "write", "sync_batch"}
           /\ pc' \in {"write", "sync_batch", "index"}
           /\ UNCHANGED <<cur, phase, gateVars, fence_ledger, indexVars, request>>
           /\ work'.first = work.first /\ work'.points = work.points
<1>1. CASE RotateSegment
  BY Zenon, <1>1 DEF RotateSegment
<1>2. CASE WriteFrame
  <2>1. work'.first = work.first /\ work'.points = work.points
    BY Zenon, <1>2 DEF WriteFrame, ControlOK, TypeOK, LoopTypeOK
  <2> QED
    BY Zenon, <1>2, <2>1 DEF WriteFrame
<1>3. CASE SyncBatch /\ pc' = "index"
  BY Zenon, <1>3, Settled DEF SyncBatch, FailAppend, ControlOK, TypeOK
<1> QED
  BY Zenon, <1>1, <1>2, <1>3 DEF Continue

\* An item is accepted: its lane gets its point.
LEMMA AcceptFrame ==
    ASSUME ControlOK, AcceptItem
    PROVE  /\ pc = "accept" /\ pc' \in {"accept", "rotate", "write"}
           /\ UNCHANGED <<cur, phase, gateVars, fence_ledger, indexVars, request>>
           /\ work'.first = work.first
           /\ work.item \in 1 .. Count(cur) /\ request[cur].lanes[work.item] \in Lanes
           /\ work'.points = [work.points EXCEPT
                  ![request[cur].lanes[work.item]] = work.first + work.item]
           /\ pc' = "accept" => work'.item = work.item + 1
           /\ pc' # "accept" => work.item = Count(cur)
<1>1. work.item \in 1 .. Count(cur) /\ request[cur].lanes[work.item] \in Lanes
  BY Zenon, CurrentCommand DEF AcceptItem, Busy, ControlOK, StepOK
<1>2. work \in [item : Nat, first : Nat, points : [Lanes -> Nat]]
  BY Zenon DEF ControlOK, TypeOK, LoopTypeOK
<1>3. /\ work'.first = work.first
      /\ work'.points = [work.points EXCEPT
             ![request[cur].lanes[work.item]] = work.first + work.item]
      /\ pc' = "accept" => work'.item = work.item + 1
  BY Zenon, <1>1, <1>2 DEF AcceptItem, LanePoint
<1> QED
  BY Zenon, <1>1, <1>3 DEF AcceptItem

\* All other steps of the writer leave the append at hand, if there is one.
LEMMA RestFrame ==
    ASSUME ControlOK, WriterMoves, ~StartAppend, ~AcceptItem, ~Continue, ~IndexAppend,
           ~PublishAppend
    PROVE  ~InAppend' /\ ~AppendBroadcast' /\ UNCHANGED <<allocated, entries>>
<1>1. UNCHANGED request /\ LoopTypeOK
  BY Zenon, WriterFrame DEF ControlOK, TypeOK
<1>2. ASSUME NEW delta, Settle(delta) \/ SettleSynced
      PROVE  ~InAppend' /\ ~AppendBroadcast'
  BY Zenon, <1>1, <1>2, Settled DEF InAppend, AppendBroadcast
<1>3. CASE RefuseAppend \/ RotateFails \/ WriteFails \/ BroadcastAppend
  BY Zenon, <1>2, <1>3 DEF RefuseAppend, RotateFails, WriteFails, BroadcastAppend, FailAppend, gateVars,
     indexVars
<1>4. CASE SyncBatch
  BY Zenon, <1>2, <1>4 DEF SyncBatch, FailAppend, Continue, gateVars, indexVars
<1>5. CASE ExecuteBegin \/ DeferredBegin \/ CommitRefused \/ CommitFails \/ BroadcastFence
           \/ CancelRefused \/ PersistCancel \/ DeferredSync
  BY Zenon, <1>2, <1>5 DEF ExecuteBegin, DeferredBegin, CommitRefused, CommitFails, BroadcastFence,
     CancelRefused, PersistCancel, DeferredSync, gateVars, indexVars
<1>6. CASE CommitFence
  BY Zenon, <1>1, <1>6 DEF CommitFence, InAppend, AppendBroadcast, Committing, indexVars
<1>7. CASE CancelFence
  BY Zenon, <1>7 DEF CancelFence, InAppend, AppendBroadcast, indexVars
<1>8. CASE Receive \/ EndDrain \/ PeriodicSync \/ SyncBarrier \/ DeferredShutdown \/ StartShutdown
           \/ AutoCancelFence \/ FinishShutdown
  BY Zenon, <1>8 DEF Receive, Take, EndDrain, PeriodicSync, SyncBarrier, DeferredShutdown, StartShutdown,
     AutoCancelFence, FinishShutdown, InAppend, AppendBroadcast, gateVars, indexVars
<1>9. CASE Panic
  BY Zenon, <1>9 DEF Panic, InAppend, AppendBroadcast
<1> QED
  BY Zenon, <1>3, <1>4, <1>5, <1>6, <1>7, <1>8, <1>9
     DEF WriterMoves, WriterStep, AppendStep, FenceStep, LoopStep, Continue

-----------------------------------------------------------------------------
(* Sequences.                                                              *)

\* The inductive invariant of the gate and the ledger.
GateInv == HoldersOK /\ GateOK

\* The sequences the ledger and the subscribers know were allocated.
Known == notified \cup fence_ledger.seqs

\* An indexed append adds its sequences to what is known, a broadcast moves
\* known sequences, nothing else adds any.
LEMMA KnownFrame ==
    ASSUME ControlOK, [Next]_vars
    PROVE  \/ Known' \subseteq Known
           \/ Known' \subseteq Known \cup CurSeqs /\ (IndexAppend \/ BroadcastAppend)
<1>1. LedgerTypeOK /\ IndexTypeOK
  BY Zenon DEF ControlOK, TypeOK
<1>2. NoLedger.seqs = {} /\ \A t : [NoLedger EXCEPT !.token = t].seqs = {}
  BY Zenon DEF NoLedger
<1>3. CASE UNCHANGED fence_ledger \/ fence_ledger'.seqs = {}
  <2>1. CASE UNCHANGED notified \/ notified' = notified \cup fence_ledger.seqs
    BY Zenon, <1>3, <2>1 DEF Known
  <2>2. CASE BroadcastAppend
    BY Zenon, <1>3, <2>2 DEF BroadcastAppend, Known
  <2>3. CASE IndexAppend
    BY Zenon, <2>1, <2>3 DEF IndexAppend
  <2> QED
    BY Zenon, <2>1, <2>2, <2>3, IndexFrame
       DEF indexVars, BroadcastFence, PersistCancel, AutoCancelFence, Panic
<1>4. CASE IndexAppend
  <2>1. CASE Fenced(cur)
    <3>1. fence_ledger'.seqs = fence_ledger.seqs \cup CurSeqs
      BY Zenon, <1>1, <1>4, <2>1 DEF IndexAppend, LedgerTypeOK
    <3> QED
      BY Zenon, <1>4, <3>1 DEF IndexAppend, Known
  <2>2. CASE ~Fenced(cur)
    BY Zenon, <1>3, <1>4, <2>2 DEF IndexAppend
  <2> QED
    BY Zenon, <2>1, <2>2
<1>5. CASE ExecuteBegin \/ DeferredBegin
  BY Zenon, <1>2, <1>3, <1>5 DEF ExecuteBegin, DeferredBegin, BeginLedger
<1>6. CASE CommitFails \/ BroadcastFence \/ PersistCancel \/ DeferredShutdown
           \/ AutoCancelFence \/ Panic
  BY Zenon, <1>2, <1>3, <1>6 DEF CommitFails, BroadcastFence, PersistCancel, DeferredShutdown,
     AutoCancelFence, Panic
<1> QED
  BY Zenon, <1>3, <1>4, <1>5, <1>6, LedgerFrame

\* SequencesOK is inductive.
LEMMA SequencesStep ==
    ASSUME GateInv, [Next]_vars
    PROVE  SequencesOK'
<1>1. ControlOK /\ SequencesOK /\ GateTypeOK /\ IndexTypeOK /\ LoopTypeOK /\ LedgerTypeOK
  BY Zenon DEF GateInv, GateOK, HoldersOK, ControlOK, TypeOK
<1>2. /\ allocated \in Nat /\ work.first \in Nat
      /\ \A e \in entries : e.seq \in Nat
      /\ Known \subseteq Nat
  BY Zenon, <1>1 DEF GateTypeOK, LoopTypeOK, IndexTypeOK, LedgerTypeOK, Known
<1>3. CASE ~WriterMoves
  <2>1. /\ UNCHANGED <<loopVars, fence_ledger, indexVars, allocated>>
        /\ Busy => request'[cur] = request[cur]
    BY Zenon, <1>1, <1>3, OutsideFrame
  <2>2. UNCHANGED <<pc, cur, work, entries, notified>>
    BY Zenon, <2>1 DEF loopVars, indexVars
  <2> QED
    BY Zenon, <1>1, <2>1, <2>2 DEF SequencesOK, UniqueSequence, Unindexed, AppendBroadcast, Committing, Busy,
       Batch, Count, LastSeq
<1>4. CASE StartAppend
  <2>1. /\ pc' = "accept" /\ work'.first = allocated
        /\ allocated' = IF Batch(cur) THEN allocated + Count(cur) ELSE allocated
        /\ UNCHANGED <<entries, notified, fence_ledger, request, cur>>
    BY Zenon, <1>4 DEF StartAppend, reserve, indexVars
  <2>2. Count(cur) \in Nat
    BY Zenon, <1>1, <1>4, CurrentCommand DEF StartAppend, Busy
  <2>3. /\ Count(cur)' = Count(cur) /\ Batch(cur)' = Batch(cur) /\ ~AppendBroadcast' /\ pc' # "publish"
    BY Zenon, <2>1 DEF Count, Batch, AppendBroadcast
  <2>4. /\ allocated' \in Nat /\ allocated <= allocated'
        /\ allocated' = IF Batch(cur) THEN work'.first + Count(cur) ELSE work'.first
    BY <1>2, <2>1, <2>2
  <2>5. /\ UniqueSequence /\ \A e \in entries : e.seq < allocated
        /\ \A s \in notified \cup fence_ledger.seqs : s \in Nat /\ s < allocated
    BY Zenon, <1>1, <1>2 DEF SequencesOK, UniqueSequence, Known
  <2>6. /\ \A e \in entries : e.seq < allocated'
        /\ \A s \in notified \cup fence_ledger.seqs : s < allocated'
    BY <1>2, <2>4, <2>5
  <2>7. UniqueSequence'
    BY Zenon, <2>1, <2>5, <2>6 DEF UniqueSequence
  <2> QED
    BY Zenon, <2>1, <2>3, <2>4, <2>5, <2>6, <2>7 DEF SequencesOK
<1>5. CASE AcceptItem \/ Continue
  <2>1. /\ Unindexed /\ Unindexed' /\ pc' # "publish" /\ ~AppendBroadcast'
        /\ UNCHANGED <<cur, gateVars, fence_ledger, indexVars, request>>
        /\ work'.first = work.first
    BY Zenon, <1>1, <1>5, AcceptFrame, ContinueFrame DEF Unindexed, AppendBroadcast
  <2>2. UNCHANGED <<allocated, entries, notified>>
    BY Zenon, <2>1 DEF gateVars, indexVars
  <2> QED
    BY Zenon, <1>1, <2>1, <2>2 DEF SequencesOK, UniqueSequence, Batch, Count
<1>6. CASE PublishAppend
  <2>1. /\ pc = "publish" /\ pc' = "broadcast"
        /\ UNCHANGED <<allocated, cur, work, entries, notified, fence_ledger, request>>
    BY Zenon, <1>6 DEF PublishAppend, indexVars
  <2> QED
    BY Zenon, <1>1, <2>1 DEF SequencesOK, UniqueSequence, Unindexed, AppendBroadcast, LastSeq, Count
<1>7. CASE WriterMoves /\ ~StartAppend /\ ~AcceptItem /\ ~Continue /\ ~IndexAppend /\ ~PublishAppend
  <2>1. ~InAppend' /\ ~AppendBroadcast' /\ UNCHANGED <<allocated, entries>>
    BY Zenon, <1>1, <1>7, RestFrame
  <2>2. \A s \in Known' : s < allocated
    <3>1. CASE Known' \subseteq Known
      BY Zenon, <1>1, <3>1 DEF SequencesOK, Known
    <3>2. CASE BroadcastAppend /\ Known' \subseteq Known \cup CurSeqs
      <4>1. AppendBroadcast
        BY Zenon, <3>2 DEF BroadcastAppend, AppendBroadcast, Committing, AppendOps
      <4>2. allocated = LastSeq + 1 /\ LastSeq \in Nat
        BY Zenon, <1>1, <3>2, <4>1, CurrentCommand DEF SequencesOK, BroadcastAppend, Busy
      <4> QED
        BY <1>1, <1>2, <3>2, <4>2 DEF SequencesOK, Known, CurSeqs
    <3> QED
      BY Zenon, <1>1, <1>7, <3>1, <3>2, KnownFrame
  <2> QED
    BY Zenon, <1>1, <2>1, <2>2 DEF SequencesOK, UniqueSequence, Unindexed, InAppend, Known
<1>8. CASE IndexAppend
  <2> DEFINE New(i) == [seq |-> work.first + i - 1, lane |-> request[cur].lanes[i], request |-> cur]
  <2>1. /\ Unindexed /\ Count(cur) \in Nat /\ Count(cur) > 0 /\ LastSeq \in Nat
        /\ LastSeq = work.first + Count(cur) - 1
        /\ ~Batch(cur) => Count(cur) = 1
    <3>1. ~Batch(cur) => Count(cur) = 1
      BY Zenon, <1>1, <1>8, CurrentCommand DEF IndexAppend, Busy, InAppend, ControlOK, CommandsOK, StepOK,
         WellFormed, AppendOps, Batch, Count
    <3> QED
      BY Zenon, <1>1, <1>8, <3>1, CurrentCommand DEF IndexAppend, Busy, InAppend, Unindexed, LastSeq
  <2>2. entries' = entries \cup {New(i) : i \in 1 .. Count(cur)}
    BY Zenon, <1>8 DEF IndexAppend
  <2>3. allocated' = LastSeq + 1 /\ allocated <= allocated'
    BY <1>1, <1>2, <1>8, <2>1 DEF IndexAppend, reserve, SequencesOK
  <2>4. \A e \in entries : e.seq < work.first
    BY Zenon, <1>1, <2>1 DEF SequencesOK
  <2>5. UniqueSequence'
    <3>1. \A e \in entries' : e \in entries \/ \E i \in 1 .. Count(cur) : e = New(i)
      BY Zenon, <2>2
    <3>2. \A i \in 1 .. Count(cur) : New(i).seq = work.first + i - 1
      BY Zenon
    <3>3. \A e \in entries' : e.seq < allocated'
      BY <1>2, <2>1, <2>3, <2>4, <3>1, <3>2
    <3>4. \A e, f \in entries' : e.seq = f.seq => e = f
      <4> SUFFICES ASSUME NEW e \in entries', NEW f \in entries', e.seq = f.seq
                   PROVE  e = f
        BY Zenon
      <4>1. CASE e \in entries /\ f \in entries
        BY Zenon, <1>1, <4>1 DEF SequencesOK, UniqueSequence
      <4>2. CASE e \notin entries /\ f \notin entries
        BY <1>2, <2>1, <3>1, <3>2, <4>2
      <4>3. CASE (e \in entries /\ f \notin entries) \/ (e \notin entries /\ f \in entries)
        BY <1>2, <2>1, <2>4, <3>1, <3>2, <4>3
      <4> QED
        BY Zenon, <4>1, <4>2, <4>3
    <3> QED
      BY Zenon, <3>3, <3>4 DEF UniqueSequence
  <2>6. \A s \in Known' : s < allocated'
    <3>1. Known' \subseteq Known \cup CurSeqs
      BY Zenon, <1>1, <1>8, KnownFrame DEF Known
    <3>2. \A s \in CurSeqs : s < allocated'
      BY <1>2, <2>1, <2>3 DEF CurSeqs
    <3> QED
      BY <1>1, <1>2, <2>1, <2>3, <3>1, <3>2 DEF SequencesOK, Known
  <2>7. CASE Fenced(cur)
    <3>1. pc' \in {"drain", "periodic", "shutdown_drain"}
      BY Zenon, <1>1, <1>8, <2>7, Settled DEF IndexAppend
    <3> QED
      BY Zenon, <2>5, <2>6, <3>1 DEF SequencesOK, Unindexed, AppendBroadcast, Known
  <2>8. CASE ~Fenced(cur)
    <3>1. pc' = "publish" /\ UNCHANGED <<cur, work, request>>
      BY Zenon, <1>8, <2>8 DEF IndexAppend
    <3>2. \A i \in 1 .. Count(cur) : New(i) \in entries'
      BY Zenon, <2>2
    <3> QED
      BY Zenon, <2>1, <2>3, <2>5, <2>6, <3>1, <3>2 DEF SequencesOK, Unindexed, AppendBroadcast, Known, LastSeq, Count
  <2> QED
    BY Zenon, <2>7, <2>8
<1> QED
  BY Zenon, <1>3, <1>4, <1>5, <1>6, <1>7, <1>8

-----------------------------------------------------------------------------
(* The lane points of an append.                                           *)

\* PointsOK is inductive.
LEMMA PointsStep ==
    ASSUME GateInv, [Next]_vars
    PROVE  PointsOK'
<1>1. ControlOK /\ PointsOK /\ LoopTypeOK
  BY Zenon DEF GateInv, GateOK, HoldersOK, ControlOK, TypeOK
<1>2. CASE ~WriterMoves
  <2>1. UNCHANGED <<pc, cur, work>>
    BY Zenon, <1>1, <1>2, OutsideFrame DEF loopVars
  <2>2. Busy => request'[cur] = request[cur]
    BY Zenon, <1>1, <1>2, OutsideFrame
  <2> QED
    BY Zenon, <1>1, <2>1, <2>2 DEF PointsOK, InAppend, AppendBroadcast, Committing, Busy, Count
<1>3. CASE StartAppend
  <2>1. /\ pc' = "accept" /\ work'.item = 1 /\ work'.points = NoLanePoints
    BY Zenon, <1>3 DEF StartAppend
  <2>2. \A l \in Lanes : NoLanePoints[l] = 0
    BY Zenon DEF NoLanePoints
  <2> QED
    BY <2>1, <2>2 DEF PointsOK
<1>4. CASE AcceptItem
  <2> DEFINE lane == request[cur].lanes[work.item]
  <2>1. /\ pc = "accept" /\ UNCHANGED <<cur, request>> /\ work'.first = work.first
        /\ work.item \in 1 .. Count(cur) /\ lane \in Lanes
        /\ work'.points = [work.points EXCEPT ![lane] = work.first + work.item]
        /\ pc' = "accept" => work'.item = work.item + 1
        /\ pc' # "accept" => work.item = Count(cur)
    BY Zenon, <1>1, <1>4, AcceptFrame
  <2>2. /\ Busy /\ Count(cur) \in Nat /\ work.first \in Nat /\ work.points \in [Lanes -> Nat]
        /\ \A i \in 1 .. Count(cur) : request[cur].lanes[i] \in Lanes
    BY Zenon, <1>1, <2>1, CurrentCommand DEF Busy, LoopTypeOK
  <2>3. /\ work'.points[lane] = work.first + work.item
        /\ \A l \in Lanes : l # lane => work'.points[l] = work.points[l]
    BY Zenon, <2>1, <2>2
  <2>4. /\ \A l \in Lanes : work.points[l] # 0 =>
               work.first < work.points[l] /\ work.points[l] <= work.first + Count(cur)
        /\ \A i \in 1 .. Count(cur) : i < work.item =>
               work.points[request[cur].lanes[i]] >= work.first + i
    BY Zenon, <1>1, <2>1 DEF PointsOK, InAppend
  <2>5. Count(cur)' = Count(cur)
    BY Zenon, <2>1 DEF Count
  <2>6. \A l \in Lanes : work'.points[l] # 0 =>
            work.first < work'.points[l] /\ work'.points[l] <= work.first + Count(cur)
    <3>1. work.first < work.first + work.item /\ work.first + work.item <= work.first + Count(cur)
      BY Zenon, <2>1, <2>2, ItemBounds
    <3> QED
      BY Zenon, <2>3, <2>4, <3>1
  <2>7. \A i \in 1 .. Count(cur) : i <= work.item =>
            work'.points[request[cur].lanes[i]] >= work.first + i
    <3> SUFFICES ASSUME NEW i \in 1 .. Count(cur), i <= work.item
                 PROVE  work'.points[request[cur].lanes[i]] >= work.first + i
      BY Zenon
    <3>1. CASE request[cur].lanes[i] = lane
      <4>1. work.first + work.item >= work.first + i
        BY Zenon, <2>1, <2>2, ItemBounds, ItemsOrdered
      <4> QED
        BY Zenon, <2>3, <3>1, <4>1
    <3>2. CASE request[cur].lanes[i] # lane
      <4>1. i < work.item
        BY <2>1, <3>2
      <4> QED
        BY Zenon, <2>2, <2>3, <2>4, <3>2, <4>1
    <3> QED
      BY Zenon, <3>1, <3>2
  <2>8. \A i \in 1 .. Count(cur) : pc' # "accept" \/ i < work'.item => i <= work.item
    BY <2>1, <2>2
  <2> QED
    BY Zenon, <2>1, <2>5, <2>6, <2>7, <2>8 DEF PointsOK
<1>5. CASE Continue
  <2>1. /\ pc \in {"rotate", "write", "sync_batch"} /\ UNCHANGED <<cur, request>>
        /\ work'.first = work.first /\ work'.points = work.points
    BY Zenon, <1>1, <1>5, ContinueFrame
  <2> QED
    BY Zenon, <1>1, <2>1 DEF PointsOK, InAppend, Count
<1>6. CASE IndexAppend
  <2>1. CASE Fenced(cur)
    BY Zenon, <1>1, <1>6, <2>1, Settled DEF IndexAppend, PointsOK, InAppend, AppendBroadcast
  <2>2. CASE ~Fenced(cur)
    <3>1. pc = "index" /\ UNCHANGED <<cur, work, request>>
      BY Zenon, <1>6, <2>2 DEF IndexAppend
    <3> QED
      BY Zenon, <1>1, <3>1 DEF PointsOK, InAppend, Count
  <2> QED
    BY Zenon, <2>1, <2>2
<1>7. CASE PublishAppend
  <2>1. pc = "publish" /\ UNCHANGED <<cur, work, request>>
    BY Zenon, <1>7 DEF PublishAppend
  <2> QED
    BY Zenon, <1>1, <2>1 DEF PointsOK, InAppend, Count
<1>8. CASE WriterMoves /\ ~StartAppend /\ ~AcceptItem /\ ~Continue /\ ~IndexAppend /\ ~PublishAppend
  BY Zenon, <1>1, <1>8, RestFrame DEF PointsOK
<1> QED
  BY Zenon, <1>2, <1>3, <1>4, <1>5, <1>6, <1>7, <1>8

=============================================================================
