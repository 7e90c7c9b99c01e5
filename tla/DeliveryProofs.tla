--------------------------- MODULE DeliveryProofs ---------------------------
(***************************************************************************)
(* Proofs about Delivery: the checkpoint of a cursor worker, the order in  *)
(* which its handler meets events, and the stream of a subscriber.         *)
(***************************************************************************)
EXTENDS Delivery, TLAPS, FiniteSetTheorems

-----------------------------------------------------------------------------
(* The inductive invariant.                                                *)

CursorType == [position : Nat, started : BOOLEAN]
WriterType == [at : {"idle", "bump", "notify", "broadcast"}, gated : BOOLEAN,
               broadcast : SUBSET Nat]
WorkerType == [at : {"stopped", "loop", "snapshot", "query", "upgrade", "park", "parked",
                     "handle", "save"},
               bound : Nat, hits : SUBSET Nat, batch : SUBSET Nat,
               cursor : CursorType, committed : CursorType, restarts : Nat]
SubscriberType == [open : BOOLEAN, queue : Seq(Nat), got : Seq(Nat), due : Seq(Nat)]

TypeOK ==
    /\ log \in Seq(BOOLEAN) /\ visible \in Nat /\ cancelled \in SUBSET Nat
    /\ fence \in BOOLEAN /\ moved \in BOOLEAN
    /\ writer \in WriterType /\ swapping \in {"no", "cleared", "published"}
    /\ worker \in WorkerType /\ ckpt \in CursorType
    /\ subscriber \in SubscriberType
    /\ handled \in SUBSET Nat /\ dropped \in SUBSET Nat
    /\ budget \in [fences : Nat, incidents : Nat, spawns : Nat]

\* Every event named anywhere is in the log, and no cursor is behind its end:
\* the next event written is after all of them.
InLog(c) == c.started => c.position < Len(log)
WithinLog ==
    /\ visible <= Len(log)
    /\ \A s \in cancelled \cup handled \cup dropped : s < Len(log)
    /\ InLog(ckpt) /\ InLog(worker.cursor) /\ InLog(worker.committed)

\* What the worker has taken and not handled yet: visible when it was taken,
\* and behind its cursor.
Taken == worker.hits \cup worker.batch
AtOK ==
    /\ worker.at # "upgrade" => worker.hits = {}
    /\ worker.at \notin {"upgrade", "handle"} => worker.batch = {}
    /\ worker.at = "query" => worker.bound <= visible
TakenBehind == \A s \in Taken : s < visible /\ ~After(worker.cursor, s)

\* A cursor has passed no event of the region but delivered ones and pending.
PassedOnly(cursor, pending) ==
    \A s \in Sequences0 \ cancelled :
        InRegion(s) /\ ~After(cursor, s) => Delivered(s) \/ s \in pending

CursorsOK ==
    /\ PassedOnly(ckpt, {}) /\ PassedOnly(worker.committed, {})
    /\ PassedOnly(worker.cursor, Taken)

DeliveryInv == TypeOK /\ WithinLog /\ AtOK /\ TakenBehind /\ CursorsOK /\ InOrder

\* What a subscriber has and is about to get is the beginning of what it was
\* due, and all of it while its channel is open.
StreamOK ==
    LET s == subscriber
        n == Len(s.got) + Len(s.queue)
    IN  /\ n <= Len(s.due) /\ (s.open => n = Len(s.due))
        /\ \A i \in 1 .. Len(s.got) : s.due[i] = s.got[i]
        /\ \A i \in 1 .. Len(s.queue) : s.due[Len(s.got) + i] = s.queue[i]

-----------------------------------------------------------------------------
(* Least and greatest elements.                                            *)

\* The least number of a set that has one is in it, below all others.
LEMMA MinIn ==
    ASSUME NEW S \in SUBSET Nat, S # {}
    PROVE  Min(S) \in S /\ \A x \in S : Min(S) <= x
<1> DEFINE Less == {ss \in Nat \X Nat : ss[1] < ss[2]}
<1>1. IsWellFoundedOn(Less, Nat)
  BY NatLessThanWellFounded, Zenon DEF OpToRel
<1>2. PICK x \in S : \A y \in S : ~(<<y, x>> \in Less)
  <2> HIDE DEF Less
  <2> QED BY <1>1, WFMin, Zenon
<1>3. ASSUME NEW y \in S PROVE x <= y
  <2>1. <<y, x>> \in Nat \X Nat /\ <<y, x>>[1] = y /\ <<y, x>>[2] = x  OBVIOUS
  <2>2. ~(y < x)  BY <1>2, <2>1, Zenon
  <2> QED BY <2>2
<1> QED BY <1>3 DEF Min

\* The greatest number of a bounded set that has one is in it, above all others.
LEMMA MaxIn ==
    ASSUME NEW n \in Nat, NEW S \in SUBSET (0 .. n), S # {}
    PROVE  Max(S) \in S /\ \A x \in S : Max(S) >= x
<1> DEFINE T == {n - x : x \in S}
<1>1. Min(T) \in T /\ \A y \in T : Min(T) <= y
  <2>1. \A x \in S : n - x \in Nat  OBVIOUS
  <2>2. T \in SUBSET Nat /\ T # {}  BY <2>1
  <2> QED BY <2>2, MinIn
<1>2. \E x \in S : \A y \in S : x >= y
  <2>1. PICK x \in S : Min(T) = n - x  BY <1>1
  <2>2. \A y \in S : n - y >= n - x  BY <1>1, <2>1
  <2> QED BY <2>2
<1> QED BY <1>2 DEF Max

-----------------------------------------------------------------------------
(* Types.                                                                  *)

\* The fields of the records the model starts from.
LEMMA Records ==
    /\ NotStarted \in CursorType /\ NoWorker \in WorkerType /\ Idle \in WriterType
    /\ Subscribed \in SubscriberType
<1>1. NotStarted \in CursorType  BY DEF NotStarted, CursorType
<1>2. NoWorker \in WorkerType  BY <1>1 DEF NoWorker, WorkerType
<1>3. Idle \in WriterType  BY DEF Idle, WriterType
<1>4. Subscribed \in SubscriberType  BY DEF Subscribed, SubscriberType
<1> QED BY <1>1, <1>2, <1>3, <1>4

\* The first state has the types.
LEMMA TypeInit == Init => TypeOK
<1> SUFFICES ASSUME Init PROVE TypeOK  OBVIOUS
<1>1. worker \in WorkerType
  BY Records DEF Init, WorkerType
<1>2. budget \in [fences : Nat, incidents : Nat, spawns : Nat]
  BY DeliveryAssumption DEF Init
<1>3. log \in Seq(BOOLEAN) /\ visible \in Nat
  BY DEF Init
<1>4. fence \in BOOLEAN /\ moved \in BOOLEAN
  BY Zenon DEF Init
<1> QED BY <1>1, <1>2, <1>3, <1>4, Records DEF Init, TypeOK

\* What is left of a bound is a number.
LEMMA Spent ==
    ASSUME TypeOK, NEW what \in {"fences", "incidents", "spawns"}, Spend(what)
    PROVE  budget' \in [fences : Nat, incidents : Nat, spawns : Nat]
BY DEF TypeOK, Spend


\* The steps that touch the journal and its gate.
LEMMA GateFrame ==
    ASSUME [Next]_vars
    PROVE  \/ \E w \in Writes : Write(w)
           \/ BeginFence \/ CommitFence \/ CancelFence \/ SwapClear \/ SwapPublish \/ Crash
           \/ UNCHANGED gateVars
BY DEF Next, vars, gateVars, SignalStep, SwapStep, WorkerStep, Bump, Notify, Broadcast,
   SwapRestore, Spawn, Loop, Snapshot, Poll, Upgrade, Park, Handle, Save, Stop, Timeout, Error,
   SaveFails, Panic, Receive

\* An append writes one event, a batch two.
LEMMA WritesType == ASSUME TypeOK, NEW w \in Writes PROVE w \in Seq(BOOLEAN) /\ Len(w) \in {1, 2}
<1>1. PICK n \in {1, 2} : w \in [1 .. n -> BOOLEAN]  BY Zenon DEF Writes
<1>2. n \in Nat  OBVIOUS
<1>3. w \in Seq(BOOLEAN)  BY <1>1, <1>2
<1>4. Len(w) = n  BY <1>1, <1>2, <1>3
<1> QED BY <1>1, <1>3, <1>4, Zenon

\* The journal, its gate and the cancelled events keep their types.
LEMMA LogTypeStep ==
    ASSUME TypeOK, [Next]_vars
    PROVE  log' \in Seq(BOOLEAN) /\ visible' \in Nat /\ cancelled' \in SUBSET Nat
<1>0. Len(log) \in Nat /\ log \in Seq(BOOLEAN)  BY DEF TypeOK
<1>1. ASSUME NEW w \in Writes, Write(w) PROVE log' \in Seq(BOOLEAN) /\ visible' \in Nat /\ cancelled' = cancelled
  <2>1. log' \in Seq(BOOLEAN) /\ Len(log') \in Nat  BY <1>0, <1>1, WritesType DEF Write
  <2> QED BY <2>1, <1>1 DEF Write, publish, TypeOK
<1>2. ASSUME CommitFence PROVE log' = log /\ visible' \in Nat /\ cancelled' = cancelled
  BY <1>0, <1>2 DEF CommitFence, publish, TypeOK
<1>3. ASSUME CancelFence PROVE log' = log /\ visible' = visible /\ cancelled' \in SUBSET Nat
  <2>1. Staged \in SUBSET Nat  BY <1>0 DEF Staged, TypeOK
  <2> QED BY <1>3, <2>1 DEF CancelFence, TypeOK
<1>4. ASSUME SwapPublish PROVE log' = log /\ visible' \in Nat /\ cancelled' = cancelled
  BY <1>0, <1>4 DEF SwapPublish
<1>5. ASSUME Crash PROVE log' \in Seq(BOOLEAN) /\ visible' \in Nat /\ cancelled' \in SUBSET Nat
  <2>1. PICK kept \in 0 .. Len(log) : /\ log' = SubSeq(log, 1, kept) /\ visible' = kept
                                      /\ cancelled' = {s \in cancelled : s < kept}
    BY <1>5, Zenon DEF Crash
  <2>2. SubSeq(log, 1, kept) \in Seq(BOOLEAN)  BY <1>0
  <2>3. {s \in cancelled : s < kept} \in SUBSET Nat  BY DEF TypeOK
  <2> QED BY <1>0, <2>1, <2>2, <2>3
<1>6. ASSUME BeginFence \/ SwapClear \/ UNCHANGED gateVars
      PROVE  log' = log /\ visible' = visible /\ cancelled' = cancelled
  BY <1>6 DEF BeginFence, SwapClear, gateVars
<1>7. visible \in Nat /\ cancelled \in SUBSET Nat  BY DEF TypeOK
<1> QED BY <1>0, <1>1, <1>2, <1>3, <1>4, <1>5, <1>6, <1>7, GateFrame, Zenon

\* The fence, the wake flag and the compaction keep their types.
LEMMA FlagTypeStep ==
    ASSUME TypeOK, [Next]_vars
    PROVE  fence' \in BOOLEAN /\ moved' \in BOOLEAN /\ swapping' \in {"no", "cleared", "published"}
BY Zenon DEF Next, vars, gateVars, SignalStep, SwapStep, WorkerStep, Write, BeginFence,
   CommitFence, CancelFence, Bump, Notify, Broadcast, SwapClear, SwapPublish,
   SwapRestore, Spawn, Loop, Snapshot, Poll, Upgrade, Park, Handle, Save, Stop, Timeout, Error,
   SaveFails, Panic, Receive, Crash, TypeOK

\* The bounds keep their types.
LEMMA BudgetTypeStep ==
    ASSUME TypeOK, [Next]_vars
    PROVE  budget' \in [fences : Nat, incidents : Nat, spawns : Nat]
<1>1. \/ Spend("fences") \/ Spend("incidents") \/ Spend("spawns") \/ UNCHANGED budget
  BY Zenon DEF Next, vars, gateVars, SignalStep, SwapStep, WorkerStep, Write, BeginFence,
   CommitFence, CancelFence, Bump, Notify, Broadcast, SwapClear, SwapPublish,
   SwapRestore, Spawn, Loop, Snapshot, Poll, Upgrade, Park, Handle, Save, Stop, Timeout, Error,
   SaveFails, Panic, Receive, Crash
<1> QED BY <1>1, Spent DEF TypeOK

\* A writer that has published has something to announce.
LEMMA PublishType ==
    ASSUME TypeOK, NEW events, Len(events) \in Nat, NEW gated \in BOOLEAN, publish(events, gated)
    PROVE  writer' \in WriterType
BY DEF publish, TypeOK, WriterType

\* The writer keeps its type.
LEMMA WriterTypeStep == ASSUME TypeOK, [Next]_vars PROVE writer' \in WriterType
<1>0. Len(log) \in Nat /\ log \in Seq(BOOLEAN) /\ writer \in WriterType  BY DEF TypeOK
<1>1. ASSUME NEW w \in Writes, Write(w) PROVE writer' \in WriterType
  <2>1. Len(log') \in Nat  BY <1>0, <1>1, WritesType DEF Write
  <2> QED BY <1>0, <2>1, <1>1, PublishType DEF Write
<1>2. ASSUME CommitFence PROVE writer' \in WriterType
  BY <1>0, <1>2, PublishType DEF CommitFence
<1>3. ASSUME Bump \/ Notify PROVE writer' \in WriterType
  BY <1>0, <1>3 DEF Bump, Notify, WriterType
<1>4. ASSUME Broadcast PROVE writer' \in WriterType
  BY <1>0, <1>4, Records DEF Broadcast, WriterType
<1>5. ASSUME Crash PROVE writer' \in WriterType  BY <1>5, Records DEF Crash
<1>6. \/ \E w \in Writes : Write(w)
      \/ CommitFence \/ Bump \/ Notify \/ Broadcast \/ Crash \/ UNCHANGED writer
  BY DEF Next, vars, SignalStep, SwapStep, WorkerStep, BeginFence, CancelFence, SwapClear,
     SwapPublish, SwapRestore, Spawn, Loop, Snapshot, Poll, Upgrade, Park, Handle, Save, Stop,
     Timeout, Error, SaveFails, Panic, Receive
<1> QED BY <1>0, <1>1, <1>2, <1>3, <1>4, <1>5, <1>6, Zenon

\* The steps that touch the worker.
LEMMA WorkerFrame ==
    ASSUME [Next]_vars
    PROVE  \/ Notify \/ SwapPublish \/ Spawn \/ Loop \/ Snapshot \/ Poll \/ Upgrade \/ Park
           \/ Timeout \/ Handle \/ Save \/ Panic
           \/ worker' = NoWorker /\ UNCHANGED <<gateVars, ckpt, handled, dropped>>
           \/ Crash \/ UNCHANGED worker
BY DEF Next, vars, SignalStep, SwapStep, WorkerStep, Write, BeginFence, CommitFence, CancelFence,
   Bump, Broadcast, SwapClear, SwapRestore, Stop, Error, SaveFails, Receive

\* The hits of a poll: events of the region the snapshot shows, past the cursor.
LEMMA HitsFacts ==
    ASSUME TypeOK, NEW cursor, NEW bound
    PROVE  \A s \in query_hits_after(cursor, bound) :
              /\ s \in Sequences0 /\ s \in Nat /\ s < Len(log)
              /\ s < bound /\ s \notin cancelled /\ InRegion(s) /\ After(cursor, s)
BY DEF query_hits_after, Sequences0, TypeOK

\* A worker that is woken is a worker.
LEMMA WokenType == ASSUME worker \in WorkerType PROVE Woken(worker) \in WorkerType
BY DEF Woken, WorkerType

\* upgrade_hit: the batch is complete, or its next hit goes into it or is left out.
LEMMA UpgradeForms ==
    ASSUME Upgrade
    PROVE  \/ /\ worker.hits = {} /\ dropped' = dropped
              /\ \/ worker.batch = {} /\ worker' = [worker EXCEPT !.at = "park"]
                 \/ worker.batch # {} /\ worker' = [worker EXCEPT !.at = "handle"]
           \/ /\ worker.hits # {} /\ dropped' = dropped
              /\ worker' = [worker EXCEPT !.hits = @ \ {Min(worker.hits)},
                                          !.batch = @ \cup {Min(worker.hits)}]
           \/ /\ worker.hits # {} /\ ~Upgradable(Min(worker.hits))
              /\ worker' = [worker EXCEPT !.hits = @ \ {Min(worker.hits)}]
              /\ dropped' = IF swapping = "no" THEN dropped ELSE dropped \cup {Min(worker.hits)}
BY Zenon DEF Upgrade

\* The worker keeps its type.
LEMMA WorkerTypeStep == ASSUME TypeOK, [Next]_vars PROVE worker' \in WorkerType
<1>0. /\ worker \in WorkerType /\ ckpt \in CursorType /\ visible \in Nat /\ Len(log) \in Nat
      /\ worker.cursor \in CursorType /\ worker.committed \in CursorType
  BY DEF TypeOK, WorkerType
<1>1. ASSUME Notify \/ SwapPublish PROVE worker' \in WorkerType
  BY <1>0, <1>1, WokenType, Zenon DEF Notify, SwapPublish
<1>2. ASSUME Spawn PROVE worker' \in WorkerType
  BY <1>0, <1>2, Records DEF Spawn, WorkerType
<1>3. ASSUME Loop \/ Park \/ Timeout PROVE worker' \in WorkerType
  BY <1>0, <1>3 DEF Loop, Park, Timeout, GoTo, WorkerType
<1>4. ASSUME Snapshot PROVE worker' \in WorkerType
  BY <1>0, <1>4 DEF Snapshot, WorkerType
<1>5. ASSUME Poll PROVE worker' \in WorkerType
  <2> DEFINE hits == query_hits_after(worker.cursor, worker.bound)
             c == [position |-> Max(hits), started |-> TRUE]
  <2>1. hits \in SUBSET (0 .. Len(log)) /\ hits \in SUBSET Nat  BY <1>0, HitsFacts
  <2>2. hits # {} => c \in CursorType
    <3>1. hits # {} => Max(hits) \in Nat  BY <1>0, <2>1, MaxIn
    <3> HIDE DEF hits
    <3> QED BY <3>1 DEF CursorType
  <2>3. worker' = IF hits = {} THEN [worker EXCEPT !.at = "park", !.bound = 0]
                  ELSE [worker EXCEPT !.at = "upgrade", !.bound = 0, !.hits = hits, !.cursor = c]
    BY <1>5, Zenon DEF Poll
  <2> HIDE DEF hits, c
  <2> QED BY <1>0, <2>1, <2>2, <2>3 DEF WorkerType
<1>6. ASSUME Upgrade PROVE worker' \in WorkerType
  <2>1. worker.hits # {} => Min(worker.hits) \in Nat  BY <1>0, MinIn DEF WorkerType
  <2>2. CASE worker.hits = {}  BY <1>0, <1>6, <2>2, UpgradeForms DEF WorkerType
  <2>3. CASE worker.hits # {}
    <3>1. PICK m \in Nat : \/ worker' = [worker EXCEPT !.hits = @ \ {m}, !.batch = @ \cup {m}]
                           \/ worker' = [worker EXCEPT !.hits = @ \ {m}]
      BY <1>6, <2>1, <2>3, UpgradeForms
    <3>2. worker.hits \ {m} \in SUBSET Nat /\ worker.batch \cup {m} \in SUBSET Nat
      BY <1>0 DEF WorkerType
    <3>3. PICK h \in SUBSET Nat, b \in SUBSET Nat :
             \/ worker' = [worker EXCEPT !.hits = h, !.batch = b]
             \/ worker' = [worker EXCEPT !.hits = h]
      BY <3>1, <3>2
    <3> QED BY <1>0, <3>3 DEF WorkerType
  <2> QED BY <2>2, <2>3
<1>7. ASSUME Handle PROVE worker' \in WorkerType
  BY <1>0, <1>7 DEF Handle, GoTo, WorkerType
<1>8. ASSUME Save PROVE worker' \in WorkerType
  BY <1>0, <1>8, Records DEF Save, WorkerType
<1>9. ASSUME Panic PROVE worker' \in WorkerType
  <2>1. PICK elapsed \in BOOLEAN :
            worker' = IF restart_budget_ok(worker.restarts, elapsed).ok
                      THEN [worker EXCEPT !.at = "loop", !.batch = {},
                                !.cursor = worker.committed,
                                !.restarts = restart_budget_ok(worker.restarts, elapsed).restarts]
                      ELSE NoWorker
    BY <1>9, Zenon DEF Panic
  <2>2. restart_budget_ok(worker.restarts, elapsed).restarts \in Nat
    BY <1>0 DEF restart_budget_ok, WorkerType
  <2> QED BY <1>0, <2>1, <2>2, Records DEF WorkerType
<1>10. ASSUME worker' = NoWorker PROVE worker' \in WorkerType  BY <1>10, Records
<1>11. ASSUME Crash PROVE worker' \in WorkerType  BY <1>11, Records DEF Crash
<1> QED
  BY <1>0, <1>1, <1>2, <1>3, <1>4, <1>5, <1>6, <1>7, <1>8, <1>9, <1>10, <1>11, WorkerFrame, Zenon

\* The checkpoint and the histories keep their types.
LEMMA HistoryTypeStep ==
    ASSUME TypeOK, [Next]_vars
    PROVE  ckpt' \in CursorType /\ handled' \in SUBSET Nat /\ dropped' \in SUBSET Nat
<1>0. /\ ckpt \in CursorType /\ worker.cursor \in CursorType
      /\ handled \in SUBSET Nat /\ dropped \in SUBSET Nat
      /\ worker.hits \in SUBSET Nat /\ worker.batch \in SUBSET Nat
  BY DEF TypeOK, WorkerType
<1>1. CASE Upgrade
  <2>1. worker.hits # {} => Min(worker.hits) \in Nat  BY <1>0, MinIn
  <2> QED BY <1>0, <1>1, <2>1 DEF Upgrade
<1>2. CASE Handle
  <2>1. worker.batch # {} => Min(worker.batch) \in Nat  BY <1>0, MinIn
  <2> QED BY <1>0, <1>2, <2>1 DEF Handle
<1>3. CASE Save  BY <1>0, <1>3 DEF Save
<1>4. CASE Crash  BY <1>0, <1>4 DEF Crash
<1>5. CASE UNCHANGED <<ckpt, handled, dropped>>  BY <1>0, <1>5
<1>6. Upgrade \/ Handle \/ Save \/ Crash \/ UNCHANGED <<ckpt, handled, dropped>>
  BY DEF Next, vars, SignalStep, SwapStep, WorkerStep, Write, BeginFence, CommitFence,
     CancelFence, Bump, Notify, Broadcast, SwapClear, SwapPublish, SwapRestore, Spawn, Loop,
     Snapshot, Poll, Park, Stop, Timeout, Error, SaveFails, Panic, Receive
<1> QED BY <1>1, <1>2, <1>3, <1>4, <1>5, <1>6

-----------------------------------------------------------------------------
(* The subscriber.                                                         *)

\* The steps that touch the subscriber.
LEMMA SubscriberFrame ==
    ASSUME [Next]_vars
    PROVE  Broadcast \/ (\E n \in {1, 2} : Receive(n)) \/ Crash \/ UNCHANGED subscriber
BY DEF Next, vars, SignalStep, SwapStep, WorkerStep, Write, BeginFence, CommitFence,
   CancelFence, Bump, Notify, SwapClear, SwapPublish, SwapRestore, Spawn, Loop, Snapshot, Poll,
   Upgrade, Park, Handle, Save, Stop, Timeout, Error, SaveFails, Panic

\* The broadcast keeps the type of the subscriber.
LEMMA OfferStep ==
    ASSUME NEW sub \in SubscriberType, NEW s \in Nat, sub.open
    PROVE  Offer(sub, s) \in SubscriberType
<1>1. sub.queue \in Seq(Nat) /\ sub.due \in Seq(Nat)  BY DEF SubscriberType
<1>2. Append(sub.queue, s) \in Seq(Nat) /\ Append(sub.due, s) \in Seq(Nat)
  BY <1>1
<1>3. CASE Len(sub.queue) < Capacity  BY <1>2, <1>3 DEF Offer, SubscriberType
<1>4. CASE ~(Len(sub.queue) < Capacity)
  <2>1. Offer(sub, s) = [sub EXCEPT !.due = Append(@, s), !.open = FALSE]  BY <1>4 DEF Offer
  <2> QED BY <1>2, <2>1, Zenon DEF SubscriberType
<1> QED BY <1>3, <1>4

\* Receiving keeps the type of the subscriber.
LEMMA ReceiveType ==
    ASSUME subscriber \in SubscriberType, NEW n \in {1, 2}, Receive(n)
    PROVE  subscriber' \in SubscriberType
<1> DEFINE q == subscriber.queue
           short == Len(q) < n
           taken == IF short THEN q ELSE SubSeq(q, 1, n)
<1>1. q \in Seq(Nat) /\ subscriber.got \in Seq(Nat) /\ Len(q) \in Nat  BY DEF SubscriberType
<1>2. taken \in Seq(Nat) /\ Len(taken) \in Nat /\ Len(taken) <= Len(q)  BY <1>1
<1>3. SubSeq(q, Len(taken) + 1, Len(q)) \in Seq(Nat)  BY <1>1, <1>2
<1>4. subscriber.got \o taken \in Seq(Nat)  BY <1>1, <1>2
<1>5. subscriber' = [subscriber EXCEPT
                        !.queue = SubSeq(q, Len(taken) + 1, Len(q)),
                        !.got = IF short /\ ~subscriber.open THEN @ ELSE @ \o taken]
  BY Zenon DEF Receive
<1> HIDE DEF taken, short
<1> QED BY <1>1, <1>3, <1>4, <1>5 DEF SubscriberType

\* The subscriber keeps its type.
LEMMA SubscriberTypeStep == ASSUME TypeOK, [Next]_vars PROVE subscriber' \in SubscriberType
<1>0. subscriber \in SubscriberType /\ writer.broadcast \in SUBSET Nat  BY DEF TypeOK, WriterType
<1>1. ASSUME Broadcast PROVE subscriber' \in SubscriberType
  <2>1. writer.broadcast # {} => Min(writer.broadcast) \in Nat  BY <1>0, MinIn
  <2> QED BY <1>0, <1>1, <2>1, OfferStep DEF Broadcast
<1>2. ASSUME Crash PROVE subscriber' \in SubscriberType  BY <1>2, Records DEF Crash
<1> QED BY <1>0, <1>1, <1>2, SubscriberFrame, ReceiveType, Zenon

\* Every step keeps the types.
LEMMA TypeStep == ASSUME TypeOK, [Next]_vars PROVE TypeOK'
BY LogTypeStep, FlagTypeStep, WriterTypeStep, WorkerTypeStep, HistoryTypeStep,
   SubscriberTypeStep, BudgetTypeStep, Zenon DEF TypeOK


\* The types of the fields.
LEMMA Types ==
    ASSUME TypeOK
    PROVE  /\ Len(log) \in Nat /\ visible \in Nat /\ cancelled \in SUBSET Nat
           /\ handled \in SUBSET Nat /\ dropped \in SUBSET Nat
           /\ worker.hits \in SUBSET Nat /\ worker.batch \in SUBSET Nat /\ worker.bound \in Nat
           /\ ckpt \in CursorType /\ worker.cursor \in CursorType /\ worker.committed \in CursorType
           /\ ckpt.position \in Nat /\ worker.cursor.position \in Nat
           /\ worker.committed.position \in Nat
<1>1. /\ log \in Seq(BOOLEAN) /\ worker \in WorkerType /\ ckpt \in CursorType
      /\ visible \in Nat /\ cancelled \in SUBSET Nat
      /\ handled \in SUBSET Nat /\ dropped \in SUBSET Nat
  BY Zenon DEF TypeOK
<1>2. Len(log) \in Nat  BY <1>1
<1>3. /\ worker.hits \in SUBSET Nat /\ worker.batch \in SUBSET Nat /\ worker.bound \in Nat
      /\ worker.cursor \in CursorType /\ worker.committed \in CursorType
  BY <1>1 DEF WorkerType
<1>4. \A c \in CursorType : c.position \in Nat  BY DEF CursorType
<1> QED BY <1>1, <1>2, <1>3, <1>4, Zenon

\* The log keeps its events and grows, events become visible or hidden for good,
\* and the worker holds what it held.
LEMMA Grows ==
    ASSUME DeliveryInv, TypeOK', Len(log) <= Len(log'),
           \A s \in Sequences0 : log'[s + 1] = log[s + 1],
           visible <= visible', visible' <= Len(log'),
           cancelled \subseteq cancelled', \A s \in cancelled' : s < Len(log'),
           worker'.cursor = worker.cursor, worker'.committed = worker.committed,
           worker'.hits = worker.hits, worker'.batch = worker.batch,
           UNCHANGED <<ckpt, handled, dropped>>
    PROVE  WithinLog' /\ TakenBehind' /\ CursorsOK' /\ InOrder'
<1>0. /\ Len(log) \in Nat /\ Len(log') \in Nat /\ visible \in Nat /\ visible' \in Nat
      /\ handled \in SUBSET Nat /\ dropped \in SUBSET Nat
      /\ worker.hits \in SUBSET Nat /\ worker.batch \in SUBSET Nat
      /\ ckpt.position \in Nat /\ worker.cursor.position \in Nat /\ worker.committed.position \in Nat
  <2>1. Len(log') \in Nat /\ visible' \in Nat  BY DEF TypeOK
  <2> QED BY <2>1, Types DEF DeliveryInv
<1>1. WithinLog'
  <2>1. \A s \in handled \cup dropped : s < Len(log')  BY <1>0 DEF DeliveryInv, WithinLog
  <2>2. InLog(ckpt)' /\ InLog(worker.cursor)' /\ InLog(worker.committed)'
    BY <1>0 DEF DeliveryInv, WithinLog, InLog
  <2> QED BY <2>1, <2>2 DEF WithinLog
<1>2. TakenBehind'
  BY <1>0 DEF DeliveryInv, TakenBehind, Taken, After
<1>3. ASSUME NEW c, NEW pending, c.position \in Nat, InLog(c), PassedOnly(c, pending)
      PROVE  \A s \in Sequences0' \ cancelled' :
                InRegion(s)' /\ ~After(c, s) => Delivered(s)' \/ s \in pending
  BY <1>0, <1>3 DEF PassedOnly, Sequences0, InLog, After, InRegion, Delivered
<1>4. Taken' = Taken  BY DEF Taken
<1>5. CursorsOK'
  <2>1. PassedOnly(ckpt, {})' BY <1>0, <1>3 DEF DeliveryInv, CursorsOK, WithinLog, PassedOnly, After
  <2>2. PassedOnly(worker.committed, {})'
    BY <1>0, <1>3 DEF DeliveryInv, CursorsOK, WithinLog, PassedOnly, After
  <2>3. PassedOnly(worker.cursor, Taken)'
    BY <1>0, <1>3, <1>4 DEF DeliveryInv, CursorsOK, WithinLog, PassedOnly, After
  <2> QED BY <2>1, <2>2, <2>3 DEF CursorsOK
<1>6. InOrder'
  <2> SUFFICES ASSUME NEW s \in handled, NEW r \in Sequences0' \ cancelled', r < s, InRegion(r)'
               PROVE  r \in handled \cup dropped
    BY Zenon DEF InOrder, Delivered
  <2>1. r \in Sequences0 /\ r \notin cancelled
    BY <1>0 DEF DeliveryInv, WithinLog, Sequences0
  <2>2. InRegion(r)  BY <2>1, Zenon DEF InRegion
  <2> QED BY <2>1, <2>2, Zenon DEF DeliveryInv, InOrder, Delivered
<1> QED BY <1>1, <1>2, <1>5, <1>6

NoWorkerFacts == /\ NoWorker.at = "stopped" /\ NoWorker.hits = {} /\ NoWorker.batch = {}
                 /\ NoWorker.cursor = NotStarted /\ NoWorker.committed = NotStarted
                 /\ NotStarted.started = FALSE
\* A worker that is not there holds nothing and has passed nothing.
LEMMA NoWorkerHolds == NoWorkerFacts  BY DEF NoWorkerFacts, NoWorker, NotStarted

\* The worker is gone, and with it, if the process has ended, the end of the log;
\* the checkpoint is still behind what is left.
LEMMA WorkerGone ==
    ASSUME DeliveryInv, TypeOK', worker' = NoWorker, ckpt' = ckpt, InLog(ckpt)',
           Len(log') <= Len(log), \A s \in Sequences0' : log'[s + 1] = log[s + 1],
           visible' <= Len(log'),
           cancelled' = {s \in cancelled : s < Len(log')},
           handled' = {s \in handled : s < Len(log')},
           dropped' = {s \in dropped : s < Len(log')}
    PROVE  WithinLog' /\ AtOK' /\ TakenBehind' /\ CursorsOK' /\ InOrder'
<1>0. /\ Len(log) \in Nat /\ Len(log') \in Nat /\ visible' \in Nat
      /\ cancelled \in SUBSET Nat /\ handled \in SUBSET Nat /\ dropped \in SUBSET Nat
      /\ ckpt.position \in Nat
  <2>1. Len(log') \in Nat /\ visible' \in Nat  BY DEF TypeOK
  <2> QED BY <2>1, Types DEF DeliveryInv
<1>1. /\ worker'.at = "stopped" /\ worker'.hits = {} /\ worker'.batch = {}
      /\ worker'.cursor = NotStarted /\ worker'.committed = NotStarted
      /\ NotStarted.started = FALSE
  BY NoWorkerHolds DEF NoWorkerFacts
<1>2. WithinLog'  BY <1>0, <1>1 DEF WithinLog, InLog
<1>3. AtOK' /\ TakenBehind'  BY <1>1 DEF AtOK, TakenBehind, Taken
<1>4. PassedOnly(ckpt, {})'
  BY <1>0 DEF DeliveryInv, CursorsOK, PassedOnly, Sequences0, InRegion, After, Delivered
<1>5. PassedOnly(worker.committed, {})' /\ PassedOnly(worker.cursor, Taken)'
  BY <1>1 DEF PassedOnly, After
<1>6. InOrder'
  BY <1>0 DEF DeliveryInv, InOrder, Sequences0, InRegion, Delivered
<1> QED BY <1>2, <1>3, <1>4, <1>5, <1>6 DEF CursorsOK

\* The worker is gone and the process goes on.
LEMMA WorkerGoneAlone ==
    ASSUME DeliveryInv, TypeOK', worker' = NoWorker, UNCHANGED <<gateVars, ckpt, handled, dropped>>
    PROVE  WithinLog' /\ AtOK' /\ TakenBehind' /\ CursorsOK' /\ InOrder'
<1>1. log' = log /\ visible' = visible /\ cancelled' = cancelled  BY DEF gateVars
<1>2. InLog(ckpt)'  BY <1>1 DEF DeliveryInv, WithinLog, InLog
<1>3. /\ cancelled' = {s \in cancelled : s < Len(log')} /\ handled' = {s \in handled : s < Len(log')}
      /\ dropped' = {s \in dropped : s < Len(log')}
  BY <1>1 DEF DeliveryInv, WithinLog
<1>4. Len(log') <= Len(log) /\ visible' <= Len(log')  BY <1>1, Types DEF DeliveryInv, WithinLog
<1>5. \A s \in Sequences0' : log'[s + 1] = log[s + 1]  BY <1>1
<1> QED BY <1>2, <1>3, <1>4, <1>5, WorkerGone

\* The process ends: what the checkpoint has passed was handled.
LEMMA CrashStep ==
    ASSUME DeliveryInv, TypeOK', Crash, InLog(ckpt)'
    PROVE  WithinLog' /\ AtOK' /\ TakenBehind' /\ CursorsOK' /\ InOrder'
<1>1. PICK kept \in 0 .. Len(log) :
           /\ log' = SubSeq(log, 1, kept) /\ visible' = kept
           /\ cancelled' = {s \in cancelled : s < kept}
           /\ handled' = {s \in handled : s < kept} /\ dropped' = {s \in dropped : s < kept}
  BY Zenon DEF Crash
<1>2. Len(log) \in Nat /\ log \in Seq(BOOLEAN)  BY DEF DeliveryInv, TypeOK
<1>4. Len(log') = kept /\ \A i \in 1 .. kept : log'[i] = log[i]
  BY <1>1, <1>2
<1>5. \A s \in Sequences0' : log'[s + 1] = log[s + 1]  BY <1>2, <1>4 DEF Sequences0
<1>6. worker' = NoWorker /\ ckpt' = ckpt  BY DEF Crash
<1>7. Len(log') <= Len(log) /\ visible' <= Len(log')  BY <1>1, <1>2, <1>4
<1> QED BY <1>1, <1>4, <1>5, <1>6, <1>7, WorkerGone

\* A worker starts from the checkpoint.
LEMMA SpawnStep ==
    ASSUME DeliveryInv, Spawn
    PROVE  WithinLog' /\ AtOK' /\ TakenBehind' /\ CursorsOK' /\ InOrder'
<1>1. /\ worker'.at = "loop" /\ worker'.hits = {} /\ worker'.batch = {}
      /\ worker'.cursor = ckpt /\ worker'.committed = ckpt
  BY NoWorkerHolds DEF Spawn, NoWorkerFacts, NoWorker
<1>2. UNCHANGED <<log, visible, cancelled, ckpt, handled, dropped>>  BY DEF Spawn, gateVars
<1>3. WithinLog'  BY <1>1, <1>2 DEF DeliveryInv, WithinLog, InLog
<1>4. AtOK' /\ TakenBehind'  BY <1>1 DEF AtOK, TakenBehind, Taken
<1>5. CursorsOK'
  BY <1>1, <1>2 DEF DeliveryInv, CursorsOK, PassedOnly, Sequences0, InRegion, After, Delivered, Taken
<1>6. InOrder'  BY <1>2 DEF DeliveryInv, InOrder, Sequences0, InRegion, Delivered
<1> QED BY <1>3, <1>4, <1>5, <1>6

\* The worker's place and bookkeeping change, and nothing else: what it holds
\* keeps to its cursor.
LEMMA WorkerMoves ==
    ASSUME DeliveryInv, UNCHANGED <<log, visible, cancelled, ckpt, handled, dropped>>,
           InLog(worker'.cursor), InLog(worker'.committed),
           PassedOnly(worker'.committed, {}), PassedOnly(worker'.cursor, Taken')
    PROVE  WithinLog' /\ CursorsOK' /\ InOrder'
<1>1. WithinLog'  BY DEF DeliveryInv, WithinLog, InLog
<1>2. CursorsOK'
  BY DEF DeliveryInv, CursorsOK, PassedOnly, Sequences0, InRegion, After, Delivered
<1>3. InOrder'  BY DEF DeliveryInv, InOrder, Sequences0, InRegion, Delivered
<1> QED BY <1>1, <1>2, <1>3

\* A query leaves out no event of the region below its last hit.
LEMMA HitsComplete ==
    ASSUME TypeOK, NEW cursor, NEW bound,
           NEW m \in query_hits_after(cursor, bound), NEW s \in Sequences0,
           InRegion(s), s < bound, s \notin cancelled, After(cursor, s), s < m
    PROVE  s \in query_hits_after(cursor, bound)
<1> DEFINE candidates == {r \in Sequences0 : /\ InRegion(r)
                                             /\ r < bound /\ r \notin cancelled
                                             /\ After(cursor, r)}
           Below(x) == {r \in candidates : r < x}
<1>1. Len(log) \in Nat /\ Sequences0 \subseteq Int  BY Types DEF Sequences0
<1>2. m \in candidates /\ Cardinality(Below(m)) < batch_size  BY Zenon DEF query_hits_after
<1>3. s \in candidates  BY Zenon
<1>4. IsFiniteSet(Below(m)) /\ Below(m) \subseteq Sequences0
  <2>1. IsFiniteSet(Sequences0)  BY <1>1, FS_Interval DEF Sequences0
  <2>2. Below(m) \subseteq Sequences0  OBVIOUS
  <2> QED BY <2>1, <2>2, FS_Subset, Zenon
<1>5. Below(s) \subseteq Below(m)
  <2>1. candidates \subseteq Int /\ m \in Int /\ s \in Int  BY <1>1, <1>2
  <2>2. ASSUME NEW r \in candidates, r < s PROVE r < m
    <3> HIDE DEF candidates
    <3> QED BY <2>1, <2>2
  <2> QED BY <2>2
<1>6. IsFiniteSet(Below(s)) /\ Cardinality(Below(s)) <= Cardinality(Below(m))
  BY <1>4, <1>5, FS_Subset, Zenon
<1>7. Cardinality(Below(s)) \in Nat /\ Cardinality(Below(m)) \in Nat
  BY <1>4, <1>6, FS_CardinalityType, Zenon
<1>8. Cardinality(Below(s)) < batch_size
  <2> HIDE DEF Below
  <2> QED BY <1>2, <1>6, <1>7, DeliveryAssumption
<1> QED BY <1>3, <1>8, Zenon DEF query_hits_after

\* A poll: what its cursor passes it holds.
LEMMA PollStep ==
    ASSUME DeliveryInv, Poll
    PROVE  WithinLog' /\ AtOK' /\ TakenBehind' /\ CursorsOK' /\ InOrder'
<1> DEFINE hits == query_hits_after(worker.cursor, worker.bound)
           c == [position |-> Max(hits), started |-> TRUE]
<1>0. /\ Len(log) \in Nat /\ visible \in Nat /\ worker.bound \in Nat /\ worker \in WorkerType
      /\ worker.cursor.position \in Nat
      /\ worker.hits = {} /\ worker.batch = {} /\ worker.bound <= visible
  <2>1. worker.at = "query" BY DEF Poll
  <2>2. worker \in WorkerType  BY DEF DeliveryInv, TypeOK
  <2> QED BY <2>1, <2>2, Types DEF DeliveryInv, AtOK
<1>1. UNCHANGED <<log, visible, cancelled, ckpt, handled, dropped>>  BY DEF Poll, gateVars
<1>2. worker' = IF hits = {} THEN [worker EXCEPT !.at = "park", !.bound = 0]
                ELSE [worker EXCEPT !.at = "upgrade", !.bound = 0, !.hits = hits, !.cursor = c]
  BY Zenon DEF Poll
<1>3. CASE hits = {}
  <2>1. /\ worker'.at = "park" /\ worker'.hits = {} /\ worker'.batch = {}
        /\ worker'.cursor = worker.cursor /\ worker'.committed = worker.committed
    BY <1>0, <1>2, <1>3 DEF WorkerType
  <2>2. Taken' = Taken  BY <1>0, <2>1 DEF Taken
  <2>3. AtOK' /\ TakenBehind'  BY <1>0, <2>1 DEF AtOK, TakenBehind, Taken
  <2> QED BY <1>1, <2>1, <2>2, <2>3, WorkerMoves DEF DeliveryInv, CursorsOK, WithinLog
<1>4. CASE hits # {}
  <2>1. /\ worker'.at = "upgrade" /\ worker'.hits = hits /\ worker'.batch = {}
        /\ worker'.cursor = c /\ worker'.committed = worker.committed
    <3> HIDE DEF hits, c
    <3> QED BY <1>0, <1>2, <1>4 DEF WorkerType
  <2>2. \A s \in hits : /\ s \in Sequences0 /\ s \in Nat /\ s < Len(log) /\ s < worker.bound
    BY HitsFacts, Zenon DEF DeliveryInv
  <2>3. Max(hits) \in hits /\ \A s \in hits : s <= Max(hits)
    <3>1. hits \in SUBSET (0 .. Len(log))  BY <1>0, <2>2
    <3>2. Max(hits) \in hits /\ \A s \in hits : Max(hits) >= s
      <4> HIDE DEF hits
      <4> QED BY <1>0, <1>4, <3>1, MaxIn
    <3> QED BY <2>2, <3>2
  <2>4. c.position = Max(hits) /\ c.started  OBVIOUS
  <2>5. Taken' = hits  BY <2>1 DEF Taken
  <2>6. AtOK'  BY <2>1 DEF AtOK
  <2>7. TakenBehind'
    <3>1. \A s \in hits : s < visible /\ ~After(c, s)
      <4> HIDE DEF hits, c
      <4> QED BY <1>0, <2>2, <2>3, <2>4 DEF After
    <3> QED BY <1>1, <2>1, <2>5, <3>1, Zenon DEF TakenBehind, After
  <2>8. InLog(c)
    <3> HIDE DEF hits, c
    <3> QED BY <2>2, <2>3, <2>4 DEF InLog
  <2>9. PassedOnly(c, hits)
    <3> SUFFICES ASSUME NEW s \in Sequences0 \ cancelled, InRegion(s), ~After(c, s)
                 PROVE  Delivered(s) \/ s \in hits
      BY Zenon DEF PassedOnly
    <3>1. s \in Int /\ s <= Max(hits)
      <4> HIDE DEF hits, c
      <4> QED BY <1>0, <2>2, <2>3, <2>4 DEF After, Sequences0
    <3>2. CASE ~After(worker.cursor, s)
      BY <1>0, <3>2 DEF DeliveryInv, CursorsOK, PassedOnly, Taken
    <3>3. CASE After(worker.cursor, s)
      <4>1. CASE s = Max(hits)  BY <2>3, <4>1, Zenon
      <4>2. CASE s # Max(hits)
        <5>1. s < Max(hits) /\ s < worker.bound
          <6> HIDE DEF hits
          <6> QED BY <1>0, <2>2, <2>3, <3>1, <4>2
        <5> QED BY <2>3, <3>3, <5>1, HitsComplete, Zenon DEF DeliveryInv
      <4> QED BY <4>1, <4>2
    <3> QED BY <3>2, <3>3
  <2>10. InLog(worker.committed) /\ PassedOnly(worker.committed, {})
    BY DEF DeliveryInv, WithinLog, CursorsOK
  <2> HIDE DEF hits, c
  <2> QED BY <1>1, <2>1, <2>5, <2>6, <2>7, <2>8, <2>9, <2>10, WorkerMoves
<1> QED BY <1>3, <1>4

\* upgrade_hit: a hit goes into the batch, or is dropped for good.
LEMMA UpgradeStep ==
    ASSUME DeliveryInv, Upgrade
    PROVE  WithinLog' /\ AtOK' /\ TakenBehind' /\ CursorsOK' /\ InOrder'
<1> DEFINE m == Min(worker.hits)
<1>0. /\ Len(log) \in Nat /\ visible \in Nat /\ worker \in WorkerType
      /\ worker.hits \in SUBSET Nat /\ worker.batch \in SUBSET Nat /\ worker.at = "upgrade"
      /\ visible <= Len(log)
  <2>1. worker \in WorkerType /\ worker.at = "upgrade"  BY DEF DeliveryInv, TypeOK, Upgrade
  <2> QED BY <2>1, Types DEF DeliveryInv, WithinLog
<1>1. UNCHANGED <<log, visible, cancelled, ckpt, handled>>  BY DEF Upgrade, gateVars
<1>2. /\ InLog(worker.cursor) /\ InLog(worker.committed)
      /\ PassedOnly(worker.committed, {}) /\ PassedOnly(worker.cursor, Taken)
  BY DEF DeliveryInv, WithinLog, CursorsOK
<1>3. CASE worker.hits = {}
  <2>1. /\ dropped' = dropped /\ worker'.hits = {} /\ worker'.batch = worker.batch
        /\ worker'.cursor = worker.cursor /\ worker'.committed = worker.committed
        /\ \/ worker.batch = {} /\ worker'.at = "park"
           \/ worker'.at = "handle"
    BY <1>0, <1>3, UpgradeForms DEF WorkerType
  <2>2. Taken' = Taken  BY <1>3, <2>1 DEF Taken
  <2>3. AtOK'  BY <2>1 DEF AtOK
  <2>4. TakenBehind'  BY <1>1, <2>1, <2>2 DEF DeliveryInv, TakenBehind, After
  <2> QED BY <1>1, <1>2, <2>1, <2>2, <2>3, <2>4, WorkerMoves
<1>4. ASSUME worker.hits # {}, dropped' = dropped,
             worker' = [worker EXCEPT !.hits = @ \ {m}, !.batch = @ \cup {m}]
      PROVE  WithinLog' /\ AtOK' /\ TakenBehind' /\ CursorsOK' /\ InOrder'
  <2>1. m \in worker.hits  BY <1>0, <1>4, MinIn
  <2> HIDE DEF m
  <2>2. /\ worker'.at = "upgrade"
        /\ worker'.hits = worker.hits \ {m} /\ worker'.batch = worker.batch \cup {m}
        /\ worker'.cursor = worker.cursor /\ worker'.committed = worker.committed
    BY <1>0, <1>4 DEF WorkerType
  <2>3. Taken' = Taken  BY <2>1, <2>2 DEF Taken
  <2>4. AtOK'  BY <2>2 DEF AtOK
  <2>5. TakenBehind'  BY <1>1, <2>2, <2>3 DEF DeliveryInv, TakenBehind, After
  <2> QED BY <1>1, <1>2, <1>4, <2>2, <2>3, <2>4, <2>5, WorkerMoves
<1>5. ASSUME worker.hits # {}, ~Upgradable(m), worker' = [worker EXCEPT !.hits = @ \ {m}],
             dropped' = IF swapping = "no" THEN dropped ELSE dropped \cup {m}
      PROVE  WithinLog' /\ AtOK' /\ TakenBehind' /\ CursorsOK' /\ InOrder'
  <2>1. m \in worker.hits  BY <1>0, <1>5, MinIn
  <2> HIDE DEF m
  <2>2. /\ worker'.at = "upgrade"
        /\ worker'.hits = worker.hits \ {m} /\ worker'.batch = worker.batch
        /\ worker'.cursor = worker.cursor /\ worker'.committed = worker.committed
    BY <1>0, <1>5 DEF WorkerType
  <2>3. AtOK'  BY <2>2 DEF AtOK
  <2>4. Taken' \subseteq Taken /\ Taken \subseteq Taken' \cup {m} /\ m \in Taken
    BY <2>1, <2>2 DEF Taken
  <2>5. TakenBehind'  BY <1>1, <2>2, <2>4 DEF DeliveryInv, TakenBehind, After
  <2>6. m < visible  BY <2>4 DEF DeliveryInv, TakenBehind
  <2>7. m \in cancelled \/ m \in dropped'  BY <1>5, <2>6 DEF Upgradable, IsVisible
  <2>8. dropped \subseteq dropped' /\ dropped' \subseteq dropped \cup {m}  BY <1>5
  <2>9. WithinLog'
    <3>1. m < Len(log)  BY <1>0, <2>1, <2>6
    <3> QED BY <1>1, <2>2, <2>8, <3>1 DEF DeliveryInv, WithinLog, InLog
  <2>10. CursorsOK'
    <3>1. \A s \in Sequences0 : Delivered(s) => Delivered(s)'  BY <1>1, <2>8 DEF Delivered
    <3>2. PassedOnly(ckpt, {})' /\ PassedOnly(worker.committed, {})'
      BY <1>1, <2>2, <3>1 DEF DeliveryInv, CursorsOK, PassedOnly, Sequences0, InRegion, After
    <3>3. PassedOnly(worker.cursor, Taken)'
      BY <1>1, <1>2, <2>2, <2>4, <2>7, <3>1 DEF PassedOnly, Sequences0, InRegion, After, Delivered
    <3> QED BY <3>2, <3>3 DEF CursorsOK
  <2>11. InOrder'  BY <1>1, <2>8 DEF DeliveryInv, InOrder, Sequences0, InRegion, Delivered
  <2> QED BY <2>3, <2>5, <2>9, <2>10, <2>11
<1> QED BY <1>3, <1>4, <1>5, UpgradeForms, Zenon

\* The handler takes the batch, in the order of the journal.
LEMMA HandleStep ==
    ASSUME DeliveryInv, Handle
    PROVE  WithinLog' /\ AtOK' /\ TakenBehind' /\ CursorsOK' /\ InOrder'
<1> DEFINE m == Min(worker.batch)
<1>0. /\ Len(log) \in Nat /\ visible \in Nat /\ worker \in WorkerType
      /\ worker.batch \in SUBSET Nat /\ worker.at = "handle" /\ worker.hits = {}
      /\ visible <= Len(log) /\ worker.cursor.position \in Nat
  <2>1. worker \in WorkerType /\ worker.at = "handle"  BY DEF DeliveryInv, TypeOK, Handle
  <2> QED BY <2>1, Types DEF DeliveryInv, WithinLog, AtOK
<1>1. UNCHANGED <<log, visible, cancelled, ckpt, dropped>>  BY DEF Handle, gateVars
<1>2. /\ InLog(worker.cursor) /\ InLog(worker.committed)
      /\ PassedOnly(worker.committed, {}) /\ PassedOnly(worker.cursor, Taken)
  BY DEF DeliveryInv, WithinLog, CursorsOK
<1>3. CASE worker.batch = {}
  <2>1. /\ handled' = handled /\ worker'.hits = {} /\ worker'.batch = {} /\ worker'.at = "save"
        /\ worker'.cursor = worker.cursor /\ worker'.committed = worker.committed
    BY <1>0, <1>3 DEF Handle, GoTo, WorkerType
  <2>2. Taken' = Taken  BY <1>0, <1>3, <2>1 DEF Taken
  <2>3. AtOK' /\ TakenBehind'  BY <2>1 DEF AtOK, TakenBehind, Taken
  <2> QED BY <1>1, <1>2, <2>1, <2>2, <2>3, WorkerMoves
<1>4. CASE worker.batch # {}
  <2>1. m \in worker.batch /\ \A r \in worker.batch : m <= r  BY <1>0, <1>4, MinIn
  <2>2. handled' = handled \cup {m} /\ worker' = [worker EXCEPT !.batch = @ \ {m}]
    BY <1>4, Zenon DEF Handle
  <2> HIDE DEF m
  <2>3. /\ worker'.at = "handle"
        /\ worker'.hits = {} /\ worker'.batch = worker.batch \ {m}
        /\ worker'.cursor = worker.cursor /\ worker'.committed = worker.committed
    BY <1>0, <2>2 DEF WorkerType
  <2>4. AtOK'  BY <2>3 DEF AtOK
  <2>5. Taken = worker.batch /\ Taken' = worker.batch \ {m}  BY <1>0, <2>3 DEF Taken
  <2>6. TakenBehind'  BY <1>1, <2>3, <2>5 DEF DeliveryInv, TakenBehind, After
  <2>7. m < visible /\ ~After(worker.cursor, m) /\ m \in Nat
    BY <1>0, <2>1, <2>5 DEF DeliveryInv, TakenBehind
  <2>8. WithinLog'
    <3>1. m < Len(log)  BY <1>0, <2>7
    <3> QED BY <1>1, <2>2, <2>3, <3>1 DEF DeliveryInv, WithinLog, InLog
  <2>9. CursorsOK'
    <3>1. \A s \in Sequences0 : Delivered(s) => Delivered(s)'  BY <1>1, <2>2 DEF Delivered
    <3>2. PassedOnly(ckpt, {})' /\ PassedOnly(worker.committed, {})'
      BY <1>1, <2>3, <3>1 DEF DeliveryInv, CursorsOK, PassedOnly, Sequences0, InRegion, After
    <3>3. PassedOnly(worker.cursor, Taken)'
      BY <1>1, <1>2, <2>2, <2>3, <2>5, <3>1
      DEF PassedOnly, Sequences0, InRegion, After, Delivered
    <3> QED BY <3>2, <3>3 DEF CursorsOK
  <2>10. \A r \in Sequences0 \ cancelled : r < m /\ InRegion(r) => Delivered(r)
    <3> SUFFICES ASSUME NEW r \in Sequences0 \ cancelled, r < m, InRegion(r)
                 PROVE  Delivered(r)
      OBVIOUS
    <3>1. r \in Nat  BY <1>0 DEF Sequences0
    <3>2. ~After(worker.cursor, r)  BY <1>0, <2>7, <3>1 DEF After
    <3>3. r \notin worker.batch  BY <2>1, <2>7, <3>1
    <3> QED BY <1>2, <2>5, <3>2, <3>3 DEF PassedOnly
  <2>11. InOrder'
    BY <1>1, <2>2, <2>10 DEF DeliveryInv, InOrder, Sequences0, InRegion, Delivered
  <2> QED BY <2>4, <2>6, <2>8, <2>9, <2>11
<1> QED BY <1>3, <1>4

\* The checkpoint follows a cursor whose batch was handled.
LEMMA SaveStep ==
    ASSUME DeliveryInv, TypeOK', Save
    PROVE  WithinLog' /\ AtOK' /\ TakenBehind' /\ CursorsOK' /\ InOrder'
<1>0. worker \in WorkerType /\ worker.at = "save" /\ worker.hits = {} /\ worker.batch = {}
  <2>1. worker \in WorkerType /\ worker.at = "save"  BY DEF DeliveryInv, TypeOK, Save
  <2> QED BY <2>1 DEF DeliveryInv, AtOK
<1>1. UNCHANGED <<log, visible, cancelled, handled, dropped>> /\ ckpt' = worker.cursor
  BY DEF Save, gateVars
<1>2. /\ InLog(worker.cursor) /\ Taken = {} /\ PassedOnly(worker.cursor, {})
  BY <1>0 DEF DeliveryInv, WithinLog, CursorsOK, Taken
<1>3. /\ worker'.at \in {"stopped", "loop"} /\ worker'.hits = {} /\ worker'.batch = {}
      /\ \/ worker'.cursor = NotStarted /\ worker'.committed = NotStarted
         \/ worker'.cursor = worker.cursor /\ worker'.committed = worker.cursor
  BY <1>0, NoWorkerHolds DEF Save, NoWorkerFacts, WorkerType
<1>4. NotStarted.started = FALSE  BY NoWorkerHolds DEF NoWorkerFacts
<1>5. AtOK' /\ TakenBehind' /\ Taken' = {}  BY <1>3 DEF AtOK, TakenBehind, Taken
<1>6. WithinLog'  BY <1>1, <1>2, <1>3, <1>4 DEF DeliveryInv, WithinLog, InLog
<1>7. CursorsOK'
  BY <1>1, <1>2, <1>3, <1>4, <1>5
  DEF CursorsOK, PassedOnly, Sequences0, InRegion, After, Delivered
<1>8. InOrder'  BY <1>1 DEF DeliveryInv, InOrder, Sequences0, InRegion, Delivered
<1> QED BY <1>5, <1>6, <1>7, <1>8

\* A panic, an error or a failed save: the worker goes back to what it committed.
LEMMA PanicStep ==
    ASSUME DeliveryInv, TypeOK', Panic
    PROVE  WithinLog' /\ AtOK' /\ TakenBehind' /\ CursorsOK' /\ InOrder'
<1>1. UNCHANGED <<gateVars, ckpt, handled, dropped>>
      /\ UNCHANGED <<log, visible, cancelled, ckpt, handled, dropped>>
  BY DEF Panic, gateVars
<1>2. CASE worker' = NoWorker  BY <1>1, <1>2, WorkerGoneAlone
<1>3. CASE worker' # NoWorker
  <2>1. worker \in WorkerType /\ worker.at = "handle" /\ worker.hits = {}
    <3>1. worker \in WorkerType /\ worker.at = "handle"  BY DEF DeliveryInv, TypeOK, Panic
    <3> QED BY <3>1 DEF DeliveryInv, AtOK
  <2>2. PICK n : worker' = [worker EXCEPT !.at = "loop", !.batch = {},
                                          !.cursor = worker.committed, !.restarts = n]
    BY <1>3, Zenon DEF Panic
  <2>3. /\ worker'.at = "loop" /\ worker'.hits = {} /\ worker'.batch = {}
        /\ worker'.cursor = worker.committed /\ worker'.committed = worker.committed
    BY <2>1, <2>2 DEF WorkerType
  <2>4. AtOK' /\ TakenBehind' /\ Taken' = {}  BY <2>3 DEF AtOK, TakenBehind, Taken
  <2>5. InLog(worker.committed) /\ PassedOnly(worker.committed, {})
    BY DEF DeliveryInv, WithinLog, CursorsOK
  <2> QED BY <1>1, <2>3, <2>4, <2>5, WorkerMoves
<1> QED BY <1>2, <1>3

\* What a fence staged is in the log.
LEMMA StagedInLog == ASSUME DeliveryInv PROVE \A s \in Staged : s < Len(log)
BY Types DEF DeliveryInv, Staged

\* What the writer and the swap do to the gate: the log grows, and what is
\* published or cancelled is in it.
LEMMA GateGrows ==
    ASSUME DeliveryInv, [Next]_vars, ~Crash
    PROVE  /\ Len(log) <= Len(log') /\ \A s \in Sequences0 : log'[s + 1] = log[s + 1]
           /\ visible <= visible' /\ visible' <= Len(log')
           /\ cancelled \subseteq cancelled' /\ \A s \in cancelled' : s < Len(log')
<1> DEFINE Goal == /\ Len(log) <= Len(log') /\ \A s \in Sequences0 : log'[s + 1] = log[s + 1]
                   /\ visible <= visible' /\ visible' <= Len(log')
                   /\ cancelled \subseteq cancelled' /\ \A s \in cancelled' : s < Len(log')
<1>0. /\ Len(log) \in Nat /\ visible \in Nat /\ visible <= Len(log) /\ log \in Seq(BOOLEAN)
      /\ cancelled \in SUBSET Nat /\ \A s \in cancelled : s < Len(log)
  <2>1. log \in Seq(BOOLEAN)  BY DEF DeliveryInv, TypeOK
  <2> QED BY <2>1, Types DEF DeliveryInv, WithinLog
<1>1. ASSUME NEW w \in Writes, Write(w) PROVE Goal
  <2>1. w \in Seq(BOOLEAN) /\ Len(w) \in Nat  BY WritesType DEF DeliveryInv
  <2>2. Len(log') = Len(log) + Len(w) /\ \A i \in 1 .. Len(log) : log'[i] = log[i]
    BY <1>0, <1>1, <2>1 DEF Write
  <2>3. \A s \in Sequences0 : log'[s + 1] = log[s + 1]  BY <1>0, <2>2 DEF Sequences0
  <2>4. visible' = visible \/ visible' = Len(log')  BY <1>1 DEF Write, publish
  <2>5. cancelled' = cancelled  BY <1>1 DEF Write
  <2> QED BY <1>0, <2>1, <2>2, <2>3, <2>4, <2>5
<1>2. ASSUME CommitFence \/ SwapPublish PROVE Goal
  <2>1. log' = log /\ cancelled' = cancelled /\ (visible' = visible \/ visible' = Len(log))
    BY <1>2 DEF CommitFence, SwapPublish, publish
  <2> QED BY <1>0, <2>1
<1>3. ASSUME CancelFence PROVE Goal
  BY <1>0, <1>3, StagedInLog DEF CancelFence
<1>4. ASSUME BeginFence \/ SwapClear \/ UNCHANGED gateVars PROVE Goal
  <2>1. log' = log /\ visible' = visible /\ cancelled' = cancelled
    BY <1>4 DEF BeginFence, SwapClear, gateVars
  <2> QED BY <1>0, <2>1
<1> HIDE DEF Goal
<1>5. Goal  BY <1>1, <1>2, <1>3, <1>4, GateFrame, Zenon
<1> QED BY <1>5 DEF Goal

\* Wakes, waits and snapshots change the worker's place only.
LEMMA PlaceStep ==
    ASSUME DeliveryInv, [Next]_vars, ~Crash,
           Notify \/ SwapPublish \/ Loop \/ Snapshot \/ Park \/ Timeout \/ UNCHANGED worker
    PROVE  /\ AtOK'
           /\ worker'.cursor = worker.cursor /\ worker'.committed = worker.committed
           /\ worker'.hits = worker.hits /\ worker'.batch = worker.batch
<1>0. worker \in WorkerType /\ visible \in Nat /\ visible' \in Nat /\ worker.bound \in Nat
      /\ visible <= visible'
  <2>1. worker \in WorkerType  BY DEF DeliveryInv, TypeOK
  <2>2. visible' \in Nat  BY LogTypeStep DEF DeliveryInv
  <2> QED BY <2>1, <2>2, Types, GateGrows DEF DeliveryInv
<1>1. CASE UNCHANGED worker  BY <1>0, <1>1 DEF DeliveryInv, AtOK
<1>2. CASE Notify \/ SwapPublish
  <2>1. worker' = worker \/ (worker.at = "parked" /\ worker' = [worker EXCEPT !.at = "loop"])
    BY <1>2 DEF Notify, SwapPublish, Woken
  <2>2. CASE worker' = worker  BY <1>1, <2>2
  <2>3. CASE worker.at = "parked" /\ worker' = [worker EXCEPT !.at = "loop"]
    <3>1. /\ worker'.at = "loop"
          /\ worker'.cursor = worker.cursor /\ worker'.committed = worker.committed
          /\ worker'.hits = worker.hits /\ worker'.batch = worker.batch
      BY <1>0, <2>3 DEF WorkerType
    <3> QED BY <2>3, <3>1 DEF DeliveryInv, AtOK
  <2> QED BY <2>1, <2>2, <2>3
<1>3. CASE Loop \/ Park \/ Timeout
  <2>1. /\ worker.at \in {"loop", "park", "parked"} /\ worker'.at \in {"snapshot", "parked", "loop"}
        /\ worker'.cursor = worker.cursor /\ worker'.committed = worker.committed
        /\ worker'.hits = worker.hits /\ worker'.batch = worker.batch
    BY <1>0, <1>3 DEF Loop, Park, Timeout, GoTo, WorkerType
  <2> QED BY <2>1 DEF DeliveryInv, AtOK
<1>4. CASE Snapshot
  <2>1. /\ worker.at = "snapshot" /\ worker'.at = "query" /\ worker'.bound = visible
        /\ worker'.cursor = worker.cursor /\ worker'.committed = worker.committed
        /\ worker'.hits = worker.hits /\ worker'.batch = worker.batch
    BY <1>0, <1>4 DEF Snapshot, WorkerType
  <2> QED BY <1>0, <2>1 DEF DeliveryInv, AtOK
<1> QED BY <1>1, <1>2, <1>3, <1>4

\* The invariant holds first.
LEMMA DeliveryInit == Init => DeliveryInv
<1> SUFFICES ASSUME Init PROVE DeliveryInv  OBVIOUS
<1>1. Len(log) = 0 /\ visible = 0 /\ cancelled = {} /\ handled = {} /\ dropped = {}
  BY DEF Init
<1>2. /\ worker.at = "loop" /\ worker.hits = {} /\ worker.batch = {}
      /\ worker.cursor = NotStarted /\ worker.committed = NotStarted /\ ckpt = NotStarted
      /\ NotStarted.started = FALSE
  BY DEF Init, NoWorker, NotStarted
<1>3. Sequences0 = {}  BY <1>1 DEF Sequences0
<1>4. WithinLog  BY <1>1, <1>2 DEF WithinLog, InLog
<1>5. AtOK /\ TakenBehind  BY <1>2 DEF AtOK, TakenBehind, Taken
<1>6. CursorsOK /\ InOrder  BY <1>1, <1>3 DEF CursorsOK, PassedOnly, InOrder
<1> QED BY <1>4, <1>5, <1>6, TypeInit DEF DeliveryInv

\* Every step keeps the invariant, but for the end of a process that leaves the
\* checkpoint ahead of the log.
LEMMA DeliveryNext == ASSUME DeliveryInv, [Next]_vars, InLog(ckpt)' PROVE DeliveryInv'
<1> DEFINE Goal == WithinLog' /\ AtOK' /\ TakenBehind' /\ CursorsOK' /\ InOrder'
<1>0. TypeOK'  BY TypeStep DEF DeliveryInv
<1>1. ASSUME ~Crash, UNCHANGED <<ckpt, handled, dropped>>,
             Notify \/ SwapPublish \/ Loop \/ Snapshot \/ Park \/ Timeout \/ UNCHANGED worker
      PROVE  Goal
  <2>1. /\ AtOK' /\ worker'.cursor = worker.cursor /\ worker'.committed = worker.committed
        /\ worker'.hits = worker.hits /\ worker'.batch = worker.batch
    BY <1>1, PlaceStep, Zenon
  <2> QED BY <1>0, <1>1, <2>1, GateGrows, Grows
<1>2. ASSUME worker' = NoWorker /\ UNCHANGED <<gateVars, ckpt, handled, dropped>> PROVE Goal
  BY <1>0, <1>2, WorkerGoneAlone
<1>3. \/ UNCHANGED <<ckpt, handled, dropped>>
      \/ Upgrade \/ Handle \/ Save \/ Crash
  BY DEF Next, vars, SignalStep, SwapStep, WorkerStep, Write, BeginFence, CommitFence,
     CancelFence, Bump, Notify, Broadcast, SwapClear, SwapPublish, SwapRestore, Spawn, Loop,
     Snapshot, Poll, Park, Stop, Timeout, Error, SaveFails, Panic, Receive
<1> HIDE DEF Goal
<1>4. Goal
  <2>1. CASE Crash  BY <1>0, <2>1, CrashStep DEF Goal
  <2>2. CASE Upgrade \/ Handle \/ Poll \/ Spawn
    BY <2>2, UpgradeStep, HandleStep, PollStep, SpawnStep DEF Goal
  <2>3. CASE Save \/ Panic  BY <1>0, <2>3, SaveStep, PanicStep DEF Goal
  <2> QED BY <1>1, <1>2, <1>3, <2>1, <2>2, <2>3, WorkerFrame, Zenon
<1> QED BY <1>0, <1>4 DEF DeliveryInv, Goal

\* Where the end of the process takes no event with it, no checkpoint is ever
\* ahead of the log.
LEMMA NothingLost == ASSUME DeliveryInv, [Next]_vars, LostTail = 0 PROVE InLog(ckpt)'
<1>0. Len(log) \in Nat /\ log \in Seq(BOOLEAN) /\ InLog(ckpt) /\ InLog(worker.cursor)
      /\ ckpt.position \in Nat /\ worker.cursor.position \in Nat
  <2>1. log \in Seq(BOOLEAN)  BY DEF DeliveryInv, TypeOK
  <2> QED BY <2>1, Types DEF DeliveryInv, WithinLog
<1>1. CASE Crash
  <2>1. PICK kept \in 0 .. Len(log) : Len(log) - kept <= LostTail /\ log' = SubSeq(log, 1, kept)
    BY <1>1, Zenon DEF Crash
  <2>2. kept = Len(log) /\ Len(log') = kept  BY <1>0, <2>1
  <2>3. ckpt' = ckpt  BY <1>1 DEF Crash
  <2> QED BY <1>0, <2>2, <2>3 DEF InLog
<1>2. CASE ~Crash
  <2>1. Len(log) <= Len(log') /\ Len(log') \in Nat
    <3>1. Len(log') \in Nat  BY LogTypeStep DEF DeliveryInv
    <3> QED BY <1>2, <3>1, GateGrows
  <2>2. ckpt' = ckpt \/ ckpt' = worker.cursor
    BY <1>2 DEF Next, vars, SignalStep, SwapStep, WorkerStep, Write, BeginFence, CommitFence,
       CancelFence, Bump, Notify, Broadcast, SwapClear, SwapPublish, SwapRestore, Spawn, Loop,
       Snapshot, Poll, Park, Stop, Timeout, Error, SaveFails, Panic, Receive, Upgrade, Handle, Save
  <2> QED BY <1>0, <2>1, <2>2 DEF InLog
<1> QED BY <1>1, <1>2

\* What the invariant is for.
LEMMA InvImplies == DeliveryInv => NothingSkipped /\ InOrder
BY DEF DeliveryInv, CursorsOK, PassedOnly, NothingSkipped

\* Across errors, panics, failed saves and ends of the process, the checkpoint has
\* passed no event of the region that was not handled, and the handler met none
\* before an earlier one, as long as the end of a process never leaves the
\* checkpoint ahead of the log (Cursor::poll_batch; CursorWorkerLoop::handle_action,
\* handle_panic).
THEOREM CheckpointSkipsNothing == Spec /\ []InLog(ckpt) => [](NothingSkipped /\ InOrder)
<1>1. Init => DeliveryInv  BY DeliveryInit
<1>2. DeliveryInv /\ [Next]_vars /\ InLog(ckpt)' => DeliveryInv'  BY DeliveryNext
<1> QED BY <1>1, <1>2, InvImplies, PTL DEF Spec

\* Where every append is synced, so that the end of a process takes no event with
\* it, delivery is at least once: the checkpoint has passed no event of the region
\* that was not handled (CursorWorkerLoop::handle_action, handle_panic).
THEOREM AtLeastOnce == ASSUME LostTail = 0 PROVE Spec => []NothingSkipped
<1>1. Init => DeliveryInv  BY DeliveryInit
<1>2. DeliveryInv /\ [Next]_vars => DeliveryInv'  BY DeliveryNext, NothingLost
<1> QED BY <1>1, <1>2, InvImplies, PTL DEF Spec

\* There too the handler meets no event before an earlier one of the region that
\* it does not get, whatever fences commit or cancel meanwhile
\* (Cursor::poll_batch, StoreIndex::upgrade_hit).
THEOREM HandledInOrder == ASSUME LostTail = 0 PROVE Spec => []InOrder
<1>1. Init => DeliveryInv  BY DeliveryInit
<1>2. DeliveryInv /\ [Next]_vars => DeliveryInv'  BY DeliveryNext, NothingLost
<1> QED BY <1>1, <1>2, InvImplies, PTL DEF Spec

-----------------------------------------------------------------------------
(* The subscriber.                                                         *)

\* The broadcast adds to what is due and to the channel, or closes the channel.
LEMMA OfferKeeps ==
    ASSUME subscriber \in SubscriberType, StreamOK, subscriber.open, NEW s \in Nat,
           subscriber' = Offer(subscriber, s)
    PROVE  StreamOK'
<1> DEFINE g == subscriber.got  q == subscriber.queue  d == subscriber.due
<1>0. /\ g \in Seq(Nat) /\ q \in Seq(Nat) /\ d \in Seq(Nat)
      /\ Len(g) \in Nat /\ Len(q) \in Nat /\ Len(d) \in Nat
  BY DEF SubscriberType
<1>l. Len(g) + Len(q) = Len(d)  BY DEF StreamOK
<1>1. /\ Len(g) + Len(q) = Len(d)
      /\ \A i \in 1 .. Len(g) : d[i] = g[i]
      /\ \A i \in 1 .. Len(q) : d[Len(g) + i] = q[i]
  BY DEF StreamOK
<1>2. /\ subscriber'.got = g /\ subscriber'.due = Append(d, s)
      /\ \/ subscriber'.queue = Append(q, s)
         \/ subscriber'.queue = q /\ ~subscriber'.open
  <2>1. CASE Len(q) < Capacity
    <3>1. subscriber' = [subscriber EXCEPT !.due = Append(@, s), !.queue = Append(@, s)]
      BY <2>1, Zenon DEF Offer
    <3> QED BY <3>1 DEF SubscriberType
  <2>2. CASE ~(Len(q) < Capacity)
    <3>1. subscriber' = [subscriber EXCEPT !.due = Append(@, s), !.open = FALSE]
      BY <2>2, Zenon DEF Offer
    <3> QED BY <3>1 DEF SubscriberType
  <2> QED BY <2>1, <2>2
<1>3. /\ Len(Append(d, s)) = Len(d) + 1 /\ Len(Append(q, s)) = Len(q) + 1
      /\ \A i \in 1 .. Len(d) : Append(d, s)[i] = d[i]
      /\ \A i \in 1 .. Len(q) : Append(q, s)[i] = q[i]
      /\ Append(d, s)[Len(d) + 1] = s /\ Append(q, s)[Len(q) + 1] = s
  BY <1>0
<1> HIDE DEF g, q, d
<1>4. CASE subscriber'.queue = Append(q, s)
  <2>1. \A i \in 1 .. Len(g) : Append(d, s)[i] = g[i]  BY <1>0, <1>1, <1>3
  <2>2. \A i \in 1 .. Len(q) + 1 : Append(d, s)[Len(g) + i] = Append(q, s)[i]
    <3> SUFFICES ASSUME NEW i \in 1 .. Len(q) + 1
                 PROVE  Append(d, s)[Len(g) + i] = Append(q, s)[i]
      OBVIOUS
    <3>1. CASE i = Len(q) + 1
      <4>1. Len(g) + i = Len(d) + 1  BY <1>0, <1>1, <3>1
      <4> QED BY <1>3, <3>1, <4>1
    <3>2. CASE i # Len(q) + 1
      <4>1. Len(q) \in Nat  BY <1>0
      <4>2. i \in 1 .. Len(q)  BY <3>2, <4>1
      <4>3. Len(g) + i \in 1 .. Len(d)  BY <1>0, <1>l, <4>2
      <4> QED BY <1>1, <1>3, <4>2, <4>3
    <3> QED BY <3>1, <3>2
  <2>3. /\ Len(subscriber'.got) = Len(g) /\ Len(subscriber'.queue) = Len(q) + 1
        /\ Len(g) + (Len(q) + 1) = Len(subscriber'.due)
    BY <1>0, <1>l, <1>2, <1>3, <1>4
  <2>4. Len(g) + (Len(q) + 1) <= Len(subscriber'.due)  BY <1>0, <2>3
  <2>5. subscriber'.got = g /\ subscriber'.due = Append(d, s)  BY <1>2, Zenon
  <2>6. \A i \in 1 .. Len(subscriber'.got) : subscriber'.due[i] = subscriber'.got[i]
    BY <2>1, <2>5, Zenon
  <2>7. Len(subscriber'.queue) = Len(q) + 1  BY <2>3, Zenon
  <2>8. \A i \in 1 .. Len(subscriber'.queue) :
              subscriber'.due[Len(subscriber'.got) + i] = subscriber'.queue[i]
    BY <1>4, <2>2, <2>5, <2>7, Zenon
  <2> QED BY <2>3, <2>4, <2>6, <2>8, Zenon DEF StreamOK
<1>5. CASE subscriber'.queue = q /\ ~subscriber'.open
  <2>1. \A i \in 1 .. Len(g) : Append(d, s)[i] = g[i]  BY <1>0, <1>1, <1>3
  <2>2. ASSUME NEW i \in 1 .. Len(q) PROVE Append(d, s)[Len(g) + i] = q[i]
    <3>1. Len(g) + i \in 1 .. Len(d)  BY <1>0, <1>1
    <3> QED BY <1>1, <1>3, <3>1
  <2>3. /\ Len(subscriber'.got) = Len(g) /\ Len(subscriber'.queue) = Len(q)
        /\ Len(g) + Len(q) <= Len(subscriber'.due)
    BY <1>0, <1>l, <1>2, <1>3, <1>5
  <2>4. subscriber'.got = g /\ subscriber'.due = Append(d, s)  BY <1>2, Zenon
  <2>5. \A i \in 1 .. Len(subscriber'.got) : subscriber'.due[i] = subscriber'.got[i]
    BY <2>1, <2>4, Zenon
  <2>6. \A i \in 1 .. Len(subscriber'.queue) :
              subscriber'.due[Len(subscriber'.got) + i] = subscriber'.queue[i]
    BY <1>5, <2>2, <2>4, Zenon
  <2> QED BY <1>5, <2>3, <2>5, <2>6, Zenon DEF StreamOK
<1> QED BY <1>2, <1>4, <1>5

\* Receiving moves the beginning of the channel to the end of what was got.
LEMMA ReceiveKeeps ==
    ASSUME subscriber \in SubscriberType, StreamOK, NEW n \in {1, 2}, Receive(n)
    PROVE  StreamOK'
<1> DEFINE g == subscriber.got  q == subscriber.queue  d == subscriber.due
           short == Len(q) < n
           taken == IF short THEN q ELSE SubSeq(q, 1, n)
           rest == SubSeq(q, Len(taken) + 1, Len(q))
<1>0. /\ g \in Seq(Nat) /\ q \in Seq(Nat) /\ d \in Seq(Nat)
      /\ Len(g) \in Nat /\ Len(q) \in Nat /\ Len(d) \in Nat
  BY DEF SubscriberType
<1>1. /\ Len(g) + Len(q) <= Len(d) /\ (subscriber.open => Len(g) + Len(q) = Len(d))
      /\ \A i \in 1 .. Len(g) : d[i] = g[i]
      /\ \A i \in 1 .. Len(q) : d[Len(g) + i] = q[i]
  BY DEF StreamOK
<1>2. /\ taken \in Seq(Nat) /\ Len(taken) \in 0 .. Len(q) /\ (short => Len(taken) = Len(q))
      /\ \A i \in 1 .. Len(taken) : taken[i] = q[i]
  BY <1>0
<1>3. /\ rest \in Seq(Nat) /\ Len(rest) = Len(q) - Len(taken)
      /\ \A i \in 1 .. Len(rest) : rest[i] = q[Len(taken) + i]
  <2> HIDE DEF taken
  <2> QED BY <1>0, <1>2
<1>4. subscriber' = [subscriber EXCEPT !.queue = rest,
                        !.got = IF short /\ ~subscriber.open THEN @ ELSE @ \o taken]
  BY Zenon DEF Receive
<1> HIDE DEF g, q, d, taken, short, rest
<1>5. /\ subscriber'.due = d /\ subscriber'.queue = rest /\ subscriber'.open = subscriber.open
      /\ \/ short /\ ~subscriber.open /\ subscriber'.got = g
         \/ subscriber'.got = g \o taken
  BY <1>4 DEF SubscriberType, g, d
<1>6. CASE short /\ ~subscriber.open /\ subscriber'.got = g
  BY <1>0, <1>1, <1>2, <1>3, <1>5, <1>6 DEF StreamOK
<1>7. CASE subscriber'.got = g \o taken
  <2>1. /\ Len(g \o taken) = Len(g) + Len(taken)
        /\ \A i \in 1 .. Len(g) + Len(taken) :
               (g \o taken)[i] = IF i <= Len(g) THEN g[i] ELSE taken[i - Len(g)]
    BY <1>0, <1>2
  <2>2. \A i \in 1 .. Len(g) + Len(taken) : d[i] = (g \o taken)[i]
    <3> SUFFICES ASSUME NEW i \in 1 .. Len(g) + Len(taken) PROVE d[i] = (g \o taken)[i]
      OBVIOUS
    <3>1. CASE i <= Len(g)
      <4>1. i \in 1 .. Len(g)  BY <1>0, <1>2, <3>1
      <4>2. (g \o taken)[i] = g[i]  BY <2>1, <3>1
      <4> QED BY <1>1, <4>1, <4>2
    <3>2. CASE ~(i <= Len(g))
      <4>1. i - Len(g) \in 1 .. Len(taken) /\ i - Len(g) \in 1 .. Len(q) /\ Len(g) + (i - Len(g)) = i
        BY <1>0, <1>2, <3>2
      <4>2. d[i] = q[i - Len(g)] /\ taken[i - Len(g)] = q[i - Len(g)]  BY <1>1, <1>2, <4>1
      <4>3. (g \o taken)[i] = taken[i - Len(g)]  BY <2>1, <3>2
      <4> QED BY <4>2, <4>3
    <3> QED BY <3>1, <3>2
  <2>3. \A i \in 1 .. Len(rest) : d[Len(g \o taken) + i] = rest[i]
    <3> SUFFICES ASSUME NEW i \in 1 .. Len(rest) PROVE d[Len(g \o taken) + i] = rest[i]
      OBVIOUS
    <3>1. Len(taken) + i \in 1 .. Len(q) /\ Len(g) + (Len(taken) + i) = Len(g \o taken) + i
      BY <1>0, <1>2, <1>3, <2>1
    <3> QED BY <1>1, <1>3, <3>1
  <2>4. Len(g \o taken) + Len(rest) = Len(g) + Len(q)  BY <1>0, <1>2, <1>3, <2>1
  <2> QED BY <1>1, <1>5, <1>7, <2>1, <2>2, <2>3, <2>4 DEF StreamOK
<1> QED BY <1>5, <1>6, <1>7

\* Nothing is due first.
LEMMA StreamInit == Init => StreamOK
<1> SUFFICES ASSUME subscriber = Subscribed PROVE StreamOK  BY DEF Init
<1> QED BY DEF Subscribed, StreamOK

\* Every step keeps the stream of the subscriber.
LEMMA StreamNext == ASSUME TypeOK, StreamOK, [Next]_vars PROVE StreamOK'
<1>0. subscriber \in SubscriberType /\ writer.broadcast \in SUBSET Nat  BY DEF TypeOK, WriterType
<1>1. ASSUME Broadcast PROVE StreamOK'
  <2>1. writer.broadcast # {} => Min(writer.broadcast) \in Nat  BY <1>0, MinIn
  <2>2. \/ subscriber' = subscriber
        \/ /\ writer.broadcast # {} /\ subscriber.open
           /\ subscriber' = Offer(subscriber, Min(writer.broadcast))
    BY <1>1, Zenon DEF Broadcast
  <2>3. CASE subscriber' = subscriber  BY <2>3 DEF StreamOK
  <2> QED BY <1>0, <2>1, <2>2, <2>3, OfferKeeps
<1>2. ASSUME Crash PROVE StreamOK'
  <2>1. subscriber' = Subscribed  BY <1>2 DEF Crash
  <2> QED BY <2>1 DEF Subscribed, StreamOK
<1>3. ASSUME UNCHANGED subscriber PROVE StreamOK'  BY <1>3 DEF StreamOK
<1> QED BY <1>0, <1>1, <1>2, <1>3, SubscriberFrame, ReceiveKeeps, Zenon

\* What the invariant says as a statement about sequences.
LEMMA StreamIsPrefix == ASSUME TypeOK, StreamOK PROVE SubscriberNoGaps
<1> DEFINE g == subscriber.got  q == subscriber.queue  d == subscriber.due  s == g \o q
<1>0. /\ g \in Seq(Nat) /\ q \in Seq(Nat) /\ d \in Seq(Nat)
      /\ Len(g) \in Nat /\ Len(q) \in Nat /\ Len(d) \in Nat
  BY DEF TypeOK, SubscriberType
<1>1. /\ Len(g) + Len(q) <= Len(d)
      /\ \A i \in 1 .. Len(g) : d[i] = g[i]
      /\ \A i \in 1 .. Len(q) : d[Len(g) + i] = q[i]
  BY DEF StreamOK
<1> HIDE DEF g, q, d
<1>2. /\ s \in Seq(Nat) /\ Len(s) = Len(g) + Len(q)
      /\ \A i \in 1 .. Len(g) + Len(q) : s[i] = IF i <= Len(g) THEN g[i] ELSE q[i - Len(g)]
  BY <1>0
<1>3. \A i \in 1 .. Len(s) : s[i] = d[i]
  <2> SUFFICES ASSUME NEW i \in 1 .. Len(s) PROVE s[i] = d[i]
    OBVIOUS
  <2>1. CASE i <= Len(g)  BY <1>0, <1>1, <1>2, <2>1
  <2>2. CASE ~(i <= Len(g))
    <3>1. i - Len(g) \in 1 .. Len(q) /\ Len(g) + (i - Len(g)) = i  BY <1>0, <1>2, <2>2
    <3>2. d[i] = q[i - Len(g)]  BY <1>1, <3>1
    <3> QED BY <1>2, <2>2, <3>2
  <2> QED BY <2>1, <2>2
<1> HIDE DEF s
<1>4. s = SubSeq(d, 1, Len(s)) /\ Len(s) <= Len(d)
  BY <1>0, <1>1, <1>2, <1>3
<1> QED BY <1>4, Zenon DEF SubscriberNoGaps, s, g, q, d

\* A subscriber too slow for its channel loses the end of the stream, never a part
\* of the middle: what it has got and what waits for it is a prefix of what was
\* broadcast (FilteredSubscriberList::broadcast, Subscription::recv).
THEOREM SubscriberStreamWhole == Spec => []SubscriberNoGaps
<1>1. Init => TypeOK /\ StreamOK  BY TypeInit, StreamInit
<1>2. TypeOK /\ StreamOK /\ [Next]_vars => TypeOK' /\ StreamOK'  BY TypeStep, StreamNext
<1>3. TypeOK /\ StreamOK => SubscriberNoGaps  BY StreamIsPrefix
<1> QED BY <1>1, <1>2, <1>3, PTL DEF Spec
=============================================================================
