---------------------------- MODULE StreamProofs ----------------------------
(***************************************************************************)
(* Proofs about Stream: no cursor a client was sent has an undelivered     *)
(* event before it, whatever connections came between.                     *)
(***************************************************************************)
EXTENDS Stream, TLAPS, FiniteSetTheorems

-----------------------------------------------------------------------------
(* The inductive invariant.                                                *)

SessionType ==
    [at : {"closed", "poll", "query", "requery", "watermark", "rewatermark", "wait"},
     phase : {"Ended", "Replaying", "Live"}, scan : Nat, sent : Seq(Nat), last_acked : Nat,
     watermarked : Nat,
     terminal : {"none", "ack_invalid", "client_cancel", "malformed_control"}, bound : Nat]
FrameTypes == {"delivery", "ack_invalid", "client_cancel", "malformed_control",
               "receipt_decode_failed", "slow_consumer"}
FrameType == [type : FrameTypes, index : Nat, cursor : Nat, event : BOOLEAN]
ControlType == [type : {"ack", "cancel", "disconnected", "malformed"}, index : Nat, cursor : Nat]
ClientType == [open : BOOLEAN, count : Nat, last : Nat, cursors : SUBSET Nat, got : SUBSET Nat]

TypeOK ==
    /\ kind \in Kinds
    /\ log \in Seq({"match", "near", "bad", "other"})
    /\ published = Len(log) /\ visible_hlc \in 0 .. published
    /\ session \in SessionType /\ control \in Seq(ControlType) /\ down \in Seq(FrameType)
    /\ client \in ClientType /\ late \in SUBSET Nat

\* Deliveries are numbered in the order they are sent.
IndexOK ==
    session.at # "closed" /\ client.open =>
        /\ client.count <= Len(session.sent)
        /\ \A i \in 1 .. Len(down) : down[i].index <= Len(session.sent)

\* An event on its way to the client, in the first n frames.
Sent(n, s) == \E j \in 1 .. n : down[j].event /\ down[j].cursor = s

\* Every event of the stream up to a cursor is the client's, in one of the first
\* n frames on their way to it, or was passed by a watermark.
Covered(cursor, n) ==
    /\ cursor <= published
    /\ \A s \in 1 .. cursor : Wanted(s) => s \in client.got \/ s \in late \/ Sent(n, s)

\* What the client has may be resumed from.
CursorsOK == client.last \in client.cursors \cup {0} /\ \A c \in client.cursors : Covered(c, 0)

\* So may what it is about to get, in order.
FramesOK ==
    \A i \in 1 .. Len(down) :
        /\ down[i].type = "delivery" => Covered(down[i].cursor, i)
        /\ down[i].event => down[i].type = "delivery"

\* The session of a client that is still there has passed nothing, and may be
\* set back to any of its deliveries.
SessionOK ==
    session.at # "closed" /\ client.open =>
        /\ Covered(session.scan, Len(down))
        /\ \A i \in 1 .. Len(session.sent) : Covered(session.sent[i], Len(down))

\* Between a scan that found nothing and its watermark.
BoundOK ==
    session.at \in {"watermark", "rewatermark"} =>
        /\ session.bound <= published
        /\ \A s \in session.scan + 1 .. session.bound : ~Wanted(s)

StreamInv == TypeOK /\ IndexOK /\ CursorsOK /\ FramesOK /\ SessionOK /\ BoundOK
-----------------------------------------------------------------------------
(* Least and greatest elements.                                            *)

\* The least number of a set that has one is in it, below all others.
LEMMA MinIn ==
    ASSUME NEW S \in SUBSET Nat, S # {}
    PROVE  Min(S) \in S /\ \A x \in S : Min(S) <= x
<1> DEFINE Less == {ss \in Nat \X Nat : ss[1] < ss[2]}
<1>1. IsWellFoundedOn(Less, Nat)
  BY NatLessThanWellFounded, Zenon DEF OpToRel
<1>2. PICK x \in S : \A y \in S : ~(<<y, x>> \in Less)
  <2> HIDE DEF Less
  <2> QED BY <1>1, WFMin, Zenon
<1>3. ASSUME NEW y \in S PROVE x <= y
  <2>1. <<y, x>> \in Nat \X Nat /\ <<y, x>>[1] = y /\ <<y, x>>[2] = x  OBVIOUS
  <2>2. ~(y < x)  BY <1>2, <2>1, Zenon
  <2> QED BY <2>2
<1> QED BY <1>3 DEF Min

\* The greatest number of a bounded set that has one is in it, above all others.
LEMMA MaxIn ==
    ASSUME NEW n \in Nat, NEW S \in SUBSET (0 .. n), S # {}
    PROVE  Max(S) \in S /\ \A x \in S : Max(S) >= x
<1> DEFINE T == {n - x : x \in S}
<1>1. Min(T) \in T /\ \A y \in T : Min(T) <= y
  <2>1. \A x \in S : n - x \in Nat  OBVIOUS
  <2>2. T \in SUBSET Nat /\ T # {}  BY <2>1
  <2> QED BY <2>2, MinIn
<1>2. \E x \in S : \A y \in S : x >= y
  <2>1. PICK x \in S : Min(T) = n - x  BY <1>1
  <2>2. \A y \in S : n - y >= n - x  BY <1>1, <2>1
  <2> QED BY <2>2
<1> QED BY <1>2 DEF Max

-----------------------------------------------------------------------------
(* Draining the controls.                                                  *)

\* A recursion over the numbers up to n has a solution.
LEMMA DrainedDef ==
    ASSUME Len(control) \in Nat
    PROVE  /\ drained[0] = session
           /\ \A n \in 1 .. Len(control) : drained[n] = apply_control(control[n], drained[n - 1])
<1> DEFINE Body(g, n) == IF n = 0 THEN session ELSE apply_control(control[n], g[n - 1])
           Solved(n) == \E g : g = [i \in 0 .. n |-> Body(g, i)]
           Open == {n \in Nat : ~Solved(n)}
<1>1. ASSUME Open # {} PROVE FALSE
  <2>1. PICK m \in Open : \A n \in Open : m <= n
    <3>1. Open \in SUBSET Nat  OBVIOUS
    <3> HIDE DEF Open
    <3> QED BY <1>1, <3>1, MinIn
  <2>2. m # 0
    <3>1. [i \in 0 .. 0 |-> session] = [i \in 0 .. 0 |-> Body([j \in 0 .. 0 |-> session], i)]
      OBVIOUS
    <3>2. Solved(0)  BY <3>1
    <3> QED BY <3>2
  <2>3. m \in Nat /\ m - 1 \in Nat /\ m - 1 \notin Open
    <3>1. m \in Nat  OBVIOUS
    <3> HIDE DEF Open
    <3>2. m - 1 \in Nat  BY <2>2, <3>1
    <3> QED BY <2>1, <3>1, <3>2
  <2>4. PICK g : g = [i \in 0 .. m - 1 |-> Body(g, i)]  BY <2>3
  <2> DEFINE h == [i \in 0 .. m |-> IF i = m THEN Body(g, m) ELSE g[i]]
  <2>5. ASSUME NEW i \in 0 .. m PROVE h[i] = Body(h, i)
    <3>1. CASE i = 0
      <4>1. h[0] = g[0] /\ g[0] = Body(g, 0)  BY <2>2, <2>3, <2>4
      <4> QED BY <3>1, <4>1
    <3>2. CASE i # 0
      <4>1. i - 1 \in 0 .. m /\ i - 1 # m  BY <2>3, <3>2
      <4>2. h[i - 1] = g[i - 1]  BY <4>1
      <4>3. h[i] = Body(g, i)
        <5>1. CASE i = m  BY <5>1
        <5>2. CASE i # m
          <6>1. i \in 0 .. m - 1  BY <2>3, <5>2
          <6>2. g[i] = Body(g, i)  BY <2>4, <6>1
          <6> QED BY <5>2, <6>2
        <5> QED BY <5>1, <5>2
      <4> QED BY <3>2, <4>2, <4>3
    <3> QED BY <3>1, <3>2
  <2>6. h = [i \in 0 .. m |-> Body(h, i)]  BY <2>5
  <2>7. Solved(m)  BY <2>6
  <2> QED BY <2>1, <2>7
<1>2. Solved(Len(control))  BY <1>1
<1>3. drained = CHOOSE g : g = [i \in 0 .. Len(control) |-> Body(g, i)]  BY DEF drained
<1>4. drained = [i \in 0 .. Len(control) |-> Body(drained, i)]
  <2> HIDE DEF Body
  <2> QED BY <1>2, <1>3
<1> QED BY <1>4

\* A session drained of its controls has the deliveries it had, and is set back to
\* one of them if at all.
After(s) ==
    /\ s \in SessionType
    /\ s.at = session.at /\ s.sent = session.sent
    /\ s.scan = session.scan \/ \E i \in 1 .. Len(session.sent) : s.scan = session.sent[i]

\* A session that is ended is where it was.
LEMMA EndKeeps ==
    ASSUME NEW s, After(s),
           NEW t \in {"none", "ack_invalid", "client_cancel", "malformed_control"}
    PROVE  After(End(s, t))
<1>1. s \in SessionType  BY DEF After
<1>2. /\ End(s, t) \in SessionType /\ End(s, t).at = s.at /\ End(s, t).sent = s.sent
      /\ End(s, t).scan = s.scan
  BY <1>1 DEF End, SessionType
<1> QED BY <1>2, Zenon DEF After

\* apply_control sets a session back to one of its deliveries, if at all.
LEMMA ControlKeeps ==
    ASSUME TypeOK, NEW s, After(s), NEW frame \in ControlType
    PROVE  After(apply_control(frame, s))
<1>1. s \in SessionType /\ frame.type \in {"ack", "cancel", "disconnected", "malformed"}
      /\ frame.index \in Nat /\ frame.cursor \in Nat
  BY DEF After, ControlType
<1>2. CASE frame.type = "ack"
  <2>1. apply_control(frame, s) = apply_ack(s, frame.index, frame.cursor)
    BY <1>2, Zenon DEF apply_control
  <2>2. CASE apply_ack(s, frame.index, frame.cursor) = End(s, "ack_invalid")
    BY <2>1, <2>2, EndKeeps
  <2>3. CASE /\ frame.index \in 1 .. Len(s.sent) /\ s.sent[frame.index] = frame.cursor
             /\ apply_ack(s, frame.index, frame.cursor)
                   = [s EXCEPT !.last_acked = frame.index,
                               !.scan = IF kind = "event" THEN @ ELSE frame.cursor]
    <3>1. \E i \in 1 .. Len(session.sent) : frame.cursor = session.sent[i]  BY <2>3 DEF After
    <3> DEFINE t == apply_ack(s, frame.index, frame.cursor)
    <3>2. /\ t \in SessionType /\ t.at = s.at /\ t.sent = s.sent
          /\ t.scan \in {s.scan, frame.cursor}
      <4> HIDE DEF t
      <4> QED BY <1>1, <2>3 DEF SessionType, t
    <3> HIDE DEF t
    <3>3. After(t)  BY <3>1, <3>2 DEF After
    <3> QED BY <2>1, <3>3 DEF t
  <2> QED BY <2>2, <2>3, Zenon DEF apply_ack
<1>3. CASE frame.type # "ack"
  <2>1. \/ apply_control(frame, s) = End(s, "client_cancel")
        \/ apply_control(frame, s) = End(s, "none")
        \/ apply_control(frame, s) = End(s, "malformed_control")
    BY <1>1, <1>3 DEF apply_control
  <2> QED BY <2>1, EndKeeps
<1> QED BY <1>2, <1>3

\* So do all the controls, one after the other.
LEMMA DrainKeeps == ASSUME TypeOK PROVE After(drain_control)
<1>0. Len(control) \in Nat /\ \A n \in 1 .. Len(control) : control[n] \in ControlType
  BY DEF TypeOK
<1> DEFINE Bad == {n \in 0 .. Len(control) : ~After(drained[n])}
<1>1. ASSUME Bad # {} PROVE FALSE
  <2>1. PICK m \in Bad : \A n \in Bad : m <= n
    <3>1. Bad \in SUBSET Nat  BY <1>0
    <3> HIDE DEF Bad
    <3> QED BY <1>1, <3>1, MinIn
  <2>2. m \in 0 .. Len(control) /\ ~After(drained[m])  OBVIOUS
  <2>3. After(drained[0])
    BY <1>0, DrainedDef DEF After, TypeOK
  <2>4. m \in 1 .. Len(control) /\ m - 1 \in 0 .. Len(control)
    <3>1. m # 0  BY <2>2, <2>3, Zenon
    <3> QED BY <1>0, <2>2, <3>1
  <2>5. After(drained[m - 1])
    <3>1. m - 1 \notin Bad
      <4> HIDE DEF Bad
      <4> QED BY <1>0, <2>1, <2>4
    <3> QED BY <2>4, <3>1
  <2>6. drained[m] = apply_control(control[m], drained[m - 1])  BY <1>0, <2>4, DrainedDef
  <2> QED BY <1>0, <2>2, <2>4, <2>5, <2>6, ControlKeeps, Zenon
<1> QED BY <1>0, <1>1 DEF drain_control

-----------------------------------------------------------------------------
(* Types.                                                                  *)

\* The types of the fields.
LEMMA Types ==
    ASSUME TypeOK
    PROVE  /\ published \in Nat /\ published = Len(log) /\ visible_hlc \in Nat
           /\ visible_hlc <= published
           /\ session.scan \in Nat /\ session.bound \in Nat /\ session.sent \in Seq(Nat)
           /\ Len(session.sent) \in Nat /\ \A i \in 1 .. Len(session.sent) : session.sent[i] \in Nat
           /\ Len(down) \in Nat /\ \A i \in 1 .. Len(down) : down[i] \in FrameType
           /\ client.last \in Nat /\ client.cursors \in SUBSET Nat /\ client.got \in SUBSET Nat
           /\ late \in SUBSET Nat
<1>1. /\ log \in Seq({"match", "near", "bad", "other"}) /\ published = Len(log)
      /\ visible_hlc \in 0 .. published /\ session \in SessionType /\ down \in Seq(FrameType)
      /\ client \in ClientType /\ late \in SUBSET Nat
  BY Zenon DEF TypeOK
<1>2. published \in Nat /\ visible_hlc \in Nat /\ visible_hlc <= published  BY <1>1
<1>3. session.scan \in Nat /\ session.bound \in Nat /\ session.sent \in Seq(Nat)
  BY <1>1 DEF SessionType
<1>4. client.last \in Nat /\ client.cursors \in SUBSET Nat /\ client.got \in SUBSET Nat
  BY <1>1 DEF ClientType
<1>5. Len(session.sent) \in Nat /\ \A i \in 1 .. Len(session.sent) : session.sent[i] \in Nat
  BY <1>3
<1>6. Len(down) \in Nat /\ \A i \in 1 .. Len(down) : down[i] \in FrameType  BY <1>1
<1> QED BY <1>1, <1>2, <1>3, <1>4, <1>5, <1>6, Zenon

\* A session that is over.
LEMMA NoSessionType == NoSession \in SessionType /\ NoSession.at = "closed"
BY DEF NoSession, SessionType

\* The steps that touch the journal.
LEMMA StoreFrame ==
    ASSUME [Next]_vars
    PROVE  \/ \E class \in Classes : Publish(class)
           \/ AdvanceVisible
           \/ UNCHANGED <<log, published, visible_hlc>>
BY DEF Next, vars, storeVars, WriterStep, SessionStep, ClientStep, Broadcast, Poll, ScanEmpty,
   ScanOn, ScanStop, ReadFails, Watermark, Wake, WaitEnds, Receive, SplitLine, Cancel, Disconnect,
   Resume, Ack, StaleAck, ResumeOlder, Connect

\* The journal keeps its type and its events, and the frontier is behind its end.
LEMMA StoreTypeStep ==
    ASSUME TypeOK, [Next]_vars
    PROVE  /\ log' \in Seq({"match", "near", "bad", "other"})
           /\ published' = Len(log') /\ visible_hlc' \in 0 .. published'
           /\ published <= published' /\ \A s \in 1 .. published : log'[s] = log[s]
<1> DEFINE Goal == /\ log' \in Seq({"match", "near", "bad", "other"})
                   /\ published' = Len(log') /\ visible_hlc' \in 0 .. published'
                   /\ published <= published' /\ \A s \in 1 .. published : log'[s] = log[s]
<1>0. /\ log \in Seq({"match", "near", "bad", "other"}) /\ published = Len(log)
      /\ published \in Nat /\ visible_hlc \in 0 .. published /\ kind \in Kinds
  BY Types DEF TypeOK
<1>1. ASSUME NEW class \in Classes, Publish(class) PROVE Goal
  <2>1. class \in {"match", "near", "bad", "other"}
    <3>1. kind \in {"event", "entity", "receipt"}  BY <1>0, StreamAssumption
    <3> QED BY <3>1 DEF Classes
  <2>2. log' = Append(log, class) /\ published' = published + 1 /\ visible_hlc' = visible_hlc
    BY <1>1 DEF Publish
  <2> QED BY <1>0, <2>1, <2>2
<1>2. ASSUME AdvanceVisible PROVE Goal  BY <1>0, <1>2 DEF AdvanceVisible
<1>3. ASSUME UNCHANGED <<log, published, visible_hlc>> PROVE Goal  BY <1>0, <1>3
<1> HIDE DEF Goal
<1>4. Goal  BY <1>1, <1>2, <1>3, StoreFrame, Zenon
<1> QED BY <1>4 DEF Goal

\* write_delivery: a frame for a client that is there, and the session that goes
\* on or is gone.
LEMMA WriteForms ==
    ASSUME NEW frame, NEW next, Write(frame, next)
    PROVE  /\ session' \in {next, NoSession}
           /\ client.open => down' = Append(down, frame) /\ session' = next
           /\ ~client.open => down' = down
BY Zenon DEF Write

\* The frame of a delivery and the session after it.
Delivery(s, position, isEvent) ==
    [type |-> "delivery", index |-> Len(s.sent) + 1, cursor |-> position, event |-> isEvent]
Delivered(s, position) ==
    [s EXCEPT !.at = "poll", !.sent = Append(@, position), !.scan = position]

\* A delivery and the session after it have their types.
LEMMA DeliveryType ==
    ASSUME NEW s \in SessionType, NEW position \in Nat, NEW isEvent \in BOOLEAN
    PROVE  /\ Delivery(s, position, isEvent) \in FrameType
           /\ Delivered(s, position) \in SessionType
<1>1. s.sent \in Seq(Nat) /\ Len(s.sent) + 1 \in Nat  BY DEF SessionType
<1>2. Append(s.sent, position) \in Seq(Nat)  BY <1>1
<1>3. Delivery(s, position, isEvent) \in FrameType
  <2>1. "delivery" \in FrameTypes  BY DEF FrameTypes
  <2> QED BY <1>1, <2>1, Zenon DEF Delivery, FrameType
<1>4. Delivered(s, position) \in SessionType  BY <1>2 DEF Delivered, SessionType
<1> QED BY <1>3, <1>4

\* So has a terminal frame.
LEMMA TerminalType ==
    ASSUME NEW terminal \in FrameTypes
    PROVE  [type |-> terminal, index |-> 0, cursor |-> 0, event |-> FALSE] \in FrameType
BY DEF FrameType

\* Scans and the first of what they find.
Hits == {s \in session.scan + 1 .. published : log[s] # "other"}

\* A page holds events of the journal; a scan stops at one of them.
LEMMA PageFacts ==
    ASSUME TypeOK
    PROVE  /\ Page \in SUBSET (0 .. published) /\ Stops \subseteq Page /\ Page \in SUBSET Nat
           /\ Stops \in SUBSET Nat
           /\ Page # {} => Max(Page) \in Page /\ \A r \in Page : r <= Max(Page)
           /\ Stops # {} => Min(Stops) \in Stops /\ \A r \in Stops : Min(Stops) <= r
<1>0. published \in Nat /\ session.scan \in Nat  BY Types
<1>1. Page \in SUBSET (0 .. published) /\ Stops \subseteq Page  BY <1>0 DEF Page, Stops
<1>2. Page \in SUBSET Nat /\ Stops \in SUBSET Nat  BY <1>0, <1>1
<1>3. ASSUME Page # {} PROVE Max(Page) \in Page /\ \A r \in Page : r <= Max(Page)
  <2>1. Max(Page) \in Page /\ \A r \in Page : Max(Page) >= r  BY <1>0, <1>1, <1>3, MaxIn
  <2> QED BY <1>2, <2>1
<1>4. ASSUME Stops # {} PROVE Min(Stops) \in Stops /\ \A r \in Stops : Min(Stops) <= r
  BY <1>2, <1>4, MinIn
<1> QED BY <1>1, <1>2, <1>3, <1>4

\* A page without its last element is all there is before that.
LEMMA PageComplete ==
    ASSUME TypeOK, NEW m \in Page, NEW s \in Hits, s <= m
    PROVE  s \in Page
<1> DEFINE Below(x) == {r \in Hits : r < x}
<1>1. published \in Nat /\ session.scan \in Nat /\ Hits \in SUBSET (0 .. published)
  BY Types DEF Hits
<1>2. m \in Hits /\ Cardinality(Below(m)) < PageSize  BY Zenon DEF Page, Hits
<1>3. IsFiniteSet(Below(m))
  <2>1. IsFiniteSet(0 .. published)  BY <1>1, FS_Interval
  <2>2. Below(m) \in SUBSET (0 .. published)  BY <1>1
  <2> QED BY <2>1, <2>2, FS_Subset, Zenon
<1>4. Below(s) \in SUBSET Below(m)
  <2>1. Hits \subseteq Int /\ m \in Int /\ s \in Int  BY <1>1, <1>2
  <2>2. ASSUME NEW r \in Hits, r < s PROVE r < m  BY <2>1, <2>2
  <2> QED BY <2>2
<1>5. IsFiniteSet(Below(s)) /\ Cardinality(Below(s)) <= Cardinality(Below(m))
  BY <1>3, <1>4, FS_Subset, Zenon
<1>6. Cardinality(Below(s)) \in Nat /\ Cardinality(Below(m)) \in Nat
  BY <1>3, <1>5, FS_CardinalityType, Zenon
<1>7. Cardinality(Below(s)) < PageSize
  <2> HIDE DEF Below
  <2> QED BY <1>2, <1>5, <1>6, StreamAssumption
<1> QED BY <1>7, Zenon DEF Page, Hits

\* A page is empty only where nothing is left.
LEMMA PageEmpty == ASSUME TypeOK, Page = {} PROVE Hits = {}
<1> SUFFICES ASSUME Hits # {} PROVE FALSE  OBVIOUS
<1>1. Hits \in SUBSET Nat  BY Types DEF Hits
<1>2. PICK m \in Hits : \A r \in Hits : m <= r  BY <1>1, MinIn
<1>3. {r \in Hits : r < m} = {}
  <2>1. ASSUME NEW r \in Hits PROVE ~(r < m)
    <3>1. m \in Nat /\ r \in Nat /\ m <= r  BY <1>1, <1>2
    <3> QED BY <3>1
  <2> QED BY <2>1, Zenon
<1>4. Cardinality({r \in Hits : r < m}) < PageSize
  BY <1>3, FS_EmptySet, StreamAssumption
<1>5. m \in Page  BY <1>2, <1>4, Zenon DEF Page, Hits
<1> QED BY <1>5

\* What poll does once the controls are drained: the session is over, with a
\* terminal frame or silently, or it goes on from one of its cursors.
LEMMA DrainForms ==
    ASSUME TypeOK, NEW next \in {"query", "requery"}, DrainThen(next)
    PROVE  /\ control' = <<>>
           /\ \/ \E terminal \in FrameTypes \ {"delivery"} : WriteTerminal(terminal)
              \/ session' = NoSession /\ down' = down
              \/ \E s : /\ After(s) /\ session' = [s EXCEPT !.at = next] /\ down' = down
<1> DEFINE s == drain_control
<1>1. After(s)  BY DrainKeeps
<1> HIDE DEF s
<1>2. control' = <<>>  BY Zenon DEF DrainThen
<1>3. /\ s.terminal # "none" => WriteTerminal(s.terminal)
      /\ s.terminal = "none" =>
            /\ session' = IF s.phase = "Ended" THEN NoSession ELSE [s EXCEPT !.at = next]
            /\ UNCHANGED down
  BY Zenon DEF DrainThen, s
<1>4. s.terminal \in {"none", "ack_invalid", "client_cancel", "malformed_control"}
  BY <1>1 DEF After, SessionType
<1>5. s.terminal # "none" => s.terminal \in FrameTypes \ {"delivery"}  BY <1>4 DEF FrameTypes
<1> QED BY <1>1, <1>2, <1>3, <1>5

\* What a step does to the session, to the frames and to the history.
Ends == session' = NoSession /\ down' = down
EndsWithFrame == \E terminal \in FrameTypes \ {"delivery"} : WriteTerminal(terminal)
Moves ==
    /\ session.at # "closed" /\ down' = down
    /\ \E s : After(s) /\ \E at \in {"query", "requery"} : session' = [s EXCEPT !.at = at]

\* What a step does, by its effect on the session, the frames and the client.
LEMMA SessionForms ==
    ASSUME TypeOK, [Next]_vars
    PROVE  \/ Ends /\ UNCHANGED <<client, late>>
           \/ EndsWithFrame /\ UNCHANGED <<client, late>>
           \/ Moves /\ UNCHANGED <<client, late>>
           \/ ScanEmpty \/ ScanOn \/ WaitEnds
           \/ (WatermarkStands \/ WatermarkSent)
                /\ session.at \in {"watermark", "rewatermark"} /\ UNCHANGED client
           \/ /\ Stops # {} /\ Deliver(session, Min(Stops), TRUE)
              /\ session.at \in {"query", "requery"} /\ UNCHANGED <<client, late>>
           \/ Receive \/ Disconnect \/ \E resume \in client.cursors \cup {0, client.last} : Connect(resume)
           \/ UNCHANGED <<session, down, client, late>>
<1>1. ASSUME Poll \/ Wake
      PROVE  (Ends \/ EndsWithFrame \/ Moves) /\ UNCHANGED <<client, late>>
  <2>1. PICK next \in {"query", "requery"} : DrainThen(next)  BY <1>1 DEF Poll, Wake
  <2>2. UNCHANGED <<client, late>> /\ session.at # "closed"  BY <1>1 DEF Poll, Wake
  <2> QED BY <2>1, <2>2, DrainForms, Zenon DEF Ends, EndsWithFrame, Moves
<1>2. ASSUME ScanStop
      PROVE  \/ EndsWithFrame /\ UNCHANGED <<client, late>>
             \/ /\ Stops # {} /\ Deliver(session, Min(Stops), TRUE)
                /\ session.at \in {"query", "requery"} /\ UNCHANGED <<client, late>>
  <2>1. {"receipt_decode_failed", "slow_consumer"} \subseteq FrameTypes \ {"delivery"}
    BY DEF FrameTypes
  <2>2. /\ Stops # {} /\ session.at \in {"query", "requery"} /\ UNCHANGED <<client, late>>
        /\ \/ WriteTerminal("receipt_decode_failed") \/ WriteTerminal("slow_consumer")
           \/ Deliver(session, Min(Stops), TRUE)
    BY <1>2, Zenon DEF ScanStop
  <2> QED BY <2>1, <2>2, Zenon DEF EndsWithFrame
<1>3. ASSUME ReadFails PROVE Ends /\ UNCHANGED <<client, late>>
  BY <1>3 DEF ReadFails, Ends
<1>4. ASSUME Watermark
      PROVE  \/ EndsWithFrame /\ UNCHANGED <<client, late>>
             \/ (WatermarkStands \/ WatermarkSent)
                  /\ session.at \in {"watermark", "rewatermark"} /\ UNCHANGED client
  <2>1. "slow_consumer" \in FrameTypes \ {"delivery"}  BY DEF FrameTypes
  <2>2. WatermarkRefused => EndsWithFrame /\ UNCHANGED late
    BY <2>1, Zenon DEF WatermarkRefused, EndsWithFrame
  <2>3. session.at \in {"watermark", "rewatermark"} /\ UNCHANGED client
    BY <1>4, Zenon DEF Watermark
  <2> QED BY <1>4, <2>2, <2>3, Zenon DEF Watermark
<1>5. ASSUME Resume \/ \E cursor \in 0 .. published : ResumeOlder(cursor)
      PROVE  \E resume \in client.cursors \cup {0, client.last} : Connect(resume)
  BY <1>5, Zenon DEF Resume, ResumeOlder
<1>6. ASSUME \/ WriterStep \/ SplitLine \/ Cancel \/ UNCHANGED vars
             \/ \E index \in 1 .. MaxDeliveries + Window : Ack(index)
             \/ \E index \in 1 .. Window, cursor \in 1 .. published : StaleAck(index, cursor)
      PROVE  UNCHANGED <<session, down, client, late>>
  BY <1>6 DEF WriterStep, Publish, Broadcast, AdvanceVisible, SplitLine, Cancel, Ack, StaleAck,
     vars, connectionVars
<1> QED
  BY <1>1, <1>2, <1>3, <1>4, <1>5, <1>6, Zenon DEF Next, SessionStep, ClientStep

\* A delivery goes out and the session with it, or the client has gone.
LEMMA DeliverForms ==
    ASSUME NEW s \in SessionType, NEW position \in Nat, NEW isEvent \in BOOLEAN,
           Deliver(s, position, isEvent)
    PROVE  /\ session' \in {Delivered(s, position), NoSession}
           /\ client.open => /\ down' = Append(down, Delivery(s, position, isEvent))
                             /\ session' = Delivered(s, position)
           /\ ~client.open => down' = down
BY WriteForms, Zenon DEF Deliver, Delivery, Delivered

\* A new session starts where the client says.
LEMMA OpenSessionType ==
    ASSUME NEW resume \in Nat
    PROVE  /\ OpenSession(resume) \in SessionType
           /\ OpenSession(resume).at = "poll" /\ OpenSession(resume).scan = resume
           /\ OpenSession(resume).sent = <<>>
<1>1. PICK w \in Nat :
         OpenSession(resume) = [NoSession EXCEPT !.at = "poll", !.phase = "Replaying",
                                                 !.scan = resume, !.watermarked = w]
  BY DEF OpenSession
<1>2. NoSession \in SessionType /\ NoSession.sent = <<>>  BY NoSessionType DEF NoSession
<1>3. OpenSession(resume).at = "poll" /\ OpenSession(resume).scan = resume /\ OpenSession(resume).sent = <<>>
  BY <1>1, <1>2 DEF SessionType
<1>4. OpenSession(resume) \in SessionType  BY <1>1, <1>2 DEF SessionType
<1> QED BY <1>3, <1>4, Zenon

\* A sequence with one element more.
LEMMA AppendType ==
    ASSUME NEW S, NEW s \in Seq(S), NEW e \in S
    PROVE  Append(s, e) \in Seq(S)
OBVIOUS

\* The session whose watermark is sent.
Marked == [session EXCEPT !.watermarked = visible_hlc, !.phase = "Live", !.bound = 0]

\* The session whose watermark is sent has its type.
LEMMA MarkedType ==
    ASSUME TypeOK
    PROVE  Marked \in SessionType /\ Marked.sent = session.sent
<1>1. session \in SessionType /\ visible_hlc \in Nat  BY Types DEF TypeOK
<1> QED BY <1>1 DEF Marked, SessionType

\* The session and the frames keep their types.
LEMMA SessionTypeStep ==
    ASSUME TypeOK, [Next]_vars
    PROVE  session' \in SessionType /\ down' \in Seq(FrameType)
<1> DEFINE Goal == session' \in SessionType /\ down' \in Seq(FrameType)
<1>0. /\ session \in SessionType /\ down \in Seq(FrameType) /\ visible_hlc \in Nat
      /\ published \in Nat
  BY Types DEF TypeOK
<1>1. ASSUME Ends PROVE Goal  BY <1>0, <1>1, NoSessionType DEF Ends
<1>2. ASSUME EndsWithFrame PROVE Goal
  <2>1. PICK terminal \in FrameTypes \ {"delivery"} : WriteTerminal(terminal)
    BY <1>2 DEF EndsWithFrame
  <2> DEFINE frame == [type |-> terminal, index |-> 0, cursor |-> 0, event |-> FALSE]
  <2>2. frame \in FrameType  BY TerminalType
  <2>3. session' = NoSession /\ (down' = down \/ down' = Append(down, frame))
    BY <2>1, WriteForms, Zenon DEF WriteTerminal
  <2> HIDE DEF frame
  <2> QED BY <1>0, <2>2, <2>3, NoSessionType
<1>3. ASSUME Moves PROVE Goal
  <2>1. PICK s : /\ After(s) /\ down' = down
                 /\ \E at \in {"query", "requery"} : session' = [s EXCEPT !.at = at]
    BY <1>3, Zenon DEF Moves
  <2>2. s \in SessionType  BY <1>0, <2>1 DEF After, SessionType
  <2> QED BY <1>0, <2>1, <2>2 DEF SessionType
<1>4. ASSUME ScanEmpty \/ WaitEnds PROVE Goal
  BY <1>0, <1>4 DEF ScanEmpty, WaitEnds, SessionType, connectionVars
<1>5. ASSUME ScanOn PROVE Goal
  <2>1. Page # {} /\ session' = [session EXCEPT !.scan = Max(Page)] /\ down' = down
    BY <1>5 DEF ScanOn, connectionVars
  <2>2. Max(Page) \in Nat  BY <2>1, PageFacts
  <2> QED BY <1>0, <2>1, <2>2 DEF SessionType
<1>6. ASSUME WatermarkStands PROVE Goal
  BY <1>0, <1>6 DEF WatermarkStands, SessionType
<1>7. ASSUME WatermarkSent PROVE Goal
  <2>1. Deliver(Marked, visible_hlc, FALSE)  BY <1>7, Zenon DEF WatermarkSent, Marked
  <2>2. /\ session' \in {Delivered(Marked, visible_hlc), NoSession}
        /\ \/ down' = Append(down, Delivery(Marked, visible_hlc, FALSE))
           \/ down' = down
    BY <1>0, <2>1, MarkedType, DeliverForms
  <2>3. /\ Delivery(Marked, visible_hlc, FALSE) \in FrameType
        /\ Delivered(Marked, visible_hlc) \in SessionType
    BY <1>0, MarkedType, DeliveryType, Zenon
  <2>4. Append(down, Delivery(Marked, visible_hlc, FALSE)) \in Seq(FrameType)
    BY <1>0, <2>3, AppendType, Zenon
  <2> QED BY <1>0, <2>2, <2>3, <2>4, NoSessionType, Zenon
<1>8. ASSUME Stops # {}, Deliver(session, Min(Stops), TRUE) PROVE Goal
  <2>1. Min(Stops) \in Nat  BY <1>8, PageFacts
  <2>2. /\ session' \in {Delivered(session, Min(Stops)), NoSession}
        /\ \/ down' = Append(down, Delivery(session, Min(Stops), TRUE))
           \/ down' = down
    BY <1>0, <1>8, <2>1, DeliverForms
  <2>3. /\ Delivery(session, Min(Stops), TRUE) \in FrameType
        /\ Delivered(session, Min(Stops)) \in SessionType
    BY <1>0, <2>1, DeliveryType, Zenon
  <2>4. Append(down, Delivery(session, Min(Stops), TRUE)) \in Seq(FrameType)
    BY <1>0, <2>3, AppendType, Zenon
  <2> QED BY <1>0, <2>2, <2>3, <2>4, NoSessionType, Zenon
<1>9. ASSUME Receive PROVE Goal
  <2>1. session' = session /\ down # <<>> /\ down' = Tail(down)  BY <1>9, Zenon DEF Receive
  <2> QED BY <1>0, <2>1
<1>10. ASSUME Disconnect PROVE Goal
  <2>1. session' = session /\ down' = <<>>  BY <1>10, Zenon DEF Disconnect
  <2> QED BY <1>0, <2>1
<1>11. ASSUME NEW resume \in client.cursors \cup {0, client.last}, Connect(resume) PROVE Goal
  <2>1. resume \in Nat  BY Types
  <2>2. session' = OpenSession(resume) /\ down' = <<>>  BY <1>11, Zenon DEF Connect
  <2> QED BY <2>1, <2>2, OpenSessionType
<1>12. ASSUME UNCHANGED <<session, down, client, late>> PROVE Goal  BY <1>0, <1>12
<1> HIDE DEF Goal
<1>13. Goal
  BY <1>1, <1>2, <1>3, <1>4, <1>5, <1>6, <1>7, <1>8, <1>9, <1>10, <1>11, <1>12, SessionForms, Zenon
<1> QED BY <1>13 DEF Goal

\* The client and the history keep their types.
LEMMA ClientTypeStep ==
    ASSUME TypeOK, [Next]_vars
    PROVE  client' \in ClientType /\ late' \in SUBSET Nat
<1> DEFINE Goal == client' \in ClientType /\ late' \in SUBSET Nat
<1>0. client \in ClientType /\ late \in SUBSET Nat /\ down \in Seq(FrameType) /\ session \in SessionType
  BY DEF TypeOK
<1>1. ASSUME Receive PROVE Goal
  <2> DEFINE frame == Head(down)
  <2>1. down # <<>> /\ late' = late
        /\ client' \in {client, [client EXCEPT
                              !.count = frame.index, !.last = frame.cursor,
                              !.cursors = @ \cup {frame.cursor},
                              !.got = IF frame.event THEN @ \cup {frame.cursor} ELSE @]}
    BY <1>1, Zenon DEF Receive
  <2>2. frame \in FrameType  BY <1>0, <2>1
  <2> HIDE DEF frame
  <2>3. frame.index \in Nat /\ frame.cursor \in Nat  BY <2>2 DEF FrameType
  <2>4. PICK c \in SUBSET Nat, g \in SUBSET Nat :
           client' \in {client, [client EXCEPT !.count = frame.index, !.last = frame.cursor,
                                              !.cursors = c, !.got = g]}
    <3>1. client.cursors \in SUBSET Nat /\ client.got \in SUBSET Nat  BY <1>0 DEF ClientType
    <3>2. client.cursors \cup {frame.cursor} \in SUBSET Nat
          /\ (IF frame.event THEN client.got \cup {frame.cursor} ELSE client.got) \in SUBSET Nat
      BY <2>3, <3>1
    <3> QED BY <2>1, <3>2, Zenon
  <2> QED BY <1>0, <2>1, <2>3, <2>4 DEF ClientType
<1>2. ASSUME Disconnect PROVE Goal
  <2>1. client' = [client EXCEPT !.open = FALSE] /\ late' = late  BY <1>2, Zenon DEF Disconnect
  <2> QED BY <1>0, <2>1, Zenon DEF ClientType
<1>3. ASSUME NEW resume, Connect(resume) PROVE Goal
  <2>1. client' = [client EXCEPT !.open = TRUE, !.count = 0] /\ late' = late
    BY <1>3, Zenon DEF Connect
  <2>2. 0 \in Nat  OBVIOUS
  <2> QED BY <1>0, <2>1, <2>2, Zenon DEF ClientType
<1>4. ASSUME WatermarkStands \/ WatermarkSent, UNCHANGED client PROVE Goal
  <2>1. session.bound \in Nat /\ visible_hlc \in Nat  BY Types
  <2>2. session.bound + 1 .. visible_hlc \in SUBSET Nat  BY <2>1
  <2> QED BY <1>0, <1>4, <2>2 DEF WatermarkStands, WatermarkSent
<1>5. ASSUME UNCHANGED <<client, late>> PROVE Goal  BY <1>0, <1>5
<1>6. ASSUME ScanEmpty \/ ScanOn \/ WaitEnds PROVE UNCHANGED <<client, late>>
  BY <1>6 DEF ScanEmpty, ScanOn, WaitEnds
<1> HIDE DEF Goal
<1>7. Goal  BY <1>1, <1>2, <1>3, <1>4, <1>5, <1>6, SessionForms, Zenon
<1> QED BY <1>7 DEF Goal

\* The controls keep their type: a delivery that is acknowledged was sent.
LEMMA ControlTypeStep ==
    ASSUME TypeOK, IndexOK, [Next]_vars
    PROVE  control' \in Seq(ControlType)
<1>0. control \in Seq(ControlType)  BY DEF TypeOK
<1>1. ASSUME NEW frame \in ControlType, Control(frame) PROVE control' \in Seq(ControlType)
  BY <1>0, <1>1 DEF Control
<1>2. ASSUME NEW index \in 1 .. MaxDeliveries + Window, Ack(index)
      PROVE  control' \in Seq(ControlType)
  <2> DEFINE frame == [type |-> "ack", index |-> index, cursor |-> session.sent[index]]
  <2>1. Control(frame) /\ session.at # "closed" /\ index <= client.count
    BY <1>2, Zenon DEF Ack
  <2>2. client.open  BY <2>1, Zenon DEF Control
  <2>3. index \in Nat /\ index \in 1 .. Len(session.sent)
    <3>1. MaxDeliveries \in Nat /\ Window \in Nat  BY StreamAssumption
    <3>2. client.count \in Nat /\ Len(session.sent) \in Nat /\ client.count <= Len(session.sent)
      BY <2>1, <2>2, Types DEF IndexOK, TypeOK, ClientType
    <3> QED BY <2>1, <3>1, <3>2
  <2>4. session.sent[index] \in Nat  BY <2>3, Types
  <2>5. frame \in ControlType  BY <2>3, <2>4 DEF ControlType
  <2> QED BY <1>1, <2>1, <2>5
<1>3. ASSUME NEW index \in 1 .. Window, NEW cursor \in 1 .. published, StaleAck(index, cursor)
      PROVE  control' \in Seq(ControlType)
  <2> DEFINE frame == [type |-> "ack", index |-> index, cursor |-> cursor]
  <2>1. Control(frame)  BY <1>3, Zenon DEF StaleAck
  <2>2. index \in Nat /\ cursor \in Nat  BY Types, StreamAssumption
  <2>3. frame \in ControlType  BY <2>2 DEF ControlType
  <2> QED BY <1>1, <2>1, <2>3
<1>4. ASSUME SplitLine \/ Cancel PROVE control' \in Seq(ControlType)
  <2>1. Other("malformed") \in ControlType /\ Other("cancel") \in ControlType
    BY DEF Other, ControlType
  <2> QED BY <1>1, <1>4, <2>1, Zenon DEF SplitLine, Cancel
<1>5. ASSUME Disconnect PROVE control' \in Seq(ControlType)
  <2>1. Other("disconnected") \in ControlType  BY DEF Other, ControlType
  <2>2. control' \in {control, Append(control, Other("disconnected"))}
    BY <1>5, Zenon DEF Disconnect
  <2> QED BY <1>0, <2>1, <2>2
<1>6. ASSUME control' = <<>> PROVE control' \in Seq(ControlType)  BY <1>6
<1>7. \/ \E index \in 1 .. MaxDeliveries + Window : Ack(index)
      \/ \E index \in 1 .. Window, cursor \in 1 .. published : StaleAck(index, cursor)
      \/ SplitLine \/ Cancel \/ Disconnect \/ control' = <<>> \/ UNCHANGED control
  BY Zenon DEF Next, vars, connectionVars, WriterStep, SessionStep, ClientStep, Publish, Broadcast,
     AdvanceVisible, Poll, ScanEmpty, ScanOn, ScanStop, ReadFails, Watermark, Wake, WaitEnds,
     Receive, Resume, ResumeOlder, Connect, DrainThen
<1> QED BY <1>0, <1>2, <1>3, <1>4, <1>5, <1>6, <1>7, Zenon

\* Every step keeps the types.
LEMMA TypeStep == ASSUME TypeOK, IndexOK, [Next]_vars PROVE TypeOK'
<1>1. kind' = kind
  BY DEF Next, vars, storeVars, WriterStep, SessionStep, ClientStep, Publish, Broadcast,
     AdvanceVisible, Poll, ScanEmpty, ScanOn, ScanStop, ReadFails, Watermark, Wake, WaitEnds,
     Receive, SplitLine, Cancel, Disconnect, Resume, Ack, StaleAck, ResumeOlder, Connect
<1> QED BY <1>1, StoreTypeStep, SessionTypeStep, ClientTypeStep, ControlTypeStep, Zenon DEF TypeOK

-----------------------------------------------------------------------------
(* The steps.                                                              *)


\* What Covered says of the next state.
CoveredNext(cursor, n) ==
    /\ cursor <= published'
    /\ \A s \in 1 .. cursor :
           log'[s] = "match" =>
               \/ s \in client'.got \/ s \in late'
               \/ \E j \in 1 .. n : down'[j].event /\ down'[j].cursor = s

\* A cursor that is covered stays so: the journal only grows, and a frame either
\* stays on its way or reaches the client.
LEMMA Stays ==
    ASSUME TypeOK, [Next]_vars, NEW c \in Nat, NEW n \in Nat, NEW m \in Nat, Covered(c, n),
           client.got \subseteq client'.got, late \subseteq late',
           \A j \in 1 .. n : down[j].event =>
               \/ down[j].cursor \in client'.got
               \/ \E k \in 1 .. m : down'[k].event /\ down'[k].cursor = down[j].cursor
    PROVE  CoveredNext(c, m)
<1>1. /\ published \in Nat /\ published' \in Nat /\ c <= published
  <2>1. published' = Len(log') /\ log' \in Seq({"match", "near", "bad", "other"})  BY StoreTypeStep
  <2>2. published' \in Nat  BY <2>1
  <2> QED BY <2>2, Types DEF Covered
<1>2. published <= published' /\ \A s \in 1 .. published : log'[s] = log[s]  BY StoreTypeStep
<1>3. c <= published'  BY <1>1, <1>2
<1>4. ASSUME NEW s \in 1 .. c, log'[s] = "match"
      PROVE  \/ s \in client'.got \/ s \in late'
             \/ \E j \in 1 .. m : down'[j].event /\ down'[j].cursor = s
  <2>1. log'[s] = log[s]  BY <1>1, <1>2
  <2>2. s \in client.got \/ s \in late \/ \E j \in 1 .. n : down[j].event /\ down[j].cursor = s
    BY <1>4, <2>1, Zenon DEF Covered, Wanted, Sent
  <2> QED BY <2>2, Zenon
<1> QED BY <1>3, <1>4 DEF CoveredNext

\* A step that adds frames behind the others leaves what is covered covered.
Grows ==
    /\ UNCHANGED client /\ late \subseteq late'
    /\ Len(down) <= Len(down')
    /\ \A j \in 1 .. Len(down) : down'[j] = down[j]

\* A cursor covered by the first n frames stays covered by them.
LEMMA GrowsKeeps ==
    ASSUME TypeOK, [Next]_vars, Grows, NEW c \in Nat, NEW n \in 0 .. Len(down),
           NEW m \in n .. Len(down'), Covered(c, n)
    PROVE  CoveredNext(c, m)
<1>1. Len(down) \in Nat  BY Types
<1>2. n \in Nat /\ m \in Nat /\ n <= m
  <2>1. down' \in Seq(FrameType)  BY SessionTypeStep
  <2> QED BY <1>1, <2>1
<1>3. client.got \subseteq client'.got /\ late \subseteq late'  BY Zenon DEF Grows
<1>4. ASSUME NEW j \in 1 .. n PROVE j \in 1 .. m /\ down'[j] = down[j]
  BY <1>1, <1>2 DEF Grows
<1>5. \A j \in 1 .. n : down[j].event =>
               \/ down[j].cursor \in client'.got
               \/ \E k \in 1 .. m : down'[k].event /\ down'[k].cursor = down[j].cursor
  BY <1>4, Zenon
<1> QED BY <1>2, <1>3, <1>5, Stays, Zenon

\* What the client has and is about to get stays good when frames are added that
\* are.
LEMMA GrowsClient ==
    ASSUME StreamInv, [Next]_vars, Grows,
           \A i \in Len(down) + 1 .. Len(down') :
               /\ down'[i].type = "delivery" => CoveredNext(down'[i].cursor, i)
               /\ down'[i].event => down'[i].type = "delivery"
    PROVE  CursorsOK' /\ FramesOK'
<1>0. TypeOK /\ CursorsOK /\ FramesOK  BY Zenon DEF StreamInv
<1>1. Len(down) \in Nat /\ Len(down') \in Nat /\ Len(down) <= Len(down')
  <2>1. down' \in Seq(FrameType)  BY <1>0, SessionTypeStep
  <2> QED BY <1>0, <2>1, Types DEF Grows
<1>2. \A i \in 1 .. Len(down) : down[i].cursor \in Nat  BY <1>0, Types DEF FrameType
<1>3. ASSUME NEW c \in client'.cursors PROVE CoveredNext(c, 0)
  <2>1. c \in Nat /\ Covered(c, 0)  BY <1>0, Types DEF CursorsOK, Grows
  <2>2. 0 \in 0 .. Len(down) /\ 0 \in 0 .. Len(down')  BY <1>1
  <2> QED BY <1>0, <2>1, <2>2, GrowsKeeps
<1>4. CursorsOK'
  <2>1. client'.last \in client'.cursors \cup {0}  BY <1>0 DEF CursorsOK, Grows
  <2> QED BY <1>3, <2>1 DEF CursorsOK, Covered, CoveredNext, Sent, Wanted
<1>5. ASSUME NEW i \in 1 .. Len(down')
      PROVE  /\ down'[i].type = "delivery" => CoveredNext(down'[i].cursor, i)
             /\ down'[i].event => down'[i].type = "delivery"
  <2>1. CASE i \in 1 .. Len(down)
    <3>1. down'[i] = down[i]  BY <2>1 DEF Grows
    <3>2. down[i].event => down[i].type = "delivery"  BY <1>0, <2>1, Zenon DEF FramesOK
    <3>3. ASSUME down[i].type = "delivery" PROVE CoveredNext(down[i].cursor, i)
      <4>1. Covered(down[i].cursor, i)  BY <1>0, <2>1, <3>3, Zenon DEF FramesOK
      <4>2. i \in 0 .. Len(down) /\ i \in i .. Len(down')  BY <1>1, <2>1
      <4> QED BY <1>0, <1>2, <2>1, <4>1, <4>2, GrowsKeeps
    <3> QED BY <3>1, <3>2, <3>3, Zenon
  <2>2. CASE i \in Len(down) + 1 .. Len(down')  BY <2>2
  <2> QED BY <1>1, <2>1, <2>2
<1>6. FramesOK'  BY <1>5 DEF FramesOK, Covered, CoveredNext, Sent, Wanted
<1> QED BY <1>4, <1>6

\* A step that sends nothing, and leaves the session, if any, at a cursor that
\* is covered.
LEMMA QuietStep ==
    ASSUME StreamInv, [Next]_vars, UNCHANGED <<down, client, late>>,
           \/ session'.at = "closed"
           \/ /\ session.at # "closed" /\ session'.sent = session.sent
              /\ client.open => Covered(session'.scan, Len(down))
    PROVE  IndexOK' /\ CursorsOK' /\ FramesOK' /\ SessionOK'
<1>0. TypeOK /\ IndexOK /\ SessionOK  BY Zenon DEF StreamInv
<1>1. Len(down) \in Nat  BY <1>0, Types
<1>2. Grows /\ Len(down') = Len(down)  BY <1>1 DEF Grows
<1>3. CursorsOK' /\ FramesOK'
  <2>1. Len(down) + 1 .. Len(down') = {}  BY <1>1, <1>2
  <2> QED BY <1>2, <2>1, GrowsClient
<1>4. CASE session'.at = "closed"  BY <1>3, <1>4 DEF IndexOK, SessionOK
<1>5. CASE /\ session.at # "closed" /\ session'.sent = session.sent
           /\ client.open => Covered(session'.scan, Len(down))
  <2>1. IndexOK'  BY <1>0, <1>5 DEF IndexOK
  <2>2. ASSUME client.open, NEW c \in Nat, Covered(c, Len(down)) PROVE CoveredNext(c, Len(down'))
    <3>1. Len(down) \in 0 .. Len(down) /\ Len(down') \in Len(down) .. Len(down')
      BY <1>1, <1>2
    <3> QED BY <1>0, <1>2, <2>2, <3>1, GrowsKeeps
  <2>3. ASSUME client.open PROVE CoveredNext(session'.scan, Len(down'))
    <3>1. session'.scan \in Nat
      <4>1. session' \in SessionType  BY <1>0, SessionTypeStep
      <4> QED BY <4>1 DEF SessionType
    <3> QED BY <1>5, <2>2, <2>3, <3>1
  <2>4. ASSUME client.open, NEW i \in 1 .. Len(session'.sent)
        PROVE  CoveredNext(session'.sent[i], Len(down'))
    <3>1. session.sent[i] \in Nat /\ Covered(session.sent[i], Len(down))
      BY <1>0, <1>5, <2>4, Types DEF SessionOK
    <3> QED BY <1>5, <2>2, <2>4, <3>1
  <2>5. SessionOK'
    BY <2>3, <2>4 DEF SessionOK, Covered, CoveredNext, Sent, Wanted
  <2> QED BY <1>3, <2>1, <2>5
<1> QED BY <1>4, <1>5

\* Away from a watermark nothing is said of the bound.
LEMMA NoBound ==
    ASSUME session'.at \notin {"watermark", "rewatermark"}
    PROVE  BoundOK'
BY DEF BoundOK

Rest == IndexOK /\ CursorsOK /\ FramesOK /\ SessionOK /\ BoundOK

\* The session ends without a frame.
LEMMA EndsStep == ASSUME StreamInv, [Next]_vars, Ends, UNCHANGED <<client, late>> PROVE Rest'
<1>1. session'.at = "closed" /\ down' = down  BY NoSessionType DEF Ends
<1> QED BY <1>1, QuietStep, NoBound DEF Rest

\* The session goes on after its controls.
LEMMA MovesStep == ASSUME StreamInv, [Next]_vars, Moves, UNCHANGED <<client, late>> PROVE Rest'
<1>0. TypeOK /\ SessionOK  BY Zenon DEF StreamInv
<1>a. session.at # "closed" /\ down' = down  BY Zenon DEF Moves
<1>1. PICK s : After(s) /\ \E at \in {"query", "requery"} : session' = [s EXCEPT !.at = at]
  BY Zenon DEF Moves
<1>2. session'.at \in {"query", "requery"} /\ session'.sent = session.sent
      /\ (session'.scan = session.scan
            \/ \E i \in 1 .. Len(session.sent) : session'.scan = session.sent[i])
  BY <1>1 DEF After, SessionType
<1>3. client.open => Covered(session'.scan, Len(down))
  BY <1>0, <1>a, <1>2, Zenon DEF SessionOK
<1> QED BY <1>a, <1>2, <1>3, QuietStep, NoBound DEF Rest

\* The wait is over.
LEMMA WaitEndsStep == ASSUME StreamInv, [Next]_vars, WaitEnds PROVE Rest'
<1>0. TypeOK /\ SessionOK /\ session \in SessionType  BY Zenon DEF StreamInv, TypeOK
<1>1. /\ UNCHANGED <<down, client, late>> /\ session.at = "wait"
      /\ session' = [session EXCEPT !.at = "poll"]
  BY Zenon DEF WaitEnds, connectionVars
<1>2. session'.at = "poll" /\ session'.sent = session.sent /\ session'.scan = session.scan
  BY <1>0, <1>1 DEF SessionType
<1>3. session.at # "closed"  BY <1>1
<1>4. client.open => Covered(session'.scan, Len(down))  BY <1>0, <1>2, <1>3 DEF SessionOK
<1> QED BY <1>1, <1>2, <1>3, <1>4, QuietStep, NoBound DEF Rest

\* The frontier has not moved since the last watermark.
LEMMA StandsStep ==
    ASSUME StreamInv, [Next]_vars, WatermarkStands, UNCHANGED client,
           session.at \in {"watermark", "rewatermark"}
    PROVE  Rest'
<1>0. TypeOK /\ SessionOK /\ session \in SessionType  BY Zenon DEF StreamInv, TypeOK
<1>1. /\ UNCHANGED <<down, late>>
      /\ \E at \in {"wait", "poll"} :
            session' = [session EXCEPT !.at = at, !.phase = "Live", !.bound = 0]
  BY DEF WatermarkStands
<1>2. /\ session'.at \in {"wait", "poll"} /\ session'.sent = session.sent
      /\ session'.scan = session.scan
  BY <1>0, <1>1 DEF SessionType
<1>3. client.open => Covered(session'.scan, Len(down))  BY <1>0, <1>2 DEF SessionOK
<1> QED BY <1>1, <1>2, <1>3, QuietStep, NoBound DEF Rest

\* A scan that found nothing has nothing of the stream before its end.
LEMMA ScanEmptyStep == ASSUME StreamInv, [Next]_vars, ScanEmpty PROVE Rest'
<1>0. TypeOK /\ SessionOK /\ session \in SessionType /\ published \in Nat
  BY Types DEF StreamInv, TypeOK
<1> DEFINE at == CASE session.at = "requery"      -> "rewatermark"
                   [] session.phase = "Replaying" -> "watermark"
                   [] OTHER                       -> "wait"
<1>a. at \in {"rewatermark", "watermark", "wait"}  OBVIOUS
<1>b. session' = [session EXCEPT !.at = at, !.bound = published]  BY DEF ScanEmpty
<1> HIDE DEF at
<1>1. /\ UNCHANGED <<down, client, late, log, published>> /\ Page = {}
      /\ session.at \in {"query", "requery"}
  BY DEF ScanEmpty, connectionVars, storeVars
<1>2. /\ session'.at # "closed" /\ session'.sent = session.sent
      /\ session'.scan = session.scan /\ session'.bound = published
  BY <1>0, <1>a, <1>b DEF SessionType
<1>3. client.open => Covered(session'.scan, Len(down))  BY <1>0, <1>1, <1>2 DEF SessionOK
<1>4. ASSUME NEW s \in session.scan + 1 .. published PROVE log[s] # "match"
  <2>1. Hits = {}  BY <1>0, <1>1, PageEmpty
  <2>2. ~(log[s] # "other")  BY <2>1 DEF Hits
  <2> QED BY <2>2
<1>5. BoundOK'  BY <1>0, <1>1, <1>2, <1>4 DEF BoundOK, Wanted
<1> QED BY <1>1, <1>2, <1>3, <1>5, QuietStep DEF Rest

\* A page without a delivery is passed.
LEMMA ScanOnStep == ASSUME StreamInv, [Next]_vars, ScanOn PROVE Rest'
<1>0. /\ TypeOK /\ SessionOK /\ session \in SessionType /\ published \in Nat
      /\ session.scan \in Nat
  BY Types DEF StreamInv, TypeOK
<1>1. /\ UNCHANGED <<down, client, late>> /\ Page # {} /\ Stops = {}
      /\ session.at \in {"query", "requery"}
      /\ session' = [session EXCEPT !.scan = Max(Page)]
  BY DEF ScanOn, connectionVars
<1>2. session'.at = session.at /\ session'.sent = session.sent /\ session'.scan = Max(Page)
  BY <1>0, <1>1 DEF SessionType
<1>3. Max(Page) \in Page /\ Page \in SUBSET (0 .. published)  BY <1>0, <1>1, PageFacts
<1> DEFINE m == Max(Page)
<1>4. m \in Page /\ m \in 0 .. published  BY <1>3
<1> HIDE DEF m
<1>5. ASSUME client.open, NEW s \in 1 .. m, Wanted(s)
      PROVE  s \in client.got \/ s \in late \/ Sent(Len(down), s)
  <2>1. CASE s \in 1 .. session.scan
    BY <1>0, <1>1, <1>5, <2>1 DEF SessionOK, Covered
  <2>2. CASE s \notin 1 .. session.scan
    <3>1. s \in session.scan + 1 .. published /\ s <= m  BY <1>0, <1>4, <2>2
    <3>2. s \in Hits  BY <1>5, <3>1 DEF Hits, Wanted
    <3>3. s \in Page  BY <1>0, <1>4, <3>1, <3>2, PageComplete
    <3>4. s \in Stops  BY <1>5, <3>3 DEF Stops, Wanted
    <3> QED BY <1>1, <3>4
  <2> QED BY <2>1, <2>2
<1>6. client.open => Covered(m, Len(down))
  BY <1>0, <1>4, <1>5 DEF Covered
<1> QED BY <1>1, <1>2, <1>6, QuietStep, NoBound DEF Rest, m

\* The elements of a sequence with one more.
LEMMA AppendFacts ==
    ASSUME NEW S, NEW t \in Seq(S), NEW e \in S
    PROVE  /\ Len(Append(t, e)) = Len(t) + 1 /\ Append(t, e)[Len(t) + 1] = e
           /\ \A i \in 1 .. Len(t) : Append(t, e)[i] = t[i]
OBVIOUS

\* A terminal frame says nothing of the events before it.
LEMMA EndsWithFrameStep ==
    ASSUME StreamInv, [Next]_vars, EndsWithFrame, UNCHANGED <<client, late>>
    PROVE  Rest'
<1>0. TypeOK /\ down \in Seq(FrameType)  BY Zenon DEF StreamInv, TypeOK
<1>1. PICK terminal \in FrameTypes \ {"delivery"} : WriteTerminal(terminal)
  BY Zenon DEF EndsWithFrame
<1> DEFINE frame == [type |-> terminal, index |-> 0, cursor |-> 0, event |-> FALSE]
<1>2. frame.type # "delivery" /\ ~frame.event  OBVIOUS
<1>3. session' = NoSession /\ (down' = down \/ down' = Append(down, frame))
  BY <1>1, WriteForms, Zenon DEF WriteTerminal
<1>4. session'.at = "closed"  BY <1>3, NoSessionType
<1> HIDE DEF frame
<1>5. CASE down' = down  BY <1>4, <1>5, QuietStep, NoBound DEF Rest
<1>6. CASE down' = Append(down, frame)
  <2>1. /\ Len(down) \in Nat /\ Len(down') = Len(down) + 1
        /\ down'[Len(down) + 1] = frame
    BY <1>0, <1>6
  <2>2. \A j \in 1 .. Len(down) : down'[j] = down[j]  BY <1>0, <1>6
  <2>3. Grows  BY <2>1, <2>2 DEF Grows
  <2>4. \A i \in Len(down) + 1 .. Len(down') : i = Len(down) + 1  BY <2>1
  <2>5. CursorsOK' /\ FramesOK'
    <3>1. \A i \in Len(down) + 1 .. Len(down') :
               /\ down'[i].type = "delivery" => CoveredNext(down'[i].cursor, i)
               /\ down'[i].event => down'[i].type = "delivery"
      BY <1>2, <2>1, <2>4, Zenon
    <3> QED BY <2>3, <3>1, GrowsClient
  <2> QED BY <1>4, <2>5, NoBound DEF Rest, IndexOK, SessionOK
<1> QED BY <1>3, <1>5, <1>6

\* A delivery at a position before which everything was sent, or passed.
LEMMA DeliverStep ==
    ASSUME StreamInv, [Next]_vars, NEW s \in SessionType, s.sent = session.sent,
           NEW position \in 0 .. published, NEW isEvent \in BOOLEAN,
           Deliver(s, position, isEvent), UNCHANGED client, late \subseteq late',
           session.at # "closed",
           client.open => \A r \in 1 .. position :
               log[r] = "match" => \/ r \in client.got \/ r \in late' \/ Sent(Len(down), r)
                                   \/ isEvent /\ r = position
    PROVE  Rest'
<1>0. /\ TypeOK /\ IndexOK /\ SessionOK /\ down \in Seq(FrameType) /\ session.sent \in Seq(Nat)
      /\ published \in Nat /\ Len(down) \in Nat /\ Len(session.sent) \in Nat
  BY Types DEF StreamInv, TypeOK
<1>1. position \in Nat  BY <1>0
<1> DEFINE frame == Delivery(s, position, isEvent)
           next == Delivered(s, position)
<1>2. /\ session' \in {next, NoSession}
      /\ client.open => down' = Append(down, frame) /\ session' = next
      /\ ~client.open => down' = down
  BY <1>1, DeliverForms
<1>3. /\ frame.type = "delivery" /\ frame.cursor = position /\ frame.event = isEvent
      /\ frame.index = Len(session.sent) + 1
  BY DEF Delivery
<1>4. next.at = "poll" /\ next.sent = Append(session.sent, position) /\ next.scan = position
  BY DEF Delivered, SessionType
<1> HIDE DEF frame, next
<1>5. session'.at \in {"poll", "closed"}  BY <1>2, <1>4, NoSessionType
<1>6. CASE ~client.open
  <2>1. Grows /\ Len(down) + 1 .. Len(down') = {}  BY <1>0, <1>2, <1>6 DEF Grows
  <2>2. CursorsOK' /\ FramesOK'  BY <2>1, GrowsClient
  <2>3. ~client'.open  BY <1>6
  <2> QED BY <1>5, <2>2, <2>3, NoBound DEF Rest, IndexOK, SessionOK
<1>7. CASE client.open
  <2>0. down' = Append(down, frame) /\ session' = next  BY <1>2, <1>7
  <2>1. /\ Len(down') = Len(down) + 1
        /\ down'[Len(down) + 1] = frame
    BY <1>0, <2>0
  <2>2. \A j \in 1 .. Len(down) : down'[j] = down[j]  BY <1>0, <2>0
  <2>3. Grows  BY <1>0, <2>1, <2>2 DEF Grows
  <2>4. \A i \in Len(down) + 1 .. Len(down') : i = Len(down) + 1  BY <1>0, <2>1
  <2>5. CoveredNext(position, Len(down) + 1)
    <3>1. /\ published <= published' /\ published' \in Nat
          /\ \A r \in 1 .. published : log'[r] = log[r]
      <4>1. published' = Len(log') /\ log' \in Seq({"match", "near", "bad", "other"})
        BY <1>0, StoreTypeStep
      <4> QED BY <1>0, <4>1, StoreTypeStep
    <3>2. position <= published'  BY <1>0, <3>1
    <3>3. ASSUME NEW r \in 1 .. position, log'[r] = "match"
          PROVE  \/ r \in client'.got \/ r \in late'
                 \/ \E j \in 1 .. Len(down) + 1 : down'[j].event /\ down'[j].cursor = r
      <4>1. log[r] = "match"  BY <1>0, <3>1, <3>3
      <4>2. CASE Sent(Len(down), r)
        <5>1. PICK j \in 1 .. Len(down) : down[j].event /\ down[j].cursor = r
          BY <4>2 DEF Sent
        <5>2. j \in 1 .. Len(down) + 1 /\ down'[j] = down[j]  BY <1>0, <2>2
        <5> QED BY <5>1, <5>2, Zenon
      <4>3. CASE isEvent /\ r = position
        <5>1. Len(down) + 1 \in 1 .. Len(down) + 1  BY <1>0
        <5>2. down'[Len(down) + 1].event /\ down'[Len(down) + 1].cursor = r
          BY <1>3, <2>1, <4>3, Zenon
        <5> QED BY <5>1, <5>2, Zenon
      <4> QED BY <1>7, <4>1, <4>2, <4>3
    <3> QED BY <3>2, <3>3 DEF CoveredNext
  <2>6. CursorsOK' /\ FramesOK'
    <3>1. \A i \in Len(down) + 1 .. Len(down') :
               /\ down'[i].type = "delivery" => CoveredNext(down'[i].cursor, i)
               /\ down'[i].event => down'[i].type = "delivery"
      BY <1>3, <2>1, <2>4, <2>5, Zenon
    <3> QED BY <2>3, <3>1, GrowsClient
  <2>7. /\ Len(session'.sent) = Len(session.sent) + 1
        /\ session'.sent[Len(session.sent) + 1] = position
        /\ \A i \in 1 .. Len(session.sent) : session'.sent[i] = session.sent[i]
    <3>1. session'.sent = Append(session.sent, position)  BY <1>4, <2>0
    <3> QED BY <1>0, <1>1, <3>1, AppendFacts
  <2>8. IndexOK'
    <3>1. client.count <= Len(session.sent) /\ client.count \in Nat
          /\ \A i \in 1 .. Len(down) : down[i].index <= Len(session.sent) /\ down[i].index \in Nat
      BY <1>0, <1>7, Types DEF IndexOK, FrameType, TypeOK, ClientType
    <3>2. client'.count <= Len(session'.sent)  BY <1>0, <2>7, <3>1
    <3>3. ASSUME NEW i \in 1 .. Len(down') PROVE down'[i].index <= Len(session'.sent)
      <4>1. CASE i \in 1 .. Len(down)
        <5>1. down'[i].index = down[i].index  BY <2>2, <4>1
        <5> QED BY <1>0, <2>7, <3>1, <4>1, <5>1
      <4>2. CASE i = Len(down) + 1
        <5>1. down'[i].index = Len(session.sent) + 1  BY <1>3, <2>1, <4>2
        <5> QED BY <1>0, <2>7, <5>1
      <4> QED BY <1>0, <2>1, <4>1, <4>2
    <3> QED BY <3>2, <3>3 DEF IndexOK
  <2>9. ASSUME NEW i \in 1 .. Len(session'.sent) PROVE CoveredNext(session'.sent[i], Len(down'))
    <3>1. CASE i \in 1 .. Len(session.sent)
      <4>1. session.sent[i] \in Nat /\ Covered(session.sent[i], Len(down))
        BY <1>0, <1>7, <3>1, Types DEF SessionOK
      <4>2. Len(down) \in 0 .. Len(down) /\ Len(down') \in Len(down) .. Len(down')
        BY <1>0, <2>1
      <4>3. CoveredNext(session.sent[i], Len(down'))  BY <1>0, <2>3, <4>1, <4>2, GrowsKeeps
      <4> QED BY <2>7, <3>1, <4>3
    <3>2. CASE i = Len(session.sent) + 1  BY <2>1, <2>5, <2>7, <3>2
    <3> QED BY <1>0, <2>7, <3>1, <3>2
  <2>10. CoveredNext(session'.scan, Len(down'))  BY <1>4, <2>0, <2>1, <2>5
  <2>11. SessionOK'  BY <2>9, <2>10 DEF SessionOK, Covered, CoveredNext, Sent, Wanted
  <2> QED BY <1>5, <2>6, <2>8, <2>11, NoBound DEF Rest
<1> QED BY <1>6, <1>7

\* The first event of the page that is the stream's: nothing of the stream lies
\* between the scan and it.
LEMMA EventStep ==
    ASSUME StreamInv, [Next]_vars, Stops # {}, Deliver(session, Min(Stops), TRUE),
           session.at \in {"query", "requery"}, UNCHANGED <<client, late>>
    PROVE  Rest'
<1>0. /\ TypeOK /\ SessionOK /\ session \in SessionType /\ published \in Nat
      /\ session.scan \in Nat
  BY Types DEF StreamInv, TypeOK
<1> DEFINE m == Min(Stops)
<1>1. m \in Stops /\ m \in Page /\ m \in 0 .. published /\ \A r \in Stops : m <= r
  BY <1>0, PageFacts
<1>2. Deliver(session, m, TRUE)  OBVIOUS
<1> HIDE DEF m
<1>3. ASSUME client.open, NEW r \in 1 .. m, log[r] = "match"
      PROVE  r \in client.got \/ r \in late' \/ Sent(Len(down), r) \/ (TRUE /\ r = m)
  <2>1. CASE r \in 1 .. session.scan
    BY <1>0, <1>3, <2>1 DEF SessionOK, Covered, Wanted
  <2>2. CASE r \notin 1 .. session.scan
    <3>1. r \in session.scan + 1 .. published /\ r <= m  BY <1>0, <1>1, <2>2
    <3>2. r \in Hits  BY <1>3, <3>1 DEF Hits
    <3>3. r \in Page  BY <1>0, <1>1, <3>1, <3>2, PageComplete
    <3>4. r \in Stops  BY <1>3, <3>3 DEF Stops
    <3>5. r = m  BY <1>0, <1>1, <3>1, <3>4
    <3> QED BY <3>5
  <2> QED BY <2>1, <2>2
<1>4. session.at # "closed" /\ late \subseteq late' /\ TRUE \in BOOLEAN  OBVIOUS
<1>5. client.open => \A r \in 1 .. m :
               log[r] = "match" => \/ r \in client.got \/ r \in late' \/ Sent(Len(down), r)
                                   \/ TRUE /\ r = m
  BY <1>3, Zenon
<1> QED BY <1>0, <1>1, <1>2, <1>4, <1>5, DeliverStep, Zenon

\* The watermark: what was published since the empty scan is put on record.
LEMMA WatermarkStep ==
    ASSUME StreamInv, [Next]_vars, WatermarkSent, UNCHANGED client,
           session.at \in {"watermark", "rewatermark"}
    PROVE  Rest'
<1>0. /\ TypeOK /\ SessionOK /\ BoundOK /\ session \in SessionType /\ published \in Nat
      /\ session.scan \in Nat /\ session.bound \in Nat /\ visible_hlc \in 0 .. published
  BY Types DEF StreamInv, TypeOK
<1>1. /\ Deliver(Marked, visible_hlc, FALSE)
      /\ late' = late \cup (session.bound + 1 .. visible_hlc)
  BY Zenon DEF WatermarkSent, Marked
<1>2. Marked \in SessionType /\ Marked.sent = session.sent  BY <1>0, MarkedType
<1>3. ASSUME client.open, NEW r \in 1 .. visible_hlc, log[r] = "match"
      PROVE  r \in client.got \/ r \in late' \/ Sent(Len(down), r)
  <2>1. CASE r \in 1 .. session.scan
    <3>1. r \in client.got \/ r \in late \/ Sent(Len(down), r)
      BY <1>0, <1>3, <2>1 DEF SessionOK, Covered, Wanted
    <3> QED BY <1>1, <3>1
  <2>2. CASE r \in session.scan + 1 .. session.bound
    BY <1>0, <1>3, <2>2 DEF BoundOK, Wanted
  <2>3. CASE r \in session.bound + 1 .. visible_hlc  BY <1>1, <2>3
  <2>4. r \in Nat /\ r >= 1 /\ r <= visible_hlc  BY <1>0
  <2> QED BY <1>0, <2>1, <2>2, <2>3, <2>4
<1>4. session.at # "closed" /\ late \subseteq late' /\ FALSE \in BOOLEAN  BY <1>1
<1>5. client.open => \A r \in 1 .. visible_hlc :
               log[r] = "match" => \/ r \in client.got \/ r \in late' \/ Sent(Len(down), r)
                                   \/ FALSE /\ r = visible_hlc
  BY <1>3, Zenon
<1> QED BY <1>0, <1>1, <1>2, <1>4, <1>5, DeliverStep, Zenon

\* Nothing but the journal moves.
LEMMA SameStep ==
    ASSUME StreamInv, [Next]_vars, UNCHANGED <<session, down, client, late>>
    PROVE  Rest'
<1>0. TypeOK /\ SessionOK /\ BoundOK  BY Zenon DEF StreamInv
<1>1. IndexOK' /\ CursorsOK' /\ FramesOK' /\ SessionOK'
  <2>1. CASE session.at = "closed"  BY <2>1, QuietStep
  <2>2. CASE session.at # "closed"
    <3>1. client.open => Covered(session'.scan, Len(down))  BY <1>0, <2>2 DEF SessionOK
    <3> QED BY <2>2, <3>1, QuietStep
  <2> QED BY <2>1, <2>2
<1>2. BoundOK'
  <2>1. /\ published \in Nat /\ published' \in Nat /\ published <= published'
        /\ \A s \in 1 .. published : log'[s] = log[s]
    <3>1. published' = Len(log') /\ log' \in Seq({"match", "near", "bad", "other"})
      BY <1>0, StoreTypeStep
    <3> QED BY <1>0, <3>1, Types, StoreTypeStep
  <2>2. session.scan \in Nat /\ session.bound \in Nat  BY <1>0, Types
  <2>3. ASSUME session.at \in {"watermark", "rewatermark"}
        PROVE  session.bound <= published' /\ \A s \in session.scan + 1 .. session.bound : log'[s] # "match"
    <3>1. session.bound <= published /\ \A s \in session.scan + 1 .. session.bound : log[s] # "match"
      BY <1>0, <2>3 DEF BoundOK, Wanted
    <3>2. \A s \in session.scan + 1 .. session.bound : s \in 1 .. published  BY <2>1, <2>2, <3>1
    <3> QED BY <2>1, <2>2, <3>1, <3>2
  <2> QED BY <2>3 DEF BoundOK, Wanted
<1> QED BY <1>1, <1>2 DEF Rest

\* What the client has stays good when the connection goes.
LEMMA CursorsStay ==
    ASSUME StreamInv, [Next]_vars, UNCHANGED late,
           client'.got = client.got, client'.cursors = client.cursors, client'.last = client.last
    PROVE  CursorsOK' /\ \A c \in client.cursors \cup {0, client.last} : CoveredNext(c, 0)
<1>0. TypeOK /\ CursorsOK  BY Zenon DEF StreamInv
<1>1. ASSUME NEW c \in client.cursors PROVE CoveredNext(c, 0)
  <2>1. c \in Nat /\ Covered(c, 0)  BY <1>0, Types DEF CursorsOK
  <2>2. 1 .. 0 = {} /\ 0 \in Nat  OBVIOUS
  <2> QED BY <1>0, <2>1, <2>2, Stays
<1>2. CoveredNext(0, 0)
  <2>1. published' = Len(log') /\ log' \in Seq({"match", "near", "bad", "other"})
    BY <1>0, StoreTypeStep
  <2>2. 0 <= published' /\ 1 .. 0 = {}  BY <2>1
  <2> QED BY <2>2 DEF CoveredNext
<1>3. client.last \in client.cursors \cup {0}  BY <1>0 DEF CursorsOK
<1>4. CursorsOK'  BY <1>1, <1>3 DEF CursorsOK, Covered, CoveredNext, Sent, Wanted
<1> QED BY <1>1, <1>2, <1>3, <1>4

\* The client goes, and with it the frames it did not get.
LEMMA DisconnectStep == ASSUME StreamInv, [Next]_vars, Disconnect PROVE Rest'
<1>0. TypeOK /\ BoundOK /\ client \in ClientType  BY Zenon DEF StreamInv, TypeOK
<1>1. /\ client' = [client EXCEPT !.open = FALSE] /\ down' = <<>>
      /\ UNCHANGED <<late, session, log, published>>
  BY DEF Disconnect, storeVars
<1>2. /\ client'.got = client.got /\ client'.cursors = client.cursors
      /\ client'.last = client.last /\ ~client'.open
  BY <1>0, <1>1 DEF ClientType
<1>3. CursorsOK'  BY <1>1, <1>2, CursorsStay
<1>4. FramesOK'  BY <1>1 DEF FramesOK
<1>5. BoundOK'  BY <1>0, <1>1 DEF BoundOK, Wanted
<1> QED BY <1>2, <1>3, <1>4, <1>5 DEF Rest, IndexOK, SessionOK

\* The client comes back with a cursor it was sent.
LEMMA ConnectStep ==
    ASSUME StreamInv, [Next]_vars,
           NEW resume \in client.cursors \cup {0, client.last}, Connect(resume)
    PROVE  Rest'
<1>0. TypeOK /\ client \in ClientType /\ resume \in Nat  BY Types DEF StreamInv, TypeOK
<1>1. /\ client' = [client EXCEPT !.open = TRUE, !.count = 0] /\ down' = <<>>
      /\ UNCHANGED late /\ session' = OpenSession(resume)
  BY Zenon DEF Connect
<1>2. /\ client'.got = client.got /\ client'.cursors = client.cursors
      /\ client'.last = client.last /\ client'.count = 0
  BY <1>0, <1>1 DEF ClientType
<1>3. CursorsOK' /\ CoveredNext(resume, 0)  BY <1>1, <1>2, CursorsStay
<1>4. FramesOK'  BY <1>1 DEF FramesOK
<1>5. session'.at = "poll" /\ session'.scan = resume /\ session'.sent = <<>>
  BY <1>0, <1>1, OpenSessionType
<1>6. Len(down') = 0 /\ Len(session'.sent) = 0 /\ 1 .. 0 = {}  BY <1>1, <1>5
<1>7. IndexOK'  BY <1>2, <1>6 DEF IndexOK
<1>8. SessionOK'
  BY <1>3, <1>5, <1>6 DEF SessionOK, Covered, CoveredNext, Sent, Wanted
<1> QED BY <1>3, <1>4, <1>5, <1>7, <1>8, NoBound DEF Rest

\* The client takes the first frame: everything before its cursor it has by then,
\* and the frames behind it have moved up by one.
LEMMA ReceiveStep == ASSUME StreamInv, [Next]_vars, Receive PROVE Rest'
<1>0. /\ TypeOK /\ IndexOK /\ CursorsOK /\ FramesOK /\ SessionOK /\ BoundOK
      /\ client \in ClientType /\ down \in Seq(FrameType) /\ Len(down) \in Nat
  BY Types DEF StreamInv, TypeOK
<1> DEFINE frame == Head(down)
<1>1. /\ client.open /\ down # <<>> /\ down' = Tail(down)
      /\ UNCHANGED <<session, late, log, published>>
      /\ client' = IF frame.type = "delivery"
                   THEN [client EXCEPT
                            !.count = frame.index, !.last = frame.cursor,
                            !.cursors = @ \cup {frame.cursor},
                            !.got = IF frame.event THEN @ \cup {frame.cursor} ELSE @]
                   ELSE client
  BY Zenon DEF Receive, storeVars
<1>2. /\ Len(down) >= 1 /\ Len(down') = Len(down) - 1 /\ frame = down[1]
      /\ \A i \in 1 .. Len(down) - 1 : down'[i] = down[i + 1]
  BY <1>0, <1>1
<1>3. /\ frame.index \in Nat /\ frame.cursor \in Nat /\ 1 \in 1 .. Len(down)
  <2>1. 1 \in 1 .. Len(down)  BY <1>0, <1>2
  <2>2. frame \in FrameType  BY <1>0, <1>2, <2>1
  <2> QED BY <2>1, <2>2 DEF FrameType
<1> HIDE DEF frame
<1>4. /\ client'.open = client.open
      /\ client'.got = IF frame.type = "delivery" /\ frame.event
                       THEN client.got \cup {frame.cursor} ELSE client.got
      /\ client'.cursors = IF frame.type = "delivery"
                           THEN client.cursors \cup {frame.cursor} ELSE client.cursors
      /\ client'.last = IF frame.type = "delivery" THEN frame.cursor ELSE client.last
      /\ client'.count = IF frame.type = "delivery" THEN frame.index ELSE client.count
  BY <1>0, <1>1 DEF ClientType
<1>5. frame.event => frame.type = "delivery" /\ frame.cursor \in client'.got
  <2>1. frame.event => frame.type = "delivery"  BY <1>0, <1>2, <1>3, Zenon DEF FramesOK
  <2> QED BY <1>4, <2>1
<1>6. ASSUME NEW c \in Nat, NEW n \in 1 .. Len(down), Covered(c, n) PROVE CoveredNext(c, n - 1)
  <2>1. n \in Nat /\ n - 1 \in Nat  BY <1>0
  <2>2. ASSUME NEW j \in 1 .. n, down[j].event
        PROVE  \/ down[j].cursor \in client'.got
               \/ \E k \in 1 .. n - 1 : down'[k].event /\ down'[k].cursor = down[j].cursor
    <3>1. CASE j = 1  BY <1>2, <1>5, <2>2, <3>1
    <3>2. CASE j # 1
      <4>1. j - 1 \in 1 .. n - 1 /\ down'[j - 1] = down[j]  BY <1>0, <1>2, <3>2
      <4> QED BY <2>2, <4>1, Zenon
    <3> QED BY <3>1, <3>2
  <2>3. client.got \subseteq client'.got /\ late \subseteq late'  BY <1>1, <1>4
  <2> QED BY <1>0, <1>6, <2>1, <2>2, <2>3, Stays, Zenon
<1>7. CursorsOK'
  <2>1. client'.last \in client'.cursors \cup {0}  BY <1>0, <1>4 DEF CursorsOK
  <2>2. ASSUME NEW c \in client'.cursors PROVE CoveredNext(c, 0)
    <3>1. CASE c \in client.cursors
      <4>1. c \in Nat /\ Covered(c, 0)  BY <1>0, <3>1, Types DEF CursorsOK
      <4>2. 0 \in Nat /\ 1 .. 0 = {} /\ client.got \subseteq client'.got /\ late \subseteq late'
        BY <1>1, <1>4
      <4> QED BY <1>0, <4>1, <4>2, Stays
    <3>2. CASE frame.type = "delivery" /\ c = frame.cursor
      <4>1. Covered(c, 1)  BY <1>0, <1>2, <1>3, <3>2, Zenon DEF FramesOK
      <4> QED BY <1>3, <1>6, <3>2, <4>1
    <3> QED BY <1>4, <3>1, <3>2
  <2> QED BY <2>1, <2>2 DEF CursorsOK, Covered, CoveredNext, Sent, Wanted
<1>8. FramesOK'
  <2>1. ASSUME NEW i \in 1 .. Len(down')
        PROVE  /\ down'[i].type = "delivery" => CoveredNext(down'[i].cursor, i)
               /\ down'[i].event => down'[i].type = "delivery"
    <3>1. i + 1 \in 1 .. Len(down) /\ i + 1 - 1 = i /\ down'[i] = down[i + 1]  BY <1>0, <1>2
    <3>2. down[i + 1].cursor \in Nat  BY <1>0, <3>1, Types DEF FrameType
    <3>3. /\ down[i + 1].type = "delivery" => Covered(down[i + 1].cursor, i + 1)
          /\ down[i + 1].event => down[i + 1].type = "delivery"
      BY <1>0, <3>1, Zenon DEF FramesOK
    <3>4. down[i + 1].type = "delivery" => CoveredNext(down[i + 1].cursor, i)
      BY <1>6, <3>1, <3>2, <3>3
    <3> QED BY <3>1, <3>3, <3>4
  <2> QED BY <2>1 DEF FramesOK, Covered, CoveredNext, Sent, Wanted
<1>9. IndexOK'
  <2> SUFFICES ASSUME session.at # "closed"
               PROVE  /\ client'.count <= Len(session.sent)
                      /\ \A i \in 1 .. Len(down') : down'[i].index <= Len(session.sent)
    BY <1>1 DEF IndexOK
  <2>1. /\ client.count <= Len(session.sent)
        /\ \A i \in 1 .. Len(down) : down[i].index <= Len(session.sent)
    BY <1>0, <1>1 DEF IndexOK
  <2>2. client'.count <= Len(session.sent)  BY <1>2, <1>3, <1>4, <2>1
  <2>3. ASSUME NEW i \in 1 .. Len(down') PROVE down'[i].index <= Len(session.sent)
    <3>1. i + 1 \in 1 .. Len(down) /\ down'[i] = down[i + 1]  BY <1>0, <1>2
    <3> QED BY <2>1, <3>1
  <2> QED BY <2>2, <2>3
<1>10. SessionOK'
  <2>1. ASSUME session.at # "closed", NEW c \in Nat, Covered(c, Len(down))
        PROVE  CoveredNext(c, Len(down'))
    <3>1. Len(down) \in 1 .. Len(down)  BY <1>0, <1>2
    <3> QED BY <1>2, <1>6, <2>1, <3>1
  <2>2. ASSUME session.at # "closed" PROVE CoveredNext(session.scan, Len(down'))
    BY <1>0, <1>1, <2>1, <2>2, Types DEF SessionOK
  <2>3. ASSUME session.at # "closed", NEW i \in 1 .. Len(session.sent)
        PROVE  CoveredNext(session.sent[i], Len(down'))
    BY <1>0, <1>1, <2>1, <2>3, Types DEF SessionOK
  <2> QED BY <1>1, <2>2, <2>3 DEF SessionOK, Covered, CoveredNext, Sent, Wanted
<1>11. BoundOK'  BY <1>0, <1>1 DEF BoundOK, Wanted
<1> QED BY <1>7, <1>8, <1>9, <1>10, <1>11 DEF Rest

\* The invariant holds first.
LEMMA StreamInit == Init => StreamInv
<1> SUFFICES ASSUME Init PROVE StreamInv  OBVIOUS
<1>1. /\ session = NoSession /\ control = <<>> /\ down = <<>> /\ log = <<>> /\ published = 0
      /\ client = [open |-> FALSE, count |-> 0, last |-> 0, cursors |-> {}, got |-> {}]
      /\ visible_hlc = 0 /\ late = {} /\ kind \in Kinds
  BY DEF Init
<1>2. client \in ClientType /\ ~client.open /\ client.last = 0 /\ client.cursors = {}
  BY <1>1 DEF ClientType
<1>3. TypeOK
  <2>1. log \in Seq({"match", "near", "bad", "other"}) /\ published = Len(log)
        /\ visible_hlc \in 0 .. published /\ control \in Seq(ControlType)
        /\ down \in Seq(FrameType) /\ late \in SUBSET Nat
    BY <1>1
  <2> QED BY <1>1, <1>2, <2>1, NoSessionType DEF TypeOK
<1>4. Len(down) = 0 /\ 1 .. 0 = {}  BY <1>1
<1>5. session.at = "closed"  BY <1>1, NoSessionType
<1> QED BY <1>2, <1>3, <1>4, <1>5
        DEF StreamInv, IndexOK, CursorsOK, FramesOK, SessionOK, BoundOK

\* Every step keeps the invariant.
LEMMA StreamNext == StreamInv /\ [Next]_vars => StreamInv'
<1> SUFFICES ASSUME StreamInv, [Next]_vars PROVE StreamInv'  OBVIOUS
<1>0. TypeOK /\ IndexOK  BY Zenon DEF StreamInv
<1>1. TypeOK'  BY <1>0, TypeStep
<1>2. Rest'
  BY <1>0, EndsStep, EndsWithFrameStep, MovesStep, ScanEmptyStep, ScanOnStep, WaitEndsStep,
     StandsStep, WatermarkStep, EventStep, ReceiveStep, DisconnectStep, ConnectStep, SameStep,
     SessionForms, Zenon
<1> QED BY <1>1, <1>2, Zenon DEF StreamInv, Rest

\* A cursor the client was sent has no undelivered event before it, whatever
\* connections, acknowledgements and failures came between, but for those that
\* were published while a watermark was being made (apply_ack, drain_control, poll and
\* maybe_emit_watermark of the sessions, run_subscription_loop of the transport).
THEOREM CursorsHaveNoGaps == Spec => []StreamNoGaps
<1>1. StreamInv => StreamNoGaps
  <2> SUFFICES ASSUME StreamInv, NEW cursor \in client.cursors, NEW s \in 1 .. cursor, Wanted(s)
               PROVE  s \in client.got \cup late
    BY DEF StreamNoGaps
  <2>1. Covered(cursor, 0)  BY Zenon DEF StreamInv, CursorsOK
  <2>2. s \in client.got \/ s \in late \/ Sent(0, s)  BY <2>1, Zenon DEF Covered
  <2>3. ~Sent(0, s)  BY DEF Sent
  <2> QED BY <2>2, <2>3
<1> QED BY <1>1, StreamInit, StreamNext, PTL DEF Spec

=============================================================================
