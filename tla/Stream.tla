------------------------------- MODULE Stream -------------------------------
(***************************************************************************)
(* A remote subscription: the session that replays and then follows the    *)
(* journal for one client (syncbat subscription_runtime, its event, entity *)
(* and receipt streams), and the connection that carries it (netbat        *)
(* stream_tcp).  A session scans the journal in pages, sends each event it *)
(* finds with a cursor to resume from, and, when a scan finds nothing, a   *)
(* watermark: a cursor that says nothing more lies before it.  The client  *)
(* acknowledges deliveries, may go away at any time and comes back with a  *)
(* cursor it was sent.  Beside it the store's writer publishes events.     *)
(*                                                                         *)
(* An event is its global sequence.  Sequence 0 is the store's own opening *)
(* event, which no subscription selects, so position 0 also stands for the *)
(* beginning.  Of an event's content only its class is kept:               *)
(*   "match"   it lies in the subscription's region and is its to deliver  *)
(*   "near"    in the region, but of a descendant entity, another kind     *)
(*   "bad"     in the region, but it does not decode as a receipt          *)
(*   "other"   outside the region, or hidden                               *)
(***************************************************************************)
EXTENDS Integers, Sequences, FiniteSetsExt

CONSTANTS
    Kinds,           \* the kinds of stream: "event", "entity", "receipt"
    Window,          \* queue_capacity: deliveries not yet acknowledged
    PageSize,        \* SubscriptionRuntimeConfig::query_page_size
    WakeCapacity,    \* capacity of the wake subscription's channel
    MaxEvents,       \* bound: events written
    MaxControls,     \* bound: control frames on their way to the session
    MaxDeliveries,   \* bound: deliveries of a connection that are acknowledged
    MaxIncidents     \* bound: failed reads, split lines, stale acknowledgements,
                     \* cancels, disconnects, returns with an older cursor

ASSUME StreamAssumption ==
    /\ Kinds \subseteq {"event", "entity", "receipt"}
    /\ {Window, PageSize, WakeCapacity} \subseteq Nat \ {0}
    /\ {MaxEvents, MaxControls, MaxDeliveries, MaxIncidents} \subseteq Nat

VARIABLES
    kind,            \* the stream's kind
    log,             \* the class of each event
    published,       \* the last sequence a query sees
    visible_hlc,     \* the frontier's visible point
    writer,          \* the writer's place in publish_then_broadcast
    wake,            \* the lossy subscription that wakes the session
    session,         \* the server's side: session and place of its poll
    control,         \* control frames not yet applied
    reading,         \* whether the control reader still reads
    down,            \* frames not yet received
    listening,       \* whether the listener still accepts
    client,          \* the client
    late,            \* history: events published between an empty scan and the
                     \* watermark that followed it, and before that
    incidents        \* what the bound leaves

storeVars == <<log, published, visible_hlc, writer>>
connectionVars == <<control, reading, down, listening>>
vars == <<kind, storeVars, wake, session, connectionVars, client, late, incidents>>

Classes ==
    CASE kind = "event"   -> {"match", "other"}
      [] kind = "entity"  -> {"match", "near", "other"}
      [] kind = "receipt" -> {"match", "near", "bad", "other"}

Incident == incidents > 0 /\ incidents' = incidents - 1

-----------------------------------------------------------------------------
(* The writer: publish, broadcast, and only then the frontier.             *)

Publish(class) ==
    /\ writer = "idle" /\ published < MaxEvents
    /\ log' = Append(log, class)
    /\ published' = published + 1
    /\ writer' = "broadcast"
    /\ UNCHANGED <<kind, visible_hlc, wake, session, connectionVars, client, late, incidents>>

\* A channel that is full is dropped from the subscriber list.
Broadcast ==
    /\ writer = "broadcast"
    /\ wake' = IF log[published] = "other" \/ ~wake.open \/ session.at = "closed" THEN wake
               ELSE IF wake.queued < WakeCapacity THEN [wake EXCEPT !.queued = @ + 1]
               ELSE [wake EXCEPT !.open = FALSE]
    /\ writer' = "advance"
    /\ UNCHANGED <<kind, log, published, visible_hlc, session, connectionVars, client, late,
                   incidents>>

AdvanceVisible ==
    /\ writer = "advance"
    /\ visible_hlc' = published
    /\ writer' = "idle"
    /\ UNCHANGED <<kind, log, published, wake, session, connectionVars, client, late, incidents>>

-----------------------------------------------------------------------------
(* The session.                                                            *)

NoSession == [at |-> "closed", phase |-> "Ended", scan |-> 0, sent |-> <<>>, last_acked |-> 0,
              watermarked |-> 0, terminal |-> "none", bound |-> 0]

\* Mutant: a session starts at the frontier, whatever the client has had.
OpenAtFrontier(resume) ==
    [NoSession EXCEPT !.at = "poll", !.phase = "Replaying", !.scan = visible_hlc,
                      !.watermarked = visible_hlc]

\* open: the event stream forgets which watermark the client has had.
OpenSession(resume) ==
    [NoSession EXCEPT !.at = "poll", !.phase = "Replaying", !.scan = resume,
                      !.watermarked = IF kind = "event" THEN 0 ELSE resume]

in_flight == Len(session.sent) - session.last_acked

End(s, terminal) == [s EXCEPT !.phase = "Ended", !.terminal = terminal]

\* An acknowledgement names a delivery of this session and the cursor it
\* carried, and none before the last one named.  The entity and the receipt
\* stream go back to that cursor.
apply_ack(s, index, cursor) ==
    IF \/ index \notin 1 .. Len(s.sent)
       \/ s.sent[index] # cursor
       \/ index < s.last_acked
    THEN End(s, "ack_invalid")
    ELSE [s EXCEPT !.last_acked = index,
                   !.scan = IF kind = "event" THEN @ ELSE cursor]

apply_control(frame, s) ==
    CASE frame.type = "ack"          -> apply_ack(s, frame.index, frame.cursor)
      [] frame.type = "cancel"       -> End(s, "client_cancel")
      [] frame.type = "disconnected" -> End(s, "none")
      [] frame.type = "malformed"    -> End(s, "malformed_control")

\* The session after the first n controls.
drained[n \in 0 .. Len(control)] ==
    IF n = 0 THEN session ELSE apply_control(control[n], drained[n - 1])

drain_control == drained[Len(control)]

\* write_delivery: what is written to a client that has gone is lost, or fails.
Write(frame, next) ==
    IF client.open
    THEN down' = Append(down, frame) /\ session' = next
    ELSE down' = down /\ session' \in {next, NoSession}

\* run_subscription_loop returns after a terminal delivery.
WriteTerminal(terminal) ==
    Write([type |-> terminal, index |-> 0, cursor |-> 0, event |-> FALSE], NoSession)

\* A delivery of the event or of the watermark at a position.
Deliver(s, position, isEvent) ==
    Write([type |-> "delivery", index |-> Len(s.sent) + 1, cursor |-> position, event |-> isEvent],
          [s EXCEPT !.at = "poll", !.sent = Append(@, position), !.scan = position])

\* What poll does with the controls before it goes on to its next step.
DrainThen(next) ==
    LET s == drain_control
    IN  /\ control' = <<>>
        /\ IF s.terminal # "none" THEN WriteTerminal(s.terminal)
           ELSE /\ session' = IF s.phase = "Ended" THEN NoSession ELSE [s EXCEPT !.at = next]
                /\ UNCHANGED down

Poll ==
    /\ session.at = "poll"
    /\ DrainThen("query")
    /\ UNCHANGED <<kind, storeVars, wake, reading, listening, client, late, incidents>>

\* query_entries_after: the first PageSize events of the region past the scan.
Page ==
    LET hits == {s \in session.scan + 1 .. published : log[s] # "other"}
    IN  {s \in hits : Cardinality({r \in hits : r < s}) < PageSize}

\* The events of a page at which the scan stops.
Stops == {s \in Page : log[s] # "near"}

\* A scan that finds nothing is followed by the watermark of the replay, or by
\* the wait; after a wake, by a watermark.
ScanEmpty ==
    /\ session.at \in {"query", "requery"}
    /\ Page = {}
    /\ session' = [session EXCEPT !.at = CASE @ = "requery"                  -> "rewatermark"
                                           [] session.phase = "Replaying"    -> "watermark"
                                           [] OTHER                          -> "wait",
                                  !.bound = published]
    /\ UNCHANGED <<kind, storeVars, wake, connectionVars, client, late, incidents>>

\* A page without a delivery: the scan goes on behind it.
ScanOn ==
    /\ session.at \in {"query", "requery"}
    /\ Page # {} /\ Stops = {}
    /\ session' = [session EXCEPT !.scan = Max(Page)]
    /\ UNCHANGED <<kind, storeVars, wake, connectionVars, client, late, incidents>>

\* Mutant: a full window loses the event and keeps the session.
ScanStopDropping ==
    /\ session.at \in {"query", "requery"}
    /\ Stops # {}
    /\ LET s == Min(Stops)
       IN  CASE log[s] = "bad"       -> WriteTerminal("receipt_decode_failed")
             [] in_flight >= Window  -> /\ session' = [session EXCEPT !.at = "poll", !.scan = s]
                                        /\ UNCHANGED down
             [] OTHER                -> Deliver(session, s, TRUE)
    /\ UNCHANGED <<kind, storeVars, wake, control, reading, listening, client, late, incidents>>

\* The first event of the page that is the stream's, delivered if the window
\* has room; a client too slow to acknowledge is cut off.
ScanStop ==
    /\ session.at \in {"query", "requery"}
    /\ Stops # {}
    /\ LET s == Min(Stops)
       IN  CASE log[s] = "bad"       -> WriteTerminal("receipt_decode_failed")
             [] in_flight >= Window  -> WriteTerminal("slow_consumer")
             [] OTHER                -> Deliver(session, s, TRUE)
    /\ UNCHANGED <<kind, storeVars, wake, control, reading, listening, client, late, incidents>>

\* The receipt stream reads an event to know its kind, the others to send it.
ReadsEvent == IF kind = "receipt" THEN Page # {} ELSE Stops # {} /\ in_flight < Window

\* The store cannot read the event: poll fails, the connection ends without a
\* frame, and the listener takes the error for one of its own and returns.
ReadFails ==
    /\ session.at \in {"query", "requery"}
    /\ ReadsEvent
    /\ Incident
    /\ session' = NoSession
    /\ listening' = FALSE
    /\ UNCHANGED <<kind, storeVars, wake, control, reading, down, client, late>>

\* Nothing new in the frontier: the replay is over, or the poll.
WatermarkStands ==
    /\ visible_hlc <= session.watermarked
    /\ session' = [session EXCEPT !.at = IF @ = "watermark" THEN "wait" ELSE "poll",
                                  !.phase = "Live", !.bound = 0]
    /\ UNCHANGED <<down, late>>

WatermarkRefused ==
    /\ visible_hlc > session.watermarked /\ in_flight >= Window
    /\ WriteTerminal("slow_consumer")
    /\ UNCHANGED late

WatermarkSent ==
    /\ visible_hlc > session.watermarked /\ in_flight < Window
    /\ Deliver([session EXCEPT !.watermarked = visible_hlc, !.phase = "Live", !.bound = 0],
               visible_hlc, FALSE)
    /\ late' = late \cup (session.bound + 1 .. visible_hlc)

\* maybe_emit_watermark reads the frontier after the scan.
Watermark ==
    /\ session.at \in {"watermark", "rewatermark"}
    /\ WatermarkStands \/ WatermarkRefused \/ WatermarkSent
    /\ UNCHANGED <<kind, storeVars, wake, control, reading, listening, client, incidents>>

\* The wait ends with a notification ...
Wake ==
    /\ session.at = "wait" /\ wake.queued > 0
    /\ wake' = [wake EXCEPT !.queued = @ - 1]
    /\ DrainThen("requery")
    /\ UNCHANGED <<kind, storeVars, reading, listening, client, late, incidents>>

\* Mutant: the wait has no timeout.
WaitEndsWhenDropped ==
    /\ session.at = "wait" /\ wake.queued = 0 /\ ~wake.open
    /\ session' = [session EXCEPT !.at = "poll"]
    /\ UNCHANGED <<kind, storeVars, wake, connectionVars, client, late, incidents>>

\* ... or without one: the timeout, or at once when the subscription was dropped.
WaitEnds ==
    /\ session.at = "wait" /\ wake.queued = 0
    /\ session' = [session EXCEPT !.at = "poll"]
    /\ UNCHANGED <<kind, storeVars, wake, connectionVars, client, late, incidents>>

-----------------------------------------------------------------------------
(* The client and the control reader.                                      *)

\* It keeps the cursors it was sent, and counts the deliveries of a connection.
Receive ==
    /\ client.open /\ down # <<>>
    /\ LET frame == Head(down)
       IN  client' = IF frame.type = "delivery"
                     THEN [client EXCEPT
                              !.count = frame.index, !.last = frame.cursor,
                              !.cursors = @ \cup {frame.cursor},
                              !.got = IF frame.event THEN @ \cup {frame.cursor} ELSE @]
                     ELSE client
    /\ down' = Tail(down)
    /\ UNCHANGED <<kind, storeVars, wake, session, control, reading, listening, late, incidents>>

\* read_control_loop: a control frame in order, the last one unless it is an
\* acknowledgement.
Control(frame) ==
    /\ client.open /\ reading /\ session.at # "closed"
    /\ Len(control) < MaxControls
    /\ control' = Append(control, frame)
    /\ reading' = (frame.type = "ack")

\* A delivery of this connection, in whatever order, again and again.
Ack(index) ==
    /\ session.at # "closed" /\ index <= client.count
    /\ Len(session.sent) <= MaxDeliveries
    /\ Control([type |-> "ack", index |-> index, cursor |-> session.sent[index]])
    /\ UNCHANGED <<kind, storeVars, wake, session, down, listening, client, late, incidents>>

\* A delivery of an earlier connection.
StaleAck(index, cursor) ==
    /\ cursor \in client.cursors
    /\ Incident
    /\ Control([type |-> "ack", index |-> index, cursor |-> cursor])
    /\ UNCHANGED <<kind, storeVars, wake, session, down, listening, client, late>>

\* Nothing but the type of the others is read.
Other(type) == [type |-> type, index |-> 0, cursor |-> 0]

\* A read timeout in the middle of a line: read_line drops what it had, and the
\* rest of the line is no frame.
SplitLine ==
    /\ Incident
    /\ Control(Other("malformed"))
    /\ UNCHANGED <<kind, storeVars, wake, session, down, listening, client, late>>

Cancel ==
    /\ Incident
    /\ Control(Other("cancel"))
    /\ UNCHANGED <<kind, storeVars, wake, session, down, listening, client, late>>

\* The client goes; the reader finds the end of the stream if it still reads.
Disconnect ==
    /\ client.open /\ session.at # "closed"
    /\ Incident
    /\ client' = [client EXCEPT !.open = FALSE]
    /\ down' = <<>>
    /\ control' = IF reading THEN Append(control, Other("disconnected")) ELSE control
    /\ reading' = FALSE
    /\ UNCHANGED <<kind, storeVars, wake, session, listening, late>>

Connect(resume) ==
    /\ session' = OpenSession(resume)
    /\ wake' = [open |-> TRUE, queued |-> 0]
    /\ control' = <<>> /\ reading' = TRUE /\ down' = <<>>
    /\ client' = [client EXCEPT !.open = TRUE, !.count = 0]
    /\ UNCHANGED <<kind, storeVars, listening, late>>

\* serve_tcp_subscription_listener serves one connection at a time; the client
\* has read this one to its end.
Over == listening /\ session.at = "closed" /\ (client.open => down = <<>>)

\* The client comes back with the last cursor it was sent.
Resume == Over /\ Connect(client.last) /\ UNCHANGED incidents

\* Or with an older one: its own state was lost.
ResumeOlder(cursor) ==
    /\ Over /\ Incident
    /\ cursor \in client.cursors \cup {0}
    /\ Connect(cursor)

-----------------------------------------------------------------------------
(* The specification.                                                      *)

Init ==
    /\ kind \in Kinds
    /\ log = <<>> /\ published = 0 /\ visible_hlc = 0 /\ writer = "idle"
    /\ wake = [open |-> FALSE, queued |-> 0]
    /\ session = NoSession
    /\ control = <<>> /\ reading = FALSE /\ down = <<>> /\ listening = TRUE
    /\ client = [open |-> FALSE, count |-> 0, last |-> 0, cursors |-> {},
                  got |-> {}]
    /\ late = {}
    /\ incidents = MaxIncidents

WriterStep == (\E class \in Classes : Publish(class)) \/ Broadcast \/ AdvanceVisible

SessionStep ==
    Poll \/ ScanEmpty \/ ScanOn \/ ScanStop \/ ReadFails \/ Watermark \/ Wake \/ WaitEnds

ClientStep ==
    \/ Receive \/ SplitLine \/ Cancel \/ Disconnect \/ Resume
    \/ \E index \in 1 .. MaxDeliveries + Window : Ack(index)
    \/ \E index \in 1 .. Window, cursor \in 1 .. published : StaleAck(index, cursor)
    \/ \E cursor \in 0 .. published : ResumeOlder(cursor)

Next == WriterStep \/ SessionStep \/ ClientStep

Spec == Init /\ [][Next]_vars

\* The writer and the server's threads go on, the client reads what it is sent
\* and comes back; nobody has to acknowledge, to write or to go.
FairSpec ==
    /\ Spec
    /\ WF_vars(Broadcast \/ AdvanceVisible)
    /\ WF_vars(Poll \/ ScanEmpty \/ ScanOn \/ ScanStop \/ Watermark \/ Wake \/ WaitEnds)
    /\ WF_vars(Receive) /\ WF_vars(Resume)

-----------------------------------------------------------------------------
(* Properties.                                                             *)

Wanted(s) == log[s] = "match"

\* A cursor the client was sent has no undelivered event before it, whatever
\* connections came between, but for those that were published while a
\* watermark was being made.
StreamNoGaps ==
    \A cursor \in client.cursors : \A s \in 1 .. cursor : Wanted(s) => s \in client.got \cup late

\* The same without the exception, as the tests of the streams state it.
WatermarkHonest ==
    \A cursor \in client.cursors : \A s \in 1 .. cursor : Wanted(s) => s \in client.got

Blocked(s) == \E r \in 1 .. s - 1 : log[r] = "bad"

\* Every event of the stream reaches a client that keeps coming back, however
\* slow its acknowledgements are, unless a watermark passed it, a receipt that
\* does not decode stands in the way or the listener is gone.
EventuallyStreamed ==
    \A s \in 1 .. MaxEvents :
        (s <= published /\ Wanted(s) /\ ~Blocked(s) /\ s \notin late)
            ~> (s \in client.got \cup late \/ ~listening)

\* A client that cancels or goes away frees the server.
Leaving == ~reading /\ session.at # "closed"
SessionEnds == Leaving ~> session.at = "closed"

=============================================================================
