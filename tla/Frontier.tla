------------------------------ MODULE Frontier ------------------------------
(***************************************************************************)
(* The watermarks a caller can wait on (store/write/writer/watermark.rs).  *)
(*                                                                         *)
(* A watermark is an HLC point; it is compared and advanced by its global  *)
(* sequence alone (HlcPoint::covers_sequence, max_by_sequence), so a point *)
(* is its sequence here.  emitted is left out: the code advances it in the *)
(* same calls as visible.  applied belongs to the projections.             *)
(***************************************************************************)
EXTENDS Integers

VARIABLES
    watermarks,        \* the global points
    lane_watermarks    \* the points of each lane

frontierVars == <<watermarks, lane_watermarks>>

Larger(a, b) == IF a < b THEN b ELSE a

\* Every point at the HLC origin, or at the sequence s of the open event.
Points(s) == [accepted |-> s, written |-> s, durable |-> s, visible |-> s]
PointsType == [accepted : Nat, written : Nat, durable : Nat, visible : Nat]

advance_accepted_on_lane(l, s) ==
    /\ watermarks' = [watermarks EXCEPT !.accepted = Larger(@, s)]
    /\ lane_watermarks' = [lane_watermarks EXCEPT ![l].accepted = Larger(@, s)]

\* Mutant: what is written counts as durable.
AdvanceWrittenAsDurable(l, s) ==
    /\ watermarks' = [watermarks EXCEPT !.written = Larger(@, s), !.durable = Larger(@, s)]
    /\ lane_watermarks' = [lane_watermarks EXCEPT ![l].written = Larger(@, s)]

advance_written_on_lane(l, s) ==
    /\ watermarks' = [watermarks EXCEPT !.written = Larger(@, s)]
    /\ lane_watermarks' = [lane_watermarks EXCEPT ![l].written = Larger(@, s)]

\* Mutant: lane durability follows the global point unconditionally.
LaneDurableToPhysical(w, physical) == [w EXCEPT !.durable = Larger(@, physical)]

\* Lane durability follows the physical point only when that point covers
\* everything the lane has written.
LaneDurableTo(w, physical) ==
    IF w.written <= physical
    THEN [w EXCEPT !.durable = Larger(@, w.written)]
    ELSE w

advance_durable_to_accepted ==
    LET physical == Larger(watermarks.durable, watermarks.accepted)
    IN  /\ watermarks' = [watermarks EXCEPT !.durable = physical]
        /\ lane_watermarks' = [l \in DOMAIN lane_watermarks |->
               LaneDurableTo(lane_watermarks[l], physical)]

\* points[l] is the exclusive publish bound of lane l, 0 when lane l has none.
advance_visible_and_emitted(s, points) ==
    /\ watermarks' = [watermarks EXCEPT !.visible = Larger(@, s)]
    /\ lane_watermarks' = [l \in DOMAIN lane_watermarks |->
           IF points[l] = 0 THEN lane_watermarks[l]
           ELSE [lane_watermarks[l] EXCEPT !.visible = Larger(@, points[l] - 1)]]
=============================================================================
