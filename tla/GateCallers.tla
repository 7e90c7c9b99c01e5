----------------------------- MODULE GateCallers -----------------------------
(***************************************************************************)
(* The sequence gate under arbitrary callers: any operation may be called  *)
(* with any argument at any time, and what holds is what the gate's own    *)
(* checks guarantee.                                                       *)
(***************************************************************************)
EXTENDS SequenceGate

CONSTANTS
    MaxSequence,     \* bound: the allocator stops here
    MaxToken         \* bound: no fence token above this one is handed out

ASSUME GateAssumption ==
    /\ MaxSequence \in Nat
    /\ MaxToken \in Nat

Sequences == 0 .. MaxSequence
LanePoints == [Lanes -> Sequences]

Reserve ==
    \E n \in 1 .. MaxSequence :
        /\ allocated + n <= MaxSequence
        /\ reserve(n)
        /\ UNCHANGED <<published, fenceVars, next_fence_token, cancelVars>>

Publish ==
    \E up_to \in Sequences, points \in LanePoints :
        /\ publish_on_lanes(up_to, points)
        /\ UNCHANGED <<allocated, fenceVars, next_fence_token, cancelVars>>

BeginFence ==
    /\ next_fence_token <= MaxToken
    /\ begin_fence \/ begin_fence_refused
    /\ UNCHANGED <<allocated, published, cancelVars>>

NoteProgress ==
    \E start \in Sequences, end \in Sequences :
        /\ active_fence # 0
        /\ start < end /\ end <= allocated
        /\ note_fence_progress(active_fence, start, end)
        /\ UNCHANGED <<allocated, published, next_fence_token, cancelVars>>

FinishFence ==
    \E up_to \in Sequences, points \in LanePoints :
        /\ active_fence # 0
        /\ finish_fence_on_lanes(active_fence, up_to, points)
        /\ UNCHANGED <<allocated, next_fence_token, cancelVars>>

CancelFence ==
    \E laneSeqs \in [Lanes -> SUBSET FenceRange] :
        /\ active_fence # 0
        /\ cancel_fence(active_fence, laneSeqs)
        /\ UNCHANGED <<allocated, published, next_fence_token>>

ReplaceContents ==
    \E n \in Sequences, bounds \in LanePoints, hidden \in SUBSET cancelled_ranges :
        /\ \A l \in Lanes : bounds[l] <= n
        /\ replace_contents_from_fresh(n, bounds, hidden,
               [l \in Lanes |-> hidden \cap lane_cancelled_ranges[l]])

GateNext ==
    \/ Reserve
    \/ Publish
    \/ BeginFence
    \/ NoteProgress
    \/ FinishFence
    \/ CancelFence
    \/ ReplaceContents

GateSpec == GateInit /\ [][GateNext]_gateVars

-----------------------------------------------------------------------------
(* Properties.                                                             *)

\* Outside compaction's swap no bound a reader relies on ever moves back, and
\* fence tokens are never handed out twice.
VisibleMonotone ==
    [][\/ /\ visible <= visible'
          /\ \A l \in Lanes : lane_visible[l] <= lane_visible'[l]
          /\ next_fence_token <= next_fence_token'
       \/ ReplaceContents]_gateVars

\* Outside compaction's swap a sequence hidden by a cancelled fence stays
\* hidden, globally and on its lane, whatever is published or cancelled later.
HiddenForGood ==
    [][\/ /\ cancelled_ranges \subseteq cancelled_ranges'
          /\ \A l \in Lanes : lane_cancelled_ranges[l] \subseteq lane_cancelled_ranges'[l]
       \/ ReplaceContents]_gateVars
=============================================================================
