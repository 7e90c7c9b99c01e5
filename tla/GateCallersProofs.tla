------------------------- MODULE GateCallersProofs -------------------------
(***************************************************************************)
(* The gate's invariants and action properties, for every set of lanes and *)
(* all bounds.                                                             *)
(***************************************************************************)
EXTENDS GateCallers, TLAPS

GateInv == GateTypeOK /\ GateBound /\ FenceRangeSound

\* A new gate satisfies the invariant.
LEMMA GateInitInv == GateInit => GateInv
BY GateAssumption DEF GateInit, GateInv, GateTypeOK, GateBound, FenceRangeSound,
   NoLanePoints, Unset

\* Every operation keeps the bounds below the allocator and the staged range
\* inside the allocated sequences.
LEMMA GateStepInv == GateInv /\ [GateNext]_gateVars => GateInv'
<1> SUFFICES ASSUME GateInv, [GateNext]_gateVars PROVE GateInv'
  OBVIOUS
<1> USE GateAssumption DEF GateInv, GateTypeOK, GateBound, FenceRangeSound, Unset
<1>1. CASE Reserve
  BY <1>1 DEF Reserve, reserve, published, fenceVars, cancelVars
<1>2. CASE Publish
  BY <1>2 DEF Publish, publish_on_lanes, PublishAdmitted, LanePoints, Sequences,
     fenceVars, cancelVars
<1>3. CASE BeginFence
  BY <1>3 DEF BeginFence, begin_fence, begin_fence_refused, published, fenceVars, cancelVars
<1>4. CASE NoteProgress
  BY <1>4 DEF NoteProgress, note_fence_progress, Sequences, published, cancelVars
<1>5. CASE FinishFence
  BY <1>5 DEF FinishFence, finish_fence_on_lanes, publish_on_lanes, PublishAdmitted,
     CloseFence, LanePoints, Sequences, published, cancelVars
<1>6. CASE CancelFence
  BY <1>6 DEF CancelFence, cancel_fence, FenceRange, CloseFence, published
<1>7. CASE ReplaceContents
  BY <1>7 DEF ReplaceContents, replace_contents_from_fresh, CloseFence, LanePoints, Sequences
<1>8. CASE UNCHANGED gateVars
  BY <1>8 DEF gateVars
<1> QED
  BY <1>1, <1>2, <1>3, <1>4, <1>5, <1>6, <1>7, <1>8 DEF GateNext

\* The gate keeps its types, no reader bound passes the allocator, and an open
\* fence never claims a sequence that was not handed out.
THEOREM GateInvariance == GateSpec => [](GateTypeOK /\ GateSound)
<1>1. GateInv => GateTypeOK /\ GateSound
  BY Zenon DEF GateInv, GateSound
<1> QED
  BY <1>1, GateInitInv, GateStepInv, PTL DEF GateSpec

\* Outside compaction's swap the reader bounds and the token allocator only grow.
THEOREM GateMonotone == GateSpec => VisibleMonotone
<1>1. ASSUME GateInv, [GateNext]_gateVars
      PROVE  \/ /\ visible <= visible'
                /\ \A l \in Lanes : lane_visible[l] <= lane_visible'[l]
                /\ next_fence_token <= next_fence_token'
             \/ ReplaceContents
             \/ UNCHANGED gateVars
  <2> USE GateAssumption DEF GateInv, GateTypeOK
  <2>1. CASE Reserve \/ NoteProgress \/ CancelFence \/ BeginFence
    BY <1>1, <2>1 DEF Reserve, NoteProgress, CancelFence, BeginFence, begin_fence,
       begin_fence_refused, published
  <2>2. CASE Publish
    BY <1>1, <2>2 DEF Publish, publish_on_lanes, PublishAdmitted, LanePoints, Sequences
  <2>3. CASE FinishFence
    BY <1>1, <2>3 DEF FinishFence, finish_fence_on_lanes, publish_on_lanes, PublishAdmitted,
       LanePoints, Sequences, published
  <2> QED
    BY <1>1, <2>1, <2>2, <2>3 DEF GateNext
<1> QED
  BY <1>1, GateInitInv, GateStepInv, PTL DEF GateSpec, VisibleMonotone

\* Outside compaction's swap what a cancelled fence hid stays hidden.
THEOREM GateHiddenForGood == GateSpec => HiddenForGood
<1>1. ASSUME GateInv, [GateNext]_gateVars
      PROVE  \/ /\ cancelled_ranges \subseteq cancelled_ranges'
                /\ \A l \in Lanes :
                       lane_cancelled_ranges[l] \subseteq lane_cancelled_ranges'[l]
             \/ ReplaceContents
             \/ UNCHANGED gateVars
  <2>1. CASE CancelFence
    BY <1>1, <2>1 DEF CancelFence, cancel_fence, GateInv, GateTypeOK
  <2>2. CASE Reserve \/ Publish \/ BeginFence \/ NoteProgress \/ FinishFence
    BY <2>2 DEF Reserve, Publish, BeginFence, NoteProgress, FinishFence, cancelVars
  <2> QED
    BY <1>1, <2>1, <2>2 DEF GateNext
<1> QED
  BY <1>1, GateInitInv, GateStepInv, PTL DEF GateSpec, HiddenForGood
=============================================================================
