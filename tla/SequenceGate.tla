---------------------------- MODULE SequenceGate ----------------------------
(***************************************************************************)
(* The publish boundary of the event index (store/index/visibility.rs).    *)
(*                                                                         *)
(* Every event has a global sequence.  The gate hands sequences out        *)
(* (allocated), tells readers up to where they may look (visible, and one  *)
(* bound per DAG lane), keeps the one public visibility fence that may be  *)
(* open, and remembers the sequences a cancelled fence hid for good.       *)
(*                                                                         *)
(* The module holds the gate's state and operations.  GateCallers puts     *)
(* them under callers that respect nothing but the checks the gate itself  *)
(* makes; Writer drives them the way the writer thread does.               *)
(***************************************************************************)
EXTENDS Integers

CONSTANT Lanes            \* the DAG lanes events are appended to

VARIABLES
    allocated,            \* next sequence to be assigned
    visible,              \* exclusive global bound of what readers see
    lane_visible,         \* the same bound per lane, 0 for a lane without one
    active_fence,         \* token of the open fence, 0 when there is none
    active_fence_start,   \* lowest sequence staged under it, or Unset
    active_fence_end,     \* exclusive upper bound of the staged sequences
    next_fence_token,     \* next token to be handed out
    cancelled_ranges,     \* sequences hidden for good, as a set
    lane_cancelled_ranges \* the same, per lane

gateVars == <<allocated, visible, lane_visible, active_fence,
              active_fence_start, active_fence_end, next_fence_token,
              cancelled_ranges, lane_cancelled_ranges>>

published == <<visible, lane_visible>>
fenceVars == <<active_fence, active_fence_start, active_fence_end>>
cancelVars == <<cancelled_ranges, lane_cancelled_ranges>>

\* u64::MAX in active_fence_start: nothing staged yet.
Unset == -1

\* A lane bound of 0 in a publish request means the request names no such lane.
NoLanePoints == [l \in Lanes |-> 0]

-----------------------------------------------------------------------------
(* What a reader that holds the current bounds sees.                       *)

is_visible(s) == s < visible /\ s \notin cancelled_ranges

is_visible_on_lane(s, l) ==
    /\ s < lane_visible[l]
    /\ s \notin cancelled_ranges
    /\ s \notin lane_cancelled_ranges[l]

-----------------------------------------------------------------------------
(* The operations, as the effect of a call that succeeds.                  *)

reserve(n) == allocated' = allocated + n

\* Mutant: the lane checks without the regression check.
PublishRegressing(up_to, points) ==
    /\ visible <= up_to /\ up_to <= allocated
    /\ \A l \in Lanes : points[l] # 0 => points[l] <= allocated

\* The checks publish_on_lanes makes under the write lock.
PublishAdmitted(up_to, points) ==
    /\ visible <= up_to /\ up_to <= allocated
    /\ \A l \in Lanes : points[l] # 0 =>
           lane_visible[l] <= points[l] /\ points[l] <= allocated

publish_on_lanes(up_to, points) ==
    /\ PublishAdmitted(up_to, points)
    /\ visible' = up_to
    /\ lane_visible' = [l \in Lanes |->
           IF points[l] = 0 THEN lane_visible[l] ELSE points[l]]

\* Mutant: the token is released, the staged range is not.
CloseFenceKeepingRange ==
    /\ active_fence' = 0
    /\ UNCHANGED <<active_fence_start, active_fence_end>>

\* Mutant: the range is cleared, the token is not.
CloseFenceKeepingToken ==
    /\ active_fence_start' = Unset
    /\ active_fence_end' = 0
    /\ UNCHANGED active_fence

CloseFence ==
    /\ active_fence' = 0
    /\ active_fence_start' = Unset
    /\ active_fence_end' = 0

begin_fence ==
    /\ active_fence = 0
    /\ active_fence' = next_fence_token
    /\ active_fence_start' = Unset
    /\ active_fence_end' = 0
    /\ next_fence_token' = next_fence_token + 1

\* The token is drawn before the compare-and-swap, so a refused call burns one.
begin_fence_refused ==
    /\ active_fence # 0
    /\ next_fence_token' = next_fence_token + 1
    /\ UNCHANGED fenceVars

\* Mutant: only the first progress of a fence is recorded.
NoteFirstProgress(token, start, end) ==
    /\ active_fence = token
    /\ active_fence_start' = IF active_fence_start = Unset THEN start ELSE active_fence_start
    /\ active_fence_end' = IF active_fence_start = Unset THEN end ELSE active_fence_end
    /\ UNCHANGED active_fence

note_fence_progress(token, start, end) ==
    /\ active_fence = token
    /\ active_fence_start' = IF active_fence_start = Unset \/ start < active_fence_start
                             THEN start ELSE active_fence_start
    /\ active_fence_end' = IF end > active_fence_end THEN end ELSE active_fence_end
    /\ UNCHANGED active_fence

\* up_to = 0 is publish_to = None: the fence staged nothing.
finish_fence_on_lanes(token, up_to, points) ==
    /\ active_fence = token
    /\ IF up_to = 0 THEN UNCHANGED published ELSE publish_on_lanes(up_to, points)
    /\ CloseFence

\* Mutant: the range starts at the first sequence of the journal.
FenceRangeFromZero == 0 .. active_fence_end - 1

\* active_fence_range: the sequences a cancel hides.
FenceRange ==
    IF active_fence_start = Unset THEN {}
    ELSE active_fence_start .. active_fence_end - 1

\* Mutant: the hidden sequences of the last cancel replace the earlier ones.
CancelFenceForgetting(token, laneSeqs) ==
    /\ active_fence = token
    /\ cancelled_ranges' = FenceRange
    /\ lane_cancelled_ranges' = laneSeqs
    /\ CloseFence

\* Mutant: a cancel closes the fence and hides nothing.
CancelFenceUnhidden(token, laneSeqs) ==
    /\ active_fence = token
    /\ UNCHANGED cancelVars
    /\ CloseFence

\* laneSeqs[l] are the indexed sequences of lane l inside FenceRange.
cancel_fence(token, laneSeqs) ==
    /\ active_fence = token
    /\ cancelled_ranges' = cancelled_ranges \cup FenceRange
    /\ lane_cancelled_ranges' =
           [l \in Lanes |-> lane_cancelled_ranges[l] \cup laneSeqs[l]]
    /\ CloseFence

\* Compaction's swap: everything the gate knows is cleared, then the allocator,
\* the bounds and the hidden sequences of a freshly built index are adopted.
replace_contents_from_fresh(n, bounds, hidden, laneHidden) ==
    /\ allocated' = n
    /\ visible' = n
    /\ lane_visible' = bounds
    /\ cancelled_ranges' = hidden
    /\ lane_cancelled_ranges' = laneHidden
    /\ next_fence_token' = 1
    /\ CloseFence

-----------------------------------------------------------------------------
\* SequenceGate::new
GateInit ==
    /\ allocated = 0
    /\ visible = 0
    /\ lane_visible = NoLanePoints
    /\ active_fence = 0
    /\ active_fence_start = Unset
    /\ active_fence_end = 0
    /\ next_fence_token = 1
    /\ cancelled_ranges = {}
    /\ lane_cancelled_ranges = [l \in Lanes |-> {}]

-----------------------------------------------------------------------------
(* Properties.                                                             *)

\* Type invariant of the gate's atomics, locks and range sets.
GateTypeOK ==
    /\ allocated \in Nat
    /\ visible \in Nat
    /\ lane_visible \in [Lanes -> Nat]
    /\ active_fence \in Nat
    /\ active_fence_start \in Nat \cup {Unset}
    /\ active_fence_end \in Nat
    /\ next_fence_token \in Nat \ {0}
    /\ cancelled_ranges \in SUBSET Nat
    /\ lane_cancelled_ranges \in [Lanes -> SUBSET Nat]

\* No reader bound, global or of a lane, passes the allocator: a reader never
\* looks at a sequence that has not been handed out (the invariant documented
\* on SequenceGate and enforced by publish_on_lanes).
GateBound ==
    /\ visible <= allocated
    /\ \A l \in Lanes : lane_visible[l] <= allocated

\* The open fence and its staged range agree: the token was handed out, without
\* a fence nothing is staged, and what is staged was allocated.  cancel_fence
\* hides exactly this range, so a stale bound would hide foreign events.
FenceRangeSound ==
    /\ active_fence < next_fence_token
    /\ active_fence = 0 => active_fence_start = Unset /\ active_fence_end = 0
    /\ active_fence_start = Unset => active_fence_end = 0
    /\ active_fence_start # Unset =>
           active_fence_start < active_fence_end /\ active_fence_end <= allocated

\* What every caller relies on between its calls: the bounds readers use and the
\* range a cancel would hide cover nothing but allocated sequences.
GateSound == GateBound /\ FenceRangeSound
=============================================================================
