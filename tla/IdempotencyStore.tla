-------------------------- MODULE IdempotencyStore --------------------------
(***************************************************************************)
(* IdempotencyStore of index/idemp.rs: the map from idempotency keys to    *)
(* what is needed to answer a repeated append with its first receipt, the  *)
(* rule that ages keys out of it and the admission of new keys under its   *)
(* soft cap.  A map is a function on the keys it holds; an entry keeps the *)
(* event and sequence of the first commit, the sequence at which it was    *)
(* recorded and whether retention has given up the event since.            *)
(***************************************************************************)
EXTENDS Integers, FiniteSets, Functions

CONSTANTS
    retention,       \* IdempotencyRetention: "unbounded", "window" or "hybrid"
    keep_sequences,  \* the window, in global sequences
    max_keys,        \* the soft cap of "hybrid"
    overflow         \* OverflowPolicy: "warn", or "fail_closed" with "backpressure"

ASSUME IdempotencyStoreAssumption ==
    /\ retention \in {"unbounded", "window", "hybrid"}
    /\ keep_sequences \in Nat
    /\ max_keys \in Nat
    /\ overflow \in {"warn", "fail_closed"}

\* IdempEntry::from_index_entry
NewEntry(id, seq) == [id |-> id, seq |-> seq, recorded |-> seq, evicted |-> FALSE]

\* frontier.saturating_sub(keep_sequences)
window_floor(frontier) == IF frontier > keep_sequences THEN frontier - keep_sequences ELSE 0

\* Mutant: the window is one sequence short.
EvictOneMore(map, frontier) ==
    IF retention = "unbounded" THEN map
    ELSE Restrict(map, {k \in DOMAIN map : map[k].recorded > window_floor(frontier)})

\* Keys recorded before the window go.  The cap may trim only keys outside the
\* window, and the first step has left none.
evict(map, frontier) ==
    IF retention = "unbounded" THEN map
    ELSE Restrict(map, {k \in DOMAIN map : map[k].recorded >= window_floor(frontier)})

UnderCap(map, n) == retention # "hybrid" \/ n = 0 \/ Cardinality(DOMAIN map) + n <= max_keys

\* Mutant: a batch is measured against the cap as if it brought one key.
AdmitAsOne(map, n, frontier) ==
    LET aged == IF UnderCap(map, 1) THEN map ELSE evict(map, frontier)
    IN  [map |-> aged, ok |-> UnderCap(aged, 1) \/ overflow = "warn"]

\* Whether n new keys are let in, and the map admission leaves: under pressure
\* it ages keys out first.
admit_unique_new_count(map, n, frontier) ==
    LET aged == IF UnderCap(map, n) THEN map ELSE evict(map, frontier)
    IN  [map |-> aged, ok |-> UnderCap(aged, n) \/ overflow = "warn"]

record(map, key, entry) == [k \in DOMAIN map \cup {key} |-> IF k = key THEN entry ELSE map[k]]

\* Entries whose event is gone are flagged and otherwise left as they are.
mark_evicted(map, live) ==
    [k \in DOMAIN map |-> [map[k] EXCEPT !.evicted = @ \/ map[k].id \notin live]]
=============================================================================
