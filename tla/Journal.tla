------------------------------ MODULE Journal -------------------------------
(***************************************************************************)
(* What the store promises about appends, whatever happens inside.         *)
(*                                                                         *)
(* Every append or batch is one request.  It may be staged, and becomes    *)
(* visible to readers together with its transaction or is hidden with it:  *)
(* a request outside a fence is a transaction of its own, all requests of  *)
(* a fence are one.  Visible and hidden are final.  A caller hears "ok"    *)
(* only for what readers see, "cancelled" only for what they never will,   *)
(* and "error" only for what was never staged; once it has heard, nothing  *)
(* else is said.                                                           *)
(***************************************************************************)
CONSTANT Requests

VARIABLES
    status,   \* what readers may see of each request
    group,    \* the fence it was staged under, 0 for none
    answer    \* what its caller has been told

vars == <<status, group, answer>>

Init ==
    /\ status = [r \in Requests |-> "none"]
    /\ group = [r \in Requests |-> 0]
    /\ answer = [r \in Requests |-> "waiting"]

Transaction(r) ==
    IF group[r] = 0 THEN {r}
    ELSE {q \in Requests : status[q] = "staged" /\ group[q] = group[r]}

\* r is staged, under some fence or none.
Stage(r) ==
    /\ status[r] = "none"
    /\ status' = [status EXCEPT ![r] = "staged"]
    /\ group' = [group EXCEPT ![r] = group'[r]]

Finish(r, how) ==
    /\ status[r] = "staged"
    /\ status' = [q \in Requests |-> IF q \in Transaction(r) THEN how ELSE status[q]]
    /\ UNCHANGED group

Honest(told, is) ==
    /\ told = "ok" => is = "visible"
    /\ told = "cancelled" => is = "hidden"
    /\ told = "error" => is = "none"

\* Some callers hear their answer, possibly in the step that decides it.
Tell ==
    \A r \in Requests :
        answer'[r] # answer[r] => answer[r] = "waiting" /\ Honest(answer'[r], status'[r])

Next ==
    /\ \/ \E r \in Requests : Stage(r)
       \/ \E r \in Requests : Finish(r, "visible") \/ Finish(r, "hidden")
       \/ UNCHANGED <<status, group>>
    /\ Tell

Spec == Init /\ [][Next]_vars
=============================================================================
