------------------------------ MODULE HerdGate ------------------------------
(***************************************************************************)
(* What the gatekeeper promises its callers.  The doc comments of its      *)
(* statuses: StatusProcess means that "this request was chosen" and        *)
(* StatusWait that one waits "until the initial request is done"; the      *)
(* README: "allowing a single request to pass through to the resource".    *)
(*                                                                         *)
(* Per fingerprint there is a gate and the set of requests that were told  *)
(* to process the herd and have not finished.  The mechanism that decides  *)
(* who is told what is in module Anicetus, which is shown to implement     *)
(* this module when its callers do not overlap and the herd is unbroken.   *)
(***************************************************************************)

CONSTANTS
    Requests,       \* requests that may be elected
    Fingerprints    \* groups of requests considered the same

VARIABLES
    gate,           \* gate[f]: "absent" (open), "pending" (closed), "processed" (released)
    leaders         \* leaders[f]: elected requests of f that have not finished

vars == <<gate, leaders>>

Init ==
    /\ gate = [f \in Fingerprints |-> "absent"]
    /\ leaders = [f \in Fingerprints |-> {}]

\* The first request of the herd closes the gate behind it.
Elect(r, f) ==
    /\ gate[f] = "absent"
    /\ leaders[f] = {}
    /\ gate' = [gate EXCEPT ![f] = "pending"]
    /\ leaders' = [leaders EXCEPT ![f] = {r}]

\* The elected request is done: the others are released.
Serve(r, f) ==
    /\ leaders[f] = {r}
    /\ gate[f] = "pending"
    /\ gate' = [gate EXCEPT ![f] = "processed"]
    /\ leaders' = [leaders EXCEPT ![f] = {}]

\* The elected request failed: the herd may elect another one.
Abort(r, f) ==
    /\ leaders[f] = {r}
    /\ gate[f] = "pending"
    /\ gate' = [gate EXCEPT ![f] = "absent"]
    /\ leaders' = [leaders EXCEPT ![f] = {}]

\* A released gate is forgotten.
Forget(f) ==
    /\ gate[f] = "processed"
    /\ leaders[f] = {}
    /\ gate' = [gate EXCEPT ![f] = "absent"]
    /\ UNCHANGED leaders

Next ==
    \E f \in Fingerprints :
        \/ Forget(f)
        \/ \E r \in Requests : Elect(r, f) \/ Serve(r, f) \/ Abort(r, f)

Spec == Init /\ [][Next]_vars

=============================================================================
