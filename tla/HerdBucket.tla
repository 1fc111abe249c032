----------------------------- MODULE HerdBucket -----------------------------
(***************************************************************************)
(* What the detector promises: "the token bucket (with a penalty strategy; *)
(* bucket is drained while in thundering herd)" (README), one bucket per   *)
(* fingerprint.  A bucket is counted in units, of which one comes in per   *)
(* unit of time and Cost make a token.                                     *)
(*                                                                         *)
(* A store of buckets cannot keep them all for ever.  It may forget one,   *)
(* that is have it full again, once it would be full had no request been   *)
(* punished: what is lost is then a penalty, and never a grant.            *)
(***************************************************************************)
EXTENDS Naturals

CONSTANTS
    Fingerprints,   \* groups of requests considered the same
    Capacity,       \* units of a full bucket
    Cost            \* units of a token

VARIABLES
    level,          \* level[f]: units in the bucket of f
    undrained,      \* undrained[f]: units there would be without penalties
    denied          \* fingerprints of requests denied at this moment

vars == <<level, undrained, denied>>

Least(a, b) == IF a <= b THEN a ELSE b

Init ==
    /\ level = [f \in Fingerprints |-> Capacity]
    /\ undrained = [f \in Fingerprints |-> Capacity]
    /\ denied = {}

\* No herd: the request has its token.
Grant(f) ==
    /\ level[f] >= Cost
    /\ level' = [level EXCEPT ![f] = @ - Cost]
    /\ undrained' = [undrained EXCEPT ![f] = @ - Cost]
    /\ UNCHANGED denied

\* A herd: nothing is left to the next request.
Deny(f) ==
    /\ level[f] < Cost
    /\ level' = [level EXCEPT ![f] = 0]
    /\ denied' = denied \cup {f}
    /\ UNCHANGED undrained

\* A unit of time passes, and some buckets are forgotten.
Pass(forgotten) ==
    /\ undrained' = [f \in Fingerprints |-> Least(Capacity, undrained[f] + 1)]
    /\ \A f \in forgotten : undrained'[f] = Capacity
    /\ denied' = {}
    /\ level' = [f \in Fingerprints |->
            IF f \in forgotten THEN Capacity ELSE Least(Capacity, level[f] + 1)]

Next ==
    \/ \E f \in Fingerprints : Grant(f) \/ Deny(f)
    \/ \E forgotten \in SUBSET Fingerprints : Pass(forgotten)

Spec == Init /\ [][Next]_vars

=============================================================================
