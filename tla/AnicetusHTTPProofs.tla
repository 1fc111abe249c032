------------------------- MODULE AnicetusHTTPProofs -------------------------
(***************************************************************************)
(* What the proxy's handler guarantees for every set of requests, methods  *)
(* and fingerprints: its own state, its answers to GETs, and, where the    *)
(* handler does not change a request's fingerprint, that it uses the       *)
(* library as module Anicetus has it.                                      *)
(***************************************************************************)
EXTENDS AnicetusHTTP, AnicetusProofs

USE DEF Goto, Put, HasEntry, IsProcessed, At

-----------------------------------------------------------------------------
\* Where the handler is tells where the library is.
HandlerFollowsCall ==
    \A r \in Requests :
        /\ handler[r] \in {"idle", "bypass", "evaluate"} => pc[r] = "idle"
        /\ handler[r] = "evaluating" => pc[r] \in Evaluating \cup Statuses
        /\ handler[r] = "sent" => pc[r] \in {"idle", "StatusProcess", "StatusOpenGates"}
        /\ handler[r] = "replied" => pc[r] \in {"idle", "StatusOpenGates"} \cup Finishing
        /\ handler[r] = "copying" => pc[r] \in {"idle", "StatusOpenGates", "Done"}

\* Inside forwardRequest.
Forwarding == {"sent", "replied", "copying"}

\* How often a request has been forwarded, by where its handler is, and that a GET
\* has no status line until the backend's is written or the handler ends.
Counts ==
    \A r \in Requests :
        /\ handler[r] = "bypass" => method[r] # "GET" /\ forwards[r] = 0
        /\ handler[r] \in {"evaluate", "evaluating"} => forwards[r] <= 1
        /\ handler[r] \in Forwarding /\ pc[r] = "idle" =>
               method[r] # "GET" /\ forwards[r] = 1
        /\ method[r] = "GET" /\ handler[r] \in {"evaluate", "evaluating"} => forwards[r] = 0
        /\ method[r] = "GET" /\ handler[r] \in Forwarding => forwards[r] = 1
        /\ method[r] = "GET" /\ handler[r] \notin {"idle", "copying"} => response[r] = "none"
        /\ method[r] = "GET" /\ handler[r] = "copying" => response[r] = "backend"

HTTPInv == HTTPTypeOK /\ HandlerFollowsCall /\ Counts /\ GetAnsweredFaithfully

\* The library's steps keep the library's types, with whatever fingerprint they are
\* called.
LEMMA CallTypes ==
    ASSUME TypeOK, NEW r \in Requests, NEW f \in Fingerprints,
           \/ IsCoolDown(r, f)
           \/ IsThunderingHerd(r) \/ Remove(r) \/ Exists(r) \/ Processed(r) \/ Store(r)
           \/ RequestDoneStore(r, f) \/ RequestDoneCoolDown(r, f)
           \/ Cleanup(r, f) \/ Return(r)
    PROVE  TypeOK'
<1> USE DEF TypeOK, Entries, Evaluating, Statuses, Finishing
<1>1. CASE IsCoolDown(r, f)
  BY <1>1 DEF IsCoolDown
<1>2. CASE IsThunderingHerd(r) \/ Exists(r) \/ Processed(r) \/ Return(r)
  BY <1>2 DEF IsThunderingHerd, Exists, Processed, Return
<1>3. CASE Remove(r) \/ Store(r)
  BY <1>3 DEF Remove, Store, PutFails
<1>4. CASE RequestDoneStore(r, f)
  BY <1>4 DEF RequestDoneStore, PutFails
<1>5. CASE RequestDoneCoolDown(r, f)
  BY <1>5 DEF RequestDoneCoolDown
<1>6. CASE Cleanup(r, f)
  BY <1>6 DEF Cleanup, PutFails
<1> QED
  BY <1>1, <1>2, <1>3, <1>4, <1>5, <1>6

\* A step of r's call moves only r.
LEMMA CallMoves ==
    ASSUME TypeOK, NEW r \in Requests, NEW f \in Fingerprints,
           \/ IsCoolDown(r, f)
           \/ IsThunderingHerd(r) \/ Remove(r) \/ Exists(r) \/ Processed(r) \/ Store(r)
           \/ RequestDoneStore(r, f) \/ RequestDoneCoolDown(r, f)
           \/ Cleanup(r, f) \/ Return(r)
    PROVE  \A q \in Requests \ {r} : pc'[q] = pc[q]
BY DEF TypeOK, IsCoolDown, IsThunderingHerd, Remove, Exists, Processed, Store, RequestDoneStore,
   RequestDoneCoolDown, Cleanup, Return

\* Whatever was written to the request, it has a fingerprint.
LEMMA FingerprintType ==
    ASSUME HTTPTypeOK, NEW r \in Requests
    PROVE  Fingerprint(r) \in Fingerprints
BY HTTPAssumption DEF HTTPTypeOK, Fingerprint

\* What r's handler leaves alone stays as it should be, so that a step of r need only
\* be checked for r.
LEMMA OthersKeep ==
    ASSUME HTTPInv, NEW r \in Requests, HTTPTypeOK',
           \A q \in Requests \ {r} :
               /\ pc'[q] = pc[q] /\ handler'[q] = handler[q] /\ method'[q] = method[q]
               /\ forwards'[q] = forwards[q] /\ response'[q] = response[q],
           /\ handler'[r] \in {"idle", "bypass", "evaluate"} => pc'[r] = "idle"
           /\ handler'[r] = "evaluating" => pc'[r] \in Evaluating \cup Statuses
           /\ handler'[r] = "sent" => pc'[r] \in {"idle", "StatusProcess", "StatusOpenGates"}
           /\ handler'[r] = "replied" => pc'[r] \in {"idle", "StatusOpenGates"} \cup Finishing
           /\ handler'[r] = "copying" => pc'[r] \in {"idle", "StatusOpenGates", "Done"},
           /\ handler'[r] = "bypass" => method'[r] # "GET" /\ forwards'[r] = 0
           /\ handler'[r] \in {"evaluate", "evaluating"} => forwards'[r] <= 1
           /\ handler'[r] \in Forwarding /\ pc'[r] = "idle" =>
                  method'[r] # "GET" /\ forwards'[r] = 1
           /\ method'[r] = "GET" /\ handler'[r] \in {"evaluate", "evaluating"} =>
                  forwards'[r] = 0
           /\ method'[r] = "GET" /\ handler'[r] \in Forwarding => forwards'[r] = 1
           /\ method'[r] = "GET" /\ handler'[r] \notin {"idle", "copying"} =>
                  response'[r] = "none"
           /\ method'[r] = "GET" /\ handler'[r] = "copying" => response'[r] = "backend",
           handler'[r] = "idle" /\ method'[r] = "GET" =>
               /\ response'[r] = "backend" => forwards'[r] = 1
               /\ response'[r] = "503" => forwards'[r] = 0
    PROVE  HTTPInv'
<1>1. HandlerFollowsCall'
  BY DEF HTTPInv, HandlerFollowsCall
<1>2. Counts'
  BY DEF HTTPInv, Counts
<1>3. GetAnsweredFaithfully'
  BY DEF HTTPInv, GetAnsweredFaithfully
<1> QED
  BY <1>1, <1>2, <1>3 DEF HTTPInv

\* One step of any handler, or of time, keeps it.
LEMMA HTTPInvStep ==
    ASSUME HTTPInv, [HTTPNext]_allVars
    PROVE  HTTPInv'
<1> USE DEF HandlerStates, Responses, WriteHeader, httpVars, Forwarding
<1>0. HTTPTypeOK /\ HandlerFollowsCall /\ Counts /\ GetAnsweredFaithfully /\ TypeOK
  BY DEF HTTPInv, HTTPTypeOK
<1>1. ASSUME NEW r \in Requests, NEW m \in Methods, NEW f \in Origins, Receive(r, m, f)
      PROVE  HTTPInv'
  <2>1. HTTPTypeOK'
    BY <1>0, <1>1 DEF Receive, HTTPTypeOK, TypeOK, vars
  <2> QED
    BY <1>0, <1>1, <2>1, OthersKeep DEF Receive, HTTPTypeOK, HandlerFollowsCall, vars
<1>2. ASSUME NEW r \in Requests, Evaluate(r)
      PROVE  HTTPInv'
  <2>1. TypeOK' /\ \A q \in Requests \ {r} : pc'[q] = pc[q]
    BY <1>0, <1>2, CallTypes, CallMoves, FingerprintType DEF Evaluate
  <2>2. HTTPTypeOK'
    BY <1>0, <1>2, <2>1 DEF Evaluate, HTTPTypeOK
  <2>3. pc'[r] \in {"StatusFailed", "StatusOpenGates", "IsThunderingHerd"}
    BY <1>0, <1>2 DEF Evaluate, IsCoolDown, TypeOK
  <2> QED
    BY <1>0, <1>2, <2>1, <2>2, <2>3, OthersKeep
       DEF Evaluate, HTTPTypeOK, Counts, Evaluating, Statuses
<1>3. ASSUME NEW r \in Requests, EvaluateStep(r)
      PROVE  HTTPInv'
  <2>1. fingerprint[r] \in Fingerprints
    BY <1>0 DEF TypeOK
  <2>2. TypeOK' /\ \A q \in Requests \ {r} : pc'[q] = pc[q]
    BY <1>0, <1>3, <2>1, CallTypes, CallMoves DEF EvaluateStep
  <2>3. HTTPTypeOK'
    BY <1>0, <1>3, <2>2 DEF EvaluateStep, HTTPTypeOK
  <2>4. pc'[r] \in Evaluating \cup Statuses
    BY <1>0, <1>3 DEF EvaluateStep, IsThunderingHerd, Remove, Exists, Processed, Store, TypeOK,
       Evaluating, Statuses
  <2> QED
    BY <1>0, <1>3, <2>2, <2>3, <2>4, OthersKeep DEF EvaluateStep, HTTPTypeOK, Counts
<1>4. ASSUME NEW r \in Requests, Refuse(r)
      PROVE  HTTPInv'
  <2>1. fingerprint[r] \in Fingerprints
    BY <1>0 DEF TypeOK
  <2>2. TypeOK' /\ \A q \in Requests \ {r} : pc'[q] = pc[q]
    BY <1>0, <1>4, <2>1, CallTypes, CallMoves DEF Refuse
  <2>3. HTTPTypeOK'
    BY <1>0, <1>4, <2>2 DEF Refuse, HTTPTypeOK
  <2>4. pc'[r] = "idle"
    BY <1>0, <1>4 DEF Refuse, Return, TypeOK
  <2> QED
    BY <1>0, <1>4, <2>2, <2>3, <2>4, OthersKeep DEF Refuse, HTTPTypeOK, Counts
<1>5. ASSUME NEW r \in Requests, Send(r)
      PROVE  HTTPInv'
  <2>1. forwards[r] \in {0, 1} /\ (method[r] = "GET" => forwards[r] = 0)
    BY <1>0, <1>5 DEF Send, HTTPTypeOK, Counts
  <2>2. HTTPTypeOK'
    BY <1>0, <1>5, <2>1 DEF Send, HTTPTypeOK, TypeOK, vars
  <2> QED
    BY <1>0, <1>5, <2>1, <2>2, OthersKeep
       DEF Send, HTTPTypeOK, HandlerFollowsCall, Counts, vars
<1>6. ASSUME NEW r \in Requests, handler[r] \in Forwarding, ForwardFails(r)
      PROVE  HTTPInv'
  <2>1. CASE pc[r] = "idle" /\ At(r, "evaluate") /\ UNCHANGED vars
    <3>1. HTTPTypeOK'
      BY <1>0, <1>6, <2>1 DEF ForwardFails, HTTPTypeOK, TypeOK, vars
    <3> QED
      BY <1>0, <1>6, <2>1, <3>1, OthersKeep DEF ForwardFails, HTTPTypeOK, Counts, vars
  <2>2. CASE At(r, "idle") /\ (Return(r) \/ Cleanup(r, Fingerprint(r)))
    <3>1. TypeOK' /\ \A q \in Requests \ {r} : pc'[q] = pc[q]
      BY <1>0, <2>2, CallTypes, CallMoves, FingerprintType
    <3>2. HTTPTypeOK'
      BY <1>0, <1>6, <2>2, <3>1 DEF ForwardFails, HTTPTypeOK
    <3>3. pc'[r] = "idle" /\ pc[r] # "idle"
      BY <1>0, <2>2 DEF Return, Cleanup, TypeOK
    <3> QED
      BY <1>0, <1>6, <2>2, <3>1, <3>2, <3>3, OthersKeep DEF ForwardFails, HTTPTypeOK, Counts
  <2> QED
    BY <1>6, <2>1, <2>2 DEF ForwardFails, Forwarded
<1>7. ASSUME NEW r \in Requests, BackendReplies(r)
      PROVE  HTTPInv'
  <2>1. CASE RequestDoneStore(r, Fingerprint(r))
    <3>1. TypeOK' /\ \A q \in Requests \ {r} : pc'[q] = pc[q]
      BY <1>0, <2>1, CallTypes, CallMoves, FingerprintType
    <3>2. HTTPTypeOK'
      BY <1>0, <1>7, <3>1 DEF BackendReplies, HTTPTypeOK
    <3>3. pc'[r] \in Finishing
      BY <1>0, <2>1 DEF RequestDoneStore, TypeOK, Finishing
    <3>4. pc'[r] # "idle"
      BY <3>3 DEF Finishing
    <3> QED
      BY <1>0, <1>7, <3>1, <3>2, <3>3, <3>4, OthersKeep DEF BackendReplies, HTTPTypeOK, Counts
  <2>2. CASE pc[r] # "StatusProcess" /\ UNCHANGED vars
    <3>1. HTTPTypeOK'
      BY <1>0, <1>7, <2>2 DEF BackendReplies, HTTPTypeOK, TypeOK, vars
    <3> QED
      BY <1>0, <1>7, <2>2, <3>1, OthersKeep
         DEF BackendReplies, HTTPTypeOK, HandlerFollowsCall, Counts, vars
  <2> QED
    BY <1>7, <2>1, <2>2 DEF BackendReplies
<1>8. ASSUME NEW r \in Requests, RequestDoneStep(r)
      PROVE  HTTPInv'
  <2>1. TypeOK' /\ \A q \in Requests \ {r} : pc'[q] = pc[q]
    BY <1>0, <1>8, CallTypes, CallMoves, FingerprintType DEF RequestDoneStep
  <2>2. HTTPTypeOK'
    BY <1>0, <1>8, <2>1 DEF RequestDoneStep, HTTPTypeOK
  <2>3. pc'[r] \in Finishing /\ pc'[r] # "idle"
    BY <1>0, <1>8 DEF RequestDoneStep, RequestDoneCoolDown, TypeOK, Finishing
  <2> QED
    BY <1>0, <1>8, <2>1, <2>2, <2>3, OthersKeep DEF RequestDoneStep, HTTPTypeOK, Counts
<1>9. ASSUME NEW r \in Requests, Deliver(r)
      PROVE  HTTPInv'
  <2>1. HTTPTypeOK'
    BY <1>0, <1>9 DEF Deliver, HTTPTypeOK, TypeOK, vars
  <2>2. pc[r] \in {"idle", "StatusOpenGates", "Done"}
    BY <1>0, <1>9 DEF Deliver, HandlerFollowsCall, Finishing
  <2> QED
    BY <1>0, <1>9, <2>1, <2>2, OthersKeep DEF Deliver, HTTPTypeOK, Counts, vars
<1>12. ASSUME NEW r \in Requests, CopyEnds(r)
       PROVE  HTTPInv'
  <2>1. CASE pc[r] = "idle" /\ At(r, "evaluate") /\ UNCHANGED vars
    <3>1. HTTPTypeOK'
      BY <1>0, <1>12, <2>1 DEF CopyEnds, HTTPTypeOK, TypeOK, vars
    <3> QED
      BY <1>0, <1>12, <2>1, <3>1, OthersKeep DEF CopyEnds, HTTPTypeOK, Counts, vars
  <2>2. CASE At(r, "idle") /\ Return(r)
    <3>1. TypeOK' /\ \A q \in Requests \ {r} : pc'[q] = pc[q]
      BY <1>0, <2>2, CallTypes, CallMoves, FingerprintType
    <3>2. HTTPTypeOK'
      BY <1>0, <1>12, <2>2, <3>1 DEF CopyEnds, HTTPTypeOK
    <3>3. pc'[r] = "idle"
      BY <1>0, <2>2 DEF Return, TypeOK
    <3> QED
      BY <1>0, <1>12, <2>2, <3>1, <3>2, <3>3, OthersKeep DEF CopyEnds, HTTPTypeOK, Counts
  <2> QED
    BY <1>12, <2>1, <2>2 DEF CopyEnds, Forwarded
<1>10. ASSUME NEW ended \in SUBSET cooldowns, CoolDownExpires(ended), UNCHANGED httpVars
       PROVE  HTTPInv'
  BY <1>0, <1>10 DEF CoolDownExpires, HTTPInv, HTTPTypeOK, TypeOK, HandlerFollowsCall, Counts,
     GetAnsweredFaithfully
<1>11. CASE UNCHANGED allVars
  BY <1>0, <1>11 DEF allVars, vars, HTTPInv, HTTPTypeOK, TypeOK, HandlerFollowsCall, Counts,
     GetAnsweredFaithfully
<1> QED
  BY <1>1, <1>2, <1>3, <1>4, <1>5, <1>6, <1>7, <1>8, <1>9, <1>10, <1>11, <1>12
     DEF HTTPNext, Handle, Serve, Copy, BackendFails, RequestDoneFails, CopyFails

LEMMA HTTPInvInit == HTTPInit => HTTPInv
<1> SUFFICES ASSUME HTTPInit PROVE HTTPInv
  OBVIOUS
<1>1. TypeOK
  BY DEF HTTPInit, Init, TypeOK, Entries
<1>2. HTTPTypeOK
  BY <1>1 DEF HTTPInit, HTTPTypeOK, HandlerStates, Responses
<1> QED
  BY <1>2 DEF HTTPInit, Init, HTTPInv, HandlerFollowsCall, Counts, GetAnsweredFaithfully,
     Forwarding

\* Whatever fails and however often, every request's path stays among the handler's,
\* and reaches the backend at most twice.
THEOREM HTTPTypeCorrect == HTTPSpec => []HTTPTypeOK
<1>1. HTTPInv /\ [HTTPNext]_allVars => HTTPInv'
  BY HTTPInvStep
<1>2. HTTPInv => HTTPTypeOK
  BY DEF HTTPInv
<1> QED
  BY <1>1, <1>2, HTTPInvInit, PTL DEF HTTPSpec

\* A GET answered by the backend was sent to it once, one answered with 503 never,
\* along every path of anicetusHandler and forwardRequest, even where the handler
\* changes the fingerprint under the library.
THEOREM GetAlwaysAnsweredFaithfully == HTTPSpec => []GetAnsweredFaithfully
<1>1. HTTPInv /\ [HTTPNext]_allVars => HTTPInv'
  BY HTTPInvStep
<1>2. HTTPInv => GetAnsweredFaithfully
  BY DEF HTTPInv
<1> QED
  BY <1>1, <1>2, HTTPInvInit, PTL DEF HTTPSpec

-----------------------------------------------------------------------------
\* No configured field is among those that forwardRequest writes.
KeepsFingerprint == \A f \in Origins : RewrittenAs[f] = f

\* A request in the library's hands is known there by the fingerprint it came with.
KnownAsReceived ==
    \A r \in Requests : pc[r] # "idle" => fingerprint[r] = origin[r]

\* Each step of the handler is one of the library's, or none.
LEMMA HandlerStep ==
    ASSUME KeepsFingerprint, HTTPInv, KnownAsReceived, [HTTPNext]_allVars
    PROVE  [Next]_vars /\ KnownAsReceived'
<1> USE DEF httpVars, KnownAsReceived
<1>0. HTTPTypeOK /\ HandlerFollowsCall /\ TypeOK
  BY DEF HTTPInv, HTTPTypeOK
<1>a. ASSUME NEW r \in Requests
      PROVE  Fingerprint(r) = origin[r] /\ origin[r] \in Fingerprints
  BY <1>0, HTTPAssumption DEF Fingerprint, KeepsFingerprint, HTTPTypeOK
<1>1. ASSUME NEW r \in Requests, NEW m \in Methods, NEW f \in Origins, Receive(r, m, f)
      PROVE  UNCHANGED vars /\ KnownAsReceived'
  BY <1>0, <1>1 DEF Receive, HandlerFollowsCall, HTTPTypeOK, vars
<1>2. ASSUME NEW r \in Requests, Evaluate(r)
      PROVE  (\E f \in Fingerprints : IsCoolDown(r, f)) /\ KnownAsReceived'
  BY <1>0, <1>a, <1>2 DEF Evaluate, IsCoolDown, TypeOK
<1>3. ASSUME NEW r \in Requests, EvaluateStep(r)
      PROVE  Progress(r) /\ KnownAsReceived'
  BY <1>0, <1>3 DEF EvaluateStep, Progress, IsThunderingHerd, Remove, Exists, Processed, Store,
     TypeOK
<1>4. ASSUME NEW r \in Requests, Return(r), UNCHANGED origin
      PROVE  Progress(r) /\ KnownAsReceived'
  BY <1>0, <1>4 DEF Progress, Return, TypeOK
<1>5. ASSUME NEW r \in Requests, Cleanup(r, Fingerprint(r)), UNCHANGED origin
      PROVE  Progress(r) /\ KnownAsReceived'
  <2>1. Fingerprint(r) = fingerprint[r]
    BY <1>a, <1>5 DEF Cleanup
  <2> QED
    BY <1>0, <1>5, <2>1 DEF Progress, Cleanup, TypeOK
<1>6. ASSUME NEW r \in Requests, RequestDoneStore(r, Fingerprint(r)), UNCHANGED origin
      PROVE  Progress(r) /\ KnownAsReceived'
  <2>1. Fingerprint(r) = fingerprint[r]
    BY <1>a, <1>6 DEF RequestDoneStore
  <2> QED
    BY <1>0, <1>6, <2>1 DEF Progress, RequestDoneStore, TypeOK
<1>7. ASSUME NEW r \in Requests, RequestDoneCoolDown(r, Fingerprint(r)), UNCHANGED origin
      PROVE  Progress(r) /\ KnownAsReceived'
  <2>1. Fingerprint(r) = fingerprint[r]
    BY <1>a, <1>7 DEF RequestDoneCoolDown
  <2> QED
    BY <1>0, <1>7, <2>1 DEF Progress, RequestDoneCoolDown, TypeOK
<1>8. ASSUME UNCHANGED <<vars, origin>>
      PROVE  KnownAsReceived'
  BY <1>8 DEF vars
<1>9. ASSUME NEW r \in Requests, Handle(r), ~Evaluate(r), ~EvaluateStep(r)
      PROVE  (Progress(r) \/ UNCHANGED vars) /\ KnownAsReceived'
  BY <1>4, <1>5, <1>6, <1>7, <1>8, <1>9 DEF Handle, Serve, Copy, Refuse, Send,
     BackendFails, ForwardFails, Forwarded, BackendReplies, RequestDoneStep, RequestDoneFails,
     Deliver, CopyEnds, CopyFails
<1>10. ASSUME NEW ended \in SUBSET cooldowns, CoolDownExpires(ended), UNCHANGED httpVars
       PROVE  KnownAsReceived'
  BY <1>10 DEF CoolDownExpires
<1>11. CASE UNCHANGED allVars
  BY <1>8, <1>11 DEF allVars
<1> QED
  <2>1. ASSUME NEW r \in Requests, Handle(r)
        PROVE  [Next]_vars /\ KnownAsReceived'
    BY <1>2, <1>3, <1>9, <2>1 DEF Next
  <2>2. CASE UNCHANGED allVars
    BY <1>11, <2>2 DEF allVars
  <2> QED
    BY <1>1, <1>10, <2>1, <2>2 DEF HTTPNext, Next

\* The proxy is a user of the library as module Anicetus has it: every behaviour of
\* the handlers is one of Init and Next.
THEOREM ProxyUsesLibrary ==
    ASSUME KeepsFingerprint
    PROVE  HTTPSpec => Init /\ [][Next]_vars
<1>1. HTTPInit => Init /\ KnownAsReceived
  BY DEF HTTPInit, Init, KnownAsReceived
<1>2. HTTPInv /\ [HTTPNext]_allVars => HTTPInv'
  BY HTTPInvStep
<1>3. HTTPInv /\ KnownAsReceived /\ [HTTPNext]_allVars => [Next]_vars /\ KnownAsReceived'
  BY HandlerStep
<1> QED
  BY <1>1, <1>2, <1>3, HTTPInvInit, PTL DEF HTTPSpec

\* Through the proxy too, although every handler may fail at any point and the detector
\* as well, a fingerprint is blocked only while a request of it is being processed; and a
\* request is answered 503 on nobody's behalf only if the entry it saw was removed before
\* it read the flag.
THEOREM ProxyBlocksOnlyWhileProcessing ==
    ASSUME KeepsFingerprint, NothingLost
    PROVE  HTTPSpec => []BlockedOnlyWhileProcessing /\ WaitsForProcessing
<1>1. Init => NoneFaulted /\ TypeOK /\ PendingHasLeader
  BY DEF Init, NoneFaulted, TypeOK, Entries, PendingHasLeader
<1>2. NoneFaulted /\ [Next]_vars => NoneFaulted'
  BY FaultedStep
<1>3. TypeOK /\ [Next]_vars => TypeOK'
  BY TypeStep
<1>4. TypeOK /\ PendingHasLeader /\ [Next]_vars => PendingHasLeader'
  BY LeaderStep
<1>5. NoneFaulted /\ PendingHasLeader => BlockedOnlyWhileProcessing
  BY DEF NoneFaulted, PendingHasLeader, BlockedOnlyWhileProcessing
<1>6. TypeOK /\ BlockedOnlyWhileProcessing /\ [Next]_vars =>
          [\A r \in Requests : ~WaitsInVain(r)]_vars
  BY WaitStep
<1> QED
  BY <1>1, <1>2, <1>3, <1>4, <1>5, <1>6, ProxyUsesLibrary, PTL DEF WaitsForProcessing

=============================================================================
