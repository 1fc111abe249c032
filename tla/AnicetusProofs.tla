--------------------------- MODULE AnicetusProofs ---------------------------
(***************************************************************************)
(* What module Anicetus guarantees for every set of requests, every set of *)
(* fingerprints and, where no assumption says otherwise, every kind of     *)
(* failure.                                                                *)
(***************************************************************************)
EXTENDS Anicetus, TLAPS

USE DEF Goto, Put, HasEntry, IsProcessed

-----------------------------------------------------------------------------
\* One step keeps the types, whatever fails.
LEMMA TypeStep ==
    ASSUME TypeOK, [Next]_vars
    PROVE  TypeOK'
<1> USE DEF TypeOK, Entries, Evaluating, Statuses, Finishing
<1>1. ASSUME NEW r \in Requests, NEW f \in Fingerprints, IsCoolDown(r, f)
      PROVE  TypeOK'
  BY <1>1 DEF IsCoolDown
<1>2. ASSUME NEW r \in Requests, IsThunderingHerd(r)
      PROVE  TypeOK'
  BY <1>2 DEF IsThunderingHerd
<1>3. ASSUME NEW r \in Requests, Remove(r)
      PROVE  TypeOK'
  BY <1>3 DEF Remove, PutFails
<1>4. ASSUME NEW r \in Requests, Exists(r)
      PROVE  TypeOK'
  BY <1>4 DEF Exists
<1>5. ASSUME NEW r \in Requests, Processed(r)
      PROVE  TypeOK'
  BY <1>5 DEF Processed
<1>6. ASSUME NEW r \in Requests, Store(r)
      PROVE  TypeOK'
  BY <1>6 DEF Store, PutFails
<1>7. ASSUME NEW r \in Requests, RequestDoneStore(r, fingerprint[r])
      PROVE  TypeOK'
  BY <1>7 DEF RequestDoneStore, PutFails
<1>8. ASSUME NEW r \in Requests, RequestDoneCoolDown(r, fingerprint[r])
      PROVE  TypeOK'
  BY <1>8 DEF RequestDoneCoolDown
<1>9. ASSUME NEW r \in Requests, Cleanup(r, fingerprint[r])
      PROVE  TypeOK'
  BY <1>9 DEF Cleanup, PutFails
<1>10. ASSUME NEW r \in Requests, Return(r)
       PROVE  TypeOK'
  BY <1>10 DEF Return
<1>11. ASSUME NEW r \in Requests, Crash(r)
       PROVE  TypeOK'
  BY <1>11 DEF Crash
<1>12. ASSUME NEW ended \in SUBSET cooldowns, CoolDownExpires(ended)
       PROVE  TypeOK'
  BY <1>12 DEF CoolDownExpires
<1>13. CASE UNCHANGED vars
  BY <1>13 DEF vars
<1> QED
  BY <1>1, <1>2, <1>3, <1>4, <1>5, <1>6, <1>7, <1>8, <1>9, <1>10, <1>11, <1>12, <1>13
     DEF Next, Progress

\* Evaluate, RequestDone and Cleanup keep to their four statuses, whatever fails,
\* and the storage holds nothing, false or true.
THEOREM TypeCorrect == Spec => []TypeOK
<1>1. Init => TypeOK
  BY DEF Init, TypeOK, Entries
<1> QED
  BY <1>1, TypeStep, PTL DEF Spec

-----------------------------------------------------------------------------
\* One step leaves no fingerprint blocked without a request being processed.
LEMMA LeaderStep ==
    ASSUME TypeOK, PendingHasLeader, [Next]_vars
    PROVE  PendingHasLeader'
<1> SUFFICES ASSUME NEW g \in Fingerprints, storage'[g] = "pending", g \notin faulted'
             PROVE  \E r \in Requests : Processing(r, g)'
  BY DEF PendingHasLeader
<1> USE DEF TypeOK, Processing
\* A step that leaves the storage and the requests being processed alone.
<1>a. ASSUME UNCHANGED storage, faulted \subseteq faulted',
             \A r \in Requests : Processing(r, g) => Processing(r, g)'
      PROVE  \E r \in Requests : Processing(r, g)'
  BY <1>a DEF PendingHasLeader
<1>1. ASSUME NEW r \in Requests, NEW f \in Fingerprints, IsCoolDown(r, f)
      PROVE  \E q \in Requests : Processing(q, g)'
  BY <1>1, <1>a DEF IsCoolDown
<1>2. ASSUME NEW r \in Requests, IsThunderingHerd(r)
      PROVE  \E q \in Requests : Processing(q, g)'
  BY <1>2, <1>a DEF IsThunderingHerd
<1>3. ASSUME NEW r \in Requests, Remove(r)
      PROVE  \E q \in Requests : Processing(q, g)'
  BY <1>3 DEF Remove, PutFails, PendingHasLeader
<1>4. ASSUME NEW r \in Requests, Exists(r)
      PROVE  \E q \in Requests : Processing(q, g)'
  BY <1>4, <1>a DEF Exists
<1>5. ASSUME NEW r \in Requests, Processed(r)
      PROVE  \E q \in Requests : Processing(q, g)'
  BY <1>5, <1>a DEF Processed
<1>6. ASSUME NEW r \in Requests, Store(r)
      PROVE  \E q \in Requests : Processing(q, g)'
  <2>1. CASE g = fingerprint[r]
    BY <1>6, <2>1 DEF Store, PutFails
  <2>2. CASE g # fingerprint[r]
    BY <1>6, <2>2 DEF Store, PutFails, PendingHasLeader
  <2> QED
    BY <2>1, <2>2
<1>7. ASSUME NEW r \in Requests, RequestDoneStore(r, fingerprint[r])
      PROVE  \E q \in Requests : Processing(q, g)'
  BY <1>7 DEF RequestDoneStore, PutFails, PendingHasLeader
<1>8. ASSUME NEW r \in Requests, RequestDoneCoolDown(r, fingerprint[r])
      PROVE  \E q \in Requests : Processing(q, g)'
  BY <1>8, <1>a DEF RequestDoneCoolDown
<1>9. ASSUME NEW r \in Requests, Cleanup(r, fingerprint[r])
      PROVE  \E q \in Requests : Processing(q, g)'
  BY <1>9 DEF Cleanup, PutFails, PendingHasLeader
<1>10. ASSUME NEW r \in Requests, Return(r)
       PROVE  \E q \in Requests : Processing(q, g)'
  BY <1>10, <1>a DEF Return
<1>11. ASSUME NEW r \in Requests, Crash(r)
       PROVE  \E q \in Requests : Processing(q, g)'
  BY <1>11 DEF Crash, PendingHasLeader
<1>12. ASSUME NEW ended \in SUBSET cooldowns, CoolDownExpires(ended)
       PROVE  \E q \in Requests : Processing(q, g)'
  BY <1>12, <1>a DEF CoolDownExpires
<1>13. CASE UNCHANGED vars
  BY <1>13, <1>a DEF vars
<1> QED
  BY <1>1, <1>2, <1>3, <1>4, <1>5, <1>6, <1>7, <1>8, <1>9, <1>10, <1>11, <1>12, <1>13
     DEF Next, Progress

\* A fingerprint is blocked only on behalf of a request that is being processed
\* now, unless a write of that fingerprint failed or its instance crashed: any
\* number of requests may interleave, and every failure may happen.
THEOREM PendingAlwaysHasLeader == Spec => []PendingHasLeader
<1>1. Init => PendingHasLeader
  BY DEF Init, PendingHasLeader
<1> QED
  BY <1>1, LeaderStep, TypeCorrect, PTL DEF Spec

-----------------------------------------------------------------------------
\* No write of the storage fails and no instance dies.
NothingLost == Failures \subseteq {"detector"}

\* Then no fingerprint is ever an exception.
NoneFaulted == faulted = {}

LEMMA FaultedStep ==
    ASSUME NothingLost, NoneFaulted, [Next]_vars
    PROVE  NoneFaulted'
BY DEF NothingLost, NoneFaulted, Next, Progress, IsCoolDown, IsThunderingHerd, Remove, Exists,
    Processed, Store, RequestDoneStore, RequestDoneCoolDown, Cleanup, Return, Crash,
    CoolDownExpires, PutFails, vars

\* Only Processed turns requests away, and what it reads then is the entry of a request
\* being processed, or none any more.
LEMMA WaitStep ==
    ASSUME TypeOK, BlockedOnlyWhileProcessing, [Next]_vars
    PROVE  [\A r \in Requests : ~WaitsInVain(r)]_vars
<1> SUFFICES ASSUME Next, NEW q \in Requests, WaitsInVain(q)
             PROVE  FALSE
  OBVIOUS
<1> USE DEF TypeOK, WaitsInVain
<1>1. ASSUME NEW r \in Requests, Processed(r)
      PROVE  FALSE
  <2>1. r = q /\ ~IsProcessed(fingerprint[q])
    BY <1>1 DEF Processed
  <2>2. storage[fingerprint[q]] = "pending" /\ fingerprint[q] \in Fingerprints
    BY <2>1 DEF Entries
  <2> QED
    BY <2>2 DEF BlockedOnlyWhileProcessing
<1>2. ASSUME NEW r \in Requests, ~Processed(r),
             \/ \E f \in Fingerprints : IsCoolDown(r, f)
             \/ Progress(r)
             \/ Crash(r)
      PROVE  pc'[q] = pc[q] \/ pc'[q] # "StatusWait"
  BY <1>2 DEF Progress, IsCoolDown, IsThunderingHerd, Remove, Exists, Store, RequestDoneStore,
     RequestDoneCoolDown, Cleanup, Return, Crash
<1>3. ASSUME NEW ended \in SUBSET cooldowns, CoolDownExpires(ended)
      PROVE  pc' = pc
  BY <1>3 DEF CoolDownExpires
<1> QED
  BY <1>1, <1>2, <1>3 DEF Next

\* However the requests overlap and whatever the detector answers, a fingerprint is
\* blocked only while a request of it is being processed, and a request is told to wait
\* only then, unless the entry it saw was removed before it read the flag.
THEOREM NobodyBlockedInVain ==
    ASSUME NothingLost
    PROVE  Spec => []BlockedOnlyWhileProcessing /\ WaitsForProcessing
<1>1. Init => NoneFaulted
  BY DEF Init, NoneFaulted
<1>2. NoneFaulted /\ [Next]_vars => NoneFaulted'
  BY FaultedStep
<1>3. NoneFaulted /\ PendingHasLeader => BlockedOnlyWhileProcessing
  BY DEF NoneFaulted, PendingHasLeader, BlockedOnlyWhileProcessing
<1>4. TypeOK /\ BlockedOnlyWhileProcessing /\ [Next]_vars =>
          [\A r \in Requests : ~WaitsInVain(r)]_vars
  BY WaitStep
<1> QED
  BY <1>1, <1>2, <1>3, <1>4, TypeCorrect, PendingAlwaysHasLeader, PTL
     DEF Spec, WaitsForProcessing

-----------------------------------------------------------------------------
\* The setting the promise is kept in: the callers of one fingerprint do not
\* overlap inside Evaluate, the herd does not break off, and the storage works.
\* None of the three can be dropped: see the README.
UnbrokenHerd ==
    /\ Serialized = TRUE
    /\ HerdVerdicts = {TRUE}
    /\ Failures \subseteq {"detector"}

\* One step of the library keeps every entry in step with its owner.
LEMMA OwnerStep ==
    ASSUME UnbrokenHerd, TypeOK, EntryFollowsOwner, [Next]_vars
    PROVE  EntryFollowsOwner'
<1> USE DEF UnbrokenHerd, TypeOK, EntryFollowsOwner, Evaluating, Leading, Finishing, Statuses,
            Entries
<1>1. ASSUME NEW r \in Requests, NEW f \in Fingerprints, IsCoolDown(r, f)
      PROVE  EntryFollowsOwner'
  BY <1>1 DEF IsCoolDown, Admitted
<1>2. ASSUME NEW r \in Requests, IsThunderingHerd(r)
      PROVE  EntryFollowsOwner'
  BY <1>2 DEF IsThunderingHerd
<1>3. ASSUME NEW r \in Requests, Remove(r)
      PROVE  EntryFollowsOwner'
  BY <1>3 DEF Remove
<1>4. ASSUME NEW r \in Requests, Exists(r)
      PROVE  EntryFollowsOwner'
  BY <1>4 DEF Exists
<1>5. ASSUME NEW r \in Requests, Processed(r)
      PROVE  EntryFollowsOwner'
  BY <1>5 DEF Processed
<1>6. ASSUME NEW r \in Requests, Store(r)
      PROVE  EntryFollowsOwner'
  BY <1>6 DEF Store, PutFails
<1>7. ASSUME NEW r \in Requests, RequestDoneStore(r, fingerprint[r])
      PROVE  EntryFollowsOwner'
  BY <1>7 DEF RequestDoneStore, PutFails
<1>8. ASSUME NEW r \in Requests, RequestDoneCoolDown(r, fingerprint[r])
      PROVE  EntryFollowsOwner'
  BY <1>8 DEF RequestDoneCoolDown
<1>9. ASSUME NEW r \in Requests, Cleanup(r, fingerprint[r])
      PROVE  EntryFollowsOwner'
  BY <1>9 DEF Cleanup, PutFails
<1>10. ASSUME NEW r \in Requests, Return(r)
      PROVE  EntryFollowsOwner'
  BY <1>10 DEF Return
<1>11. ASSUME NEW r \in Requests, Crash(r)
      PROVE  EntryFollowsOwner'
  BY <1>11 DEF Crash
<1>12. ASSUME NEW ended \in SUBSET cooldowns, CoolDownExpires(ended)
      PROVE  EntryFollowsOwner'
  BY <1>12 DEF CoolDownExpires
<1>13. CASE UNCHANGED vars
  BY <1>13 DEF vars
<1> QED
  BY <1>1, <1>2, <1>3, <1>4, <1>5, <1>6, <1>7, <1>8, <1>9, <1>10, <1>11, <1>12, <1>13
     DEF Next, Progress

\* From Exists until RequestDone or Cleanup is over, an entry belongs to one
\* request and says how far that request is.
THEOREM EntryAlwaysFollowsOwner ==
    ASSUME UnbrokenHerd
    PROVE  Spec => []EntryFollowsOwner
<1>1. Init => EntryFollowsOwner
  BY DEF Init, EntryFollowsOwner, Evaluating, Leading, Finishing
<1>2. TypeOK /\ EntryFollowsOwner /\ [Next]_vars => EntryFollowsOwner'
  BY OwnerStep
<1> QED
  BY <1>1, <1>2, TypeCorrect, PTL DEF Spec

\* A single request of a herd is let through at a time.
THEOREM HerdHasSingleLeader ==
    ASSUME UnbrokenHerd
    PROVE  Spec => []SingleLeader
<1>1. EntryFollowsOwner => SingleLeader
  BY DEF EntryFollowsOwner, SingleLeader, Processing, Leading
<1> QED
  BY <1>1, EntryAlwaysFollowsOwner, PTL

\* The gate of a herd that was served is never closed on it again without having
\* been removed first: nobody stores false over RequestDone's true.
THEOREM GateNeverReclosed ==
    ASSUME UnbrokenHerd
    PROVE  Spec => NeverReclosed
<1>1. ASSUME TypeOK, EntryFollowsOwner, [Next]_vars
      PROVE  [\A f \in Fingerprints : storage[f] = "processed" => storage'[f] # "pending"]_vars
  <2> SUFFICES ASSUME Next, NEW g \in Fingerprints,
                      storage[g] = "processed", storage'[g] = "pending"
               PROVE  FALSE
    BY <1>1
  <2>1. ASSUME NEW r \in Requests, Store(r)
        PROVE  FALSE
    BY <1>1, <2>1 DEF Store, PutFails, UnbrokenHerd, TypeOK, EntryFollowsOwner
  <2>2. ASSUME NEW r \in Requests,
               Remove(r) \/ RequestDoneStore(r, fingerprint[r]) \/ Cleanup(r, fingerprint[r])
        PROVE  FALSE
    BY <1>1, <2>2 DEF Remove, RequestDoneStore, Cleanup, PutFails, UnbrokenHerd, TypeOK
  <2> QED
    BY <2>1, <2>2 DEF Next, Progress, IsCoolDown, IsThunderingHerd, Exists, Processed,
       RequestDoneCoolDown, Return, Crash, CoolDownExpires
<1> QED
  BY <1>1, TypeCorrect, EntryAlwaysFollowsOwner, PTL DEF Spec, NeverReclosed

-----------------------------------------------------------------------------
\* A step that changes neither the entries nor who is processed is none of HerdGate.
LEMMA StutterStep ==
    ASSUME UNCHANGED storage,
           \A r \in Requests, f \in Fingerprints : Processing(r, f)' <=> Processing(r, f)
    PROVE  UNCHANGED Promise!vars
BY DEF Promise!vars, Leaders

\* Who is processed after a step of r on its fingerprint alone.
LEMMA LeadersStep ==
    ASSUME TypeOK, NEW r \in Requests, NEW S, S = Leaders[fingerprint[r]]',
           UNCHANGED fingerprint,
           \A q \in Requests \ {r} : pc'[q] = pc[q]
    PROVE  Leaders' = [Leaders EXCEPT ![fingerprint[r]] = S]
BY DEF Leaders, Processing, TypeOK

\* Store elects, RequestDone's Store serves, Cleanup aborts or forgets; every other
\* call of the library leaves the gate alone.
LEMMA PromiseStep ==
    ASSUME UnbrokenHerd, TypeOK, EntryFollowsOwner, [Next]_vars
    PROVE  [Promise!Next]_(Promise!vars)
<1> USE DEF UnbrokenHerd, TypeOK
<1>1. ASSUME NEW r \in Requests, Store(r)
      PROVE  Promise!Elect(r, fingerprint[r])
  <2> DEFINE g == fingerprint[r]
  <2>1. storage[g] = "absent" /\ storage' = [storage EXCEPT ![g] = "pending"]
    BY <1>1 DEF Store, PutFails, EntryFollowsOwner
  <2>2. Leaders[g] = {}
    BY <2>1 DEF EntryFollowsOwner, Leaders, Processing
  <2>3. Leaders[g]' = {r}
    <3>1. fingerprint' = fingerprint /\ pc' = [pc EXCEPT ![r] = "StatusProcess"]
      BY <1>1 DEF Store, PutFails
    <3>2. \A q \in Requests : Processing(q, g)' <=> q = r
      BY <2>2, <3>1 DEF Leaders, Processing
    <3>3. Leaders[g]' = {q \in Requests : Processing(q, g)'}
      BY <3>1 DEF Leaders
    <3> QED
      BY <3>2, <3>3
  <2>4. Leaders' = [Leaders EXCEPT ![g] = {r}]
    BY <1>1, <2>3, LeadersStep DEF Store, PutFails
  <2> QED
    BY <2>1, <2>2, <2>4 DEF Promise!Elect
<1>2. ASSUME NEW r \in Requests, pc[r] = "StatusProcess"
      PROVE  Leaders[fingerprint[r]] = {r} /\ storage[fingerprint[r]] = "pending"
  BY <1>2 DEF EntryFollowsOwner, Leaders, Processing, Leading
<1>3. ASSUME NEW r \in Requests, pc[r] \in Finishing
      PROVE  Leaders[fingerprint[r]] = {} /\ storage[fingerprint[r]] = "processed"
  BY <1>3 DEF EntryFollowsOwner, Leaders, Processing, Leading, Finishing
<1>4. ASSUME NEW r \in Requests, RequestDoneStore(r, fingerprint[r])
      PROVE  Promise!Serve(r, fingerprint[r])
  <2> DEFINE g == fingerprint[r]
  <2>1. storage' = [storage EXCEPT ![g] = "processed"]
    BY <1>4 DEF RequestDoneStore, PutFails
  <2>2. Leaders[g] = {r} /\ storage[g] = "pending"
    BY <1>2, <1>4 DEF RequestDoneStore
  <2>3. Leaders[g]' = {}
    BY <1>4, <2>2 DEF RequestDoneStore, PutFails, Leaders, Processing
  <2>4. Leaders' = [Leaders EXCEPT ![g] = {}]
    BY <1>4, <2>3, LeadersStep DEF RequestDoneStore, PutFails
  <2> QED
    BY <2>1, <2>2, <2>4 DEF Promise!Serve
<1>5. ASSUME NEW r \in Requests, Cleanup(r, fingerprint[r]), pc[r] = "StatusProcess"
      PROVE  Promise!Abort(r, fingerprint[r])
  <2> DEFINE g == fingerprint[r]
  <2>1. storage' = [storage EXCEPT ![g] = "absent"]
    BY <1>5 DEF Cleanup, PutFails
  <2>2. Leaders[g] = {r} /\ storage[g] = "pending"
    BY <1>2, <1>5
  <2>3. Leaders[g]' = {}
    BY <1>5, <2>2 DEF Cleanup, PutFails, Leaders, Processing
  <2>4. Leaders' = [Leaders EXCEPT ![g] = {}]
    BY <1>5, <2>3, LeadersStep DEF Cleanup, PutFails
  <2> QED
    BY <2>1, <2>2, <2>4 DEF Promise!Abort
<1>6. ASSUME NEW r \in Requests, Cleanup(r, fingerprint[r]), pc[r] # "StatusProcess"
      PROVE  Promise!Forget(fingerprint[r])
  <2> DEFINE g == fingerprint[r]
  <2>1. storage' = [storage EXCEPT ![g] = "absent"]
    BY <1>6 DEF Cleanup, PutFails
  <2>2. Leaders[g] = {} /\ storage[g] = "processed"
    BY <1>3, <1>6 DEF Cleanup, Finishing
  <2>3. Leaders' = Leaders
    BY <1>6 DEF Cleanup, PutFails, Leaders, Processing
  <2> QED
    BY <2>1, <2>2, <2>3 DEF Promise!Forget
<1>7. ASSUME NEW r \in Requests, NEW f \in Fingerprints, IsCoolDown(r, f)
      PROVE  UNCHANGED Promise!vars
  BY <1>7, StutterStep DEF IsCoolDown, Processing
<1>8. ASSUME NEW r \in Requests,
             IsThunderingHerd(r) \/ Exists(r) \/ Processed(r) \/ Return(r)
               \/ RequestDoneCoolDown(r, fingerprint[r])
      PROVE  UNCHANGED Promise!vars
  BY <1>8, StutterStep DEF IsThunderingHerd, Exists, Processed, Return, RequestDoneCoolDown,
     Processing
<1>9. ASSUME NEW r \in Requests
      PROVE  ~Remove(r) /\ ~Crash(r)
  BY DEF Remove, Crash, EntryFollowsOwner
<1>10. ASSUME NEW ended \in SUBSET cooldowns, CoolDownExpires(ended)
       PROVE  UNCHANGED Promise!vars
  BY <1>10, StutterStep DEF CoolDownExpires, Processing
<1>11. CASE UNCHANGED vars
  BY <1>11, StutterStep DEF vars, Processing
<1> QED
  BY <1>1, <1>4, <1>5, <1>6, <1>7, <1>8, <1>9, <1>10, <1>11 DEF Next, Progress, Promise!Next

\* The separate calls of Evaluate, RequestDone and Cleanup amount to the atomic
\* elections, completions and removals of HerdGate.
THEOREM AnicetusKeepsPromise ==
    ASSUME UnbrokenHerd
    PROVE  Spec => KeepsPromise
<1>1. Init => Promise!Init
  BY DEF Init, Promise!Init, Leaders, Processing
<1>2. TypeOK /\ EntryFollowsOwner /\ [Next]_vars => [Promise!Next]_(Promise!vars)
  BY PromiseStep
<1> QED
  BY <1>1, <1>2, TypeCorrect, EntryAlwaysFollowsOwner, PTL DEF Spec, KeepsPromise, Promise!Spec

=============================================================================
