------------------------- MODULE AnicetusRedisProofs -------------------------
(***************************************************************************)
(* The library over the Redis detector uses each as its own module has it: *)
(* a behaviour of AnicetusRedis is one of TokenBucketRedis, and one of     *)
(* Anicetus.  What is proved of those two holds of the composition.        *)
(***************************************************************************)
EXTENDS AnicetusRedis, TokenBucketRedisProofs

\* The theorems of the library, of the core as AnicetusRedis instantiates it.
Core == INSTANCE AnicetusProofs WITH
    cooldowns <- CoolingDown, HerdVerdicts <- BOOLEAN, Serialized <- FALSE,
    Failures <- {"detector", "storage", "crash"}

\* Any of the library's calls may fail here, and callers are not serialized.
LEMMA CoreAssumption == Core!AnicetusAssumption
BY DEF Core!AnicetusAssumption

-----------------------------------------------------------------------------
\* The detector is only asked about fingerprints that Evaluate was given.
FingerprintsOK == fingerprint \in [Requests -> Fingerprints]

USE DEF Faulty!Goto, Faulty!Put, Faulty!HasEntry, Faulty!IsProcessed, Sound!Goto, Sound!Put,
        Sound!HasEntry, Sound!IsProcessed

\* No call of the library but the first of Evaluate changes a request's fingerprint.
LEMMA FingerprintsStep ==
    ASSUME FingerprintsOK, [HerdNext]_herdVars
    PROVE  FingerprintsOK'
<1> USE DEF FingerprintsOK
<1>1. ASSUME NEW r \in Requests, NEW f \in Fingerprints, Evaluate(r, f)
      PROVE  FingerprintsOK'
  BY <1>1 DEF Evaluate, Sound!IsCoolDown
<1>2. ASSUME NEW r \in Requests, Proceed(r)
      PROVE  FingerprintsOK'
  BY <1>2 DEF Proceed, Verdict, CallStorage, FinishCoolDown, Sound!IsThunderingHerd, Sound!Remove,
     Sound!Exists, Sound!Processed, Sound!Store, Sound!RequestDoneStore, Sound!Cleanup,
     Sound!Return, Faulty!RequestDoneCoolDown
<1>3. ASSUME NEW r \in Requests, Fault(r)
      PROVE  FingerprintsOK'
  BY <1>3 DEF Fault, Faulty!Crash, Faulty!IsCoolDown, Faulty!IsThunderingHerd, Faulty!Remove,
     Faulty!Exists, Faulty!Processed, Faulty!Store, Faulty!RequestDoneStore,
     Faulty!RequestDoneCoolDown, Faulty!Cleanup
<1>4. CASE HerdTick
  BY <1>4 DEF HerdTick, core
<1>5. CASE UNCHANGED herdVars
  BY <1>5 DEF herdVars, core
<1> QED
  BY <1>1, <1>2, <1>3, <1>4, <1>5 DEF HerdNext

LEMMA FingerprintsAlways == HerdSpec => []FingerprintsOK
<1>1. HerdInit => FingerprintsOK
  BY DEF HerdInit, Sound!Init, FingerprintsOK
<1> QED
  BY <1>1, FingerprintsStep, PTL DEF HerdSpec

\* Each step of the composition is one of the detector's, or none.
LEMMA DetectorStep ==
    ASSUME FingerprintsOK, [HerdNext]_herdVars
    PROVE  [Next]_redis
<1>1. ASSUME NEW r \in Requests
      PROVE  fingerprint[r] \in Fingerprints
  BY DEF FingerprintsOK
<1>2. ASSUME NEW r \in Requests, NEW f \in Fingerprints, Evaluate(r, f)
      PROVE  UNCHANGED redis
  BY <1>2 DEF Evaluate
<1>3. ASSUME NEW r \in Requests, Proceed(r)
      PROVE  [Next]_redis
  BY <1>1, <1>3 DEF Proceed, Verdict, CallStorage, FinishCoolDown, Next, IsThunderingHerd
<1>4. ASSUME NEW r \in Requests, Fault(r)
      PROVE  [Next]_redis
  BY <1>1, <1>4 DEF Fault, Next
<1>5. CASE HerdTick
  BY <1>5 DEF HerdTick, Next
<1>6. CASE UNCHANGED herdVars
  BY <1>6 DEF herdVars
<1> QED
  BY <1>2, <1>3, <1>4, <1>5, <1>6 DEF HerdNext

\* The library asks the Redis detector nothing that its module does not cover.
THEOREM HerdUsesDetector == HerdSpec => Spec
<1>1. HerdInit => Init
  BY DEF HerdInit
<1>2. FingerprintsOK /\ [HerdNext]_herdVars => [Next]_redis
  BY DetectorStep
<1> QED
  BY <1>1, <1>2, FingerprintsAlways, PTL DEF HerdSpec, Spec

\* What the script promises, it promises under the library's use and its failures:
\* calls that fail after they were carried out, and instances that die.
THEOREM HerdKeepsBucket == HerdSpec => KeepsBucket
BY HerdUsesDetector, RedisKeepsBucket, PTL

\* Requests of a herd, however they fail, are let through at an ordinary bucket's rate.
THEOREM HerdRateOfOrdinaryBucket == HerdSpec => []NeverMoreThanOrdinary
BY HerdUsesDetector, RateOfOrdinaryBucket, PTL

-----------------------------------------------------------------------------
\* Each step of the composition is one of the library's, or none: when several keys
\* expire at once, their cooldowns end together.
LEMMA CoreStep ==
    ASSUME RedisTypeOK, FingerprintsOK, [HerdNext]_herdVars
    PROVE  [Core!Next]_(Core!vars)
<1>0. ASSUME UNCHANGED cooling
      PROVE  UNCHANGED CoolingDown
  BY <1>0 DEF CoolingDown, IsCoolDown
<1>1. ASSUME NEW r \in Requests, NEW f \in Fingerprints, Evaluate(r, f)
      PROVE  Core!Next
  <2>1. Core!IsCoolDown(r, f)
    BY <1>1 DEF Evaluate, Sound!IsCoolDown, Core!IsCoolDown, Sound!Admitted, Core!Admitted,
       Core!Goto
  <2> QED
    BY <2>1 DEF Core!Next
<1>2. ASSUME NEW r \in Requests, Verdict(r)
      PROVE  Core!Progress(r)
  BY <1>2 DEF Verdict, Sound!IsThunderingHerd, Core!IsThunderingHerd, Core!Goto, Core!Progress
<1>3. ASSUME NEW r \in Requests, CallStorage(r)
      PROVE  Core!Progress(r)
  <2> USE DEF Core!Goto, Core!Put, Core!HasEntry, Core!IsProcessed, Sound!PutFails
  <2>1. CASE Sound!Remove(r)
    BY <2>1 DEF Sound!Remove, Core!Remove, Core!Progress
  <2>2. CASE Sound!Exists(r)
    BY <2>2 DEF Sound!Exists, Core!Exists, Core!Progress
  <2>3. CASE Sound!Processed(r)
    BY <2>3 DEF Sound!Processed, Core!Processed, Core!Progress
  <2>4. CASE Sound!Store(r)
    BY <2>4 DEF Sound!Store, Core!Store, Core!Progress
  <2>5. CASE Sound!RequestDoneStore(r, fingerprint[r])
    BY <2>5 DEF Sound!RequestDoneStore, Core!RequestDoneStore, Core!Progress
  <2>6. CASE Sound!Cleanup(r, fingerprint[r])
    BY <2>6 DEF Sound!Cleanup, Core!Cleanup, Core!Progress
  <2>7. CASE Sound!Return(r)
    BY <2>7 DEF Sound!Return, Core!Return, Core!Progress
  <2> QED
    BY <1>3, <2>1, <2>2, <2>3, <2>4, <2>5, <2>6, <2>7 DEF CallStorage
<1>4. ASSUME NEW r \in Requests, FinishCoolDown(r)
      PROVE  Core!Progress(r)
  BY <1>4 DEF FinishCoolDown, Faulty!RequestDoneCoolDown, Core!RequestDoneCoolDown, Core!Goto,
     Core!Progress
<1>5. ASSUME NEW r \in Requests, Fault(r)
      PROVE  Core!Next
  <2> USE DEF Core!Goto, Core!Put, Core!HasEntry, Core!IsProcessed, Core!PutFails,
              Faulty!PutFails
  <2>1. CASE Faulty!Crash(r)
    BY <2>1 DEF Faulty!Crash, Core!Crash, Core!Next
  <2>2. ASSUME NEW f \in Fingerprints, Faulty!IsCoolDown(r, f)
        PROVE  Core!Next
    <3>1. Core!IsCoolDown(r, f)
      BY <2>2 DEF Faulty!IsCoolDown, Core!IsCoolDown, Faulty!Admitted, Core!Admitted
    <3> QED
      BY <3>1 DEF Core!Next
  <2>3. CASE Faulty!IsThunderingHerd(r)
    BY <2>3 DEF Faulty!IsThunderingHerd, Core!IsThunderingHerd, Core!Progress, Core!Next
  <2>4. CASE Faulty!Remove(r)
    BY <2>4 DEF Faulty!Remove, Core!Remove, Core!Progress, Core!Next
  <2>5. CASE Faulty!Exists(r) \/ Faulty!Processed(r)
    BY <2>5 DEF Faulty!Exists, Core!Exists, Faulty!Processed, Core!Processed, Core!Progress,
       Core!Next
  <2>6. CASE Faulty!Store(r)
    BY <2>6 DEF Faulty!Store, Core!Store, Core!Progress, Core!Next
  <2>7. CASE Faulty!RequestDoneStore(r, fingerprint[r])
    BY <2>7 DEF Faulty!RequestDoneStore, Core!RequestDoneStore, Core!Progress, Core!Next
  <2>8. CASE Faulty!RequestDoneCoolDown(r, fingerprint[r])
    BY <2>8 DEF Faulty!RequestDoneCoolDown, Core!RequestDoneCoolDown, Core!Progress, Core!Next
  <2>9. CASE Faulty!Cleanup(r, fingerprint[r])
    BY <2>9 DEF Faulty!Cleanup, Core!Cleanup, Core!Progress, Core!Next
  <2> QED
    BY <1>5, <2>1, <2>2, <2>3, <2>4, <2>5, <2>6, <2>7, <2>8, <2>9 DEF Fault
<1>6. CASE HerdTick
  <2> DEFINE ended == CoolingDown \ CoolingDown'
  <2>1. ASSUME NEW f \in CoolingDown'
        PROVE  f \in CoolingDown
    <3>1. f \in Fingerprints /\ Less(cooling[f]) > 0
      BY <1>6, <2>1 DEF HerdTick, Tick, CoolingDown, IsCoolDown
    <3>2. cooling[f] \in 0 .. CoolDownInterval
      BY <3>1 DEF RedisTypeOK
    <3> QED
      BY <3>1, <3>2, RedisAssumption DEF CoolingDown, IsCoolDown, Less
  <2>2. CoolingDown' = CoolingDown \ ended
    BY <2>1
  <2>3. CASE ended = {}
    BY <1>6, <2>2, <2>3 DEF HerdTick, core, Core!vars
  <2>4. CASE ended # {}
    <3>1. Core!CoolDownExpires(ended)
      BY <1>6, <2>2, <2>4 DEF HerdTick, core, Core!CoolDownExpires
    <3> QED
      BY <3>1 DEF Core!Next
  <2> QED
    BY <2>3, <2>4
<1>7. CASE UNCHANGED herdVars
  BY <1>0, <1>7 DEF herdVars, core, redis, Core!vars
<1> QED
  BY <1>1, <1>2, <1>3, <1>4, <1>5, <1>6, <1>7 DEF HerdNext, Proceed, Core!Next

\* The composition is an instance of module Anicetus, whose detector answered freely.
THEOREM HerdUsesLibrary == HerdSpec => Core!Init /\ [][Core!Next]_(Core!vars)
<1>1. HerdInit => Core!Init
  <2>1. HerdInit => CoolingDown = {}
    BY DEF HerdInit, Init, CoolingDown, IsCoolDown
  <2> QED
    BY <2>1 DEF HerdInit, Sound!Init, Core!Init
<1>2. RedisTypeOK /\ FingerprintsOK /\ [HerdNext]_herdVars => [Core!Next]_(Core!vars)
  BY CoreStep
<1> QED
  BY <1>1, <1>2, HerdUsesDetector, TypeCorrect, FingerprintsAlways, PTL DEF HerdSpec

\* With the Redis detector too, an entry that blocks has a request being processed
\* behind it, unless a write failed or an instance died: whatever expires meanwhile.
THEOREM HerdPendingHasLeader == HerdSpec => []Core!PendingHasLeader
<1>1. Core!Init => Core!TypeOK /\ Core!PendingHasLeader
  BY DEF Core!Init, Core!TypeOK, Core!Entries, Core!PendingHasLeader
<1>2. Core!TypeOK /\ [Core!Next]_(Core!vars) => Core!TypeOK'
  BY Core!TypeStep, CoreAssumption
<1>3. Core!TypeOK /\ Core!PendingHasLeader /\ [Core!Next]_(Core!vars) =>
          Core!PendingHasLeader'
  BY Core!LeaderStep, CoreAssumption
<1> QED
  BY <1>1, <1>2, <1>3, HerdUsesLibrary, PTL

\* Until a call fails, no fingerprint is an exception.
FaultsCounted == faults \in Nat /\ (faults = 0 => faulted = {})

LEMMA CountStep ==
    ASSUME FaultsCounted, [HerdNext]_herdVars
    PROVE  FaultsCounted'
<1> USE DEF FaultsCounted
<1>1. ASSUME NEW r \in Requests, NEW f \in Fingerprints, Evaluate(r, f)
      PROVE  FaultsCounted'
  BY <1>1 DEF Evaluate, Sound!IsCoolDown
<1>2. ASSUME NEW r \in Requests, Proceed(r)
      PROVE  FaultsCounted'
  BY <1>2 DEF Proceed, Verdict, CallStorage, FinishCoolDown, Sound!IsThunderingHerd, Sound!Remove,
     Sound!Exists, Sound!Processed, Sound!Store, Sound!RequestDoneStore, Sound!Cleanup,
     Sound!Return, Sound!PutFails, Faulty!RequestDoneCoolDown
<1>3. ASSUME NEW r \in Requests, Fault(r)
      PROVE  FaultsCounted'
  BY <1>3 DEF Fault
<1>4. CASE HerdTick \/ UNCHANGED herdVars
  BY <1>4 DEF HerdTick, herdVars, core
<1> QED
  BY <1>1, <1>2, <1>3, <1>4 DEF HerdNext

\* With the Redis detector, until a call fails, a fingerprint is blocked only while a
\* request of it is being processed, and a request is told to wait on nobody's behalf only
\* if its entry was removed before it read the flag.  The detector's own error, the reply
\* to SET that CoolDown cannot read (tokenbucket_redis.go:104), keeps no gate closed.
THEOREM HerdBlocksOnlyWhileProcessing ==
    HerdSpec =>
        /\ [](faults = 0 => Core!BlockedOnlyWhileProcessing)
        /\ [][faults = 0 => \A r \in Requests : ~Core!WaitsInVain(r)]_(Core!vars)
<1>1. HerdInit => FaultsCounted
  BY DEF HerdInit, Sound!Init, FaultsCounted
<1>2. FaultsCounted /\ Core!PendingHasLeader =>
          (faults = 0 => Core!BlockedOnlyWhileProcessing)
  BY DEF FaultsCounted, Core!PendingHasLeader, Core!BlockedOnlyWhileProcessing
<1>3. Core!Init => Core!TypeOK
  BY DEF Core!Init, Core!TypeOK, Core!Entries
<1>4. Core!TypeOK /\ [Core!Next]_(Core!vars) => Core!TypeOK'
  BY Core!TypeStep, CoreAssumption
<1>5. Core!TypeOK /\ (faults = 0 => Core!BlockedOnlyWhileProcessing) /\ [Core!Next]_(Core!vars)
        => [faults = 0 => \A r \in Requests : ~Core!WaitsInVain(r)]_(Core!vars)
  BY Core!WaitStep, CoreAssumption
<1> QED
  BY <1>1, <1>2, <1>3, <1>4, <1>5, CountStep, HerdPendingHasLeader, HerdUsesLibrary, PTL
     DEF HerdSpec

=============================================================================
