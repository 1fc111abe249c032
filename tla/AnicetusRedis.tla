---------------------------- MODULE AnicetusRedis ----------------------------
(***************************************************************************)
(* The library over the Redis detector: module Anicetus with its free      *)
(* verdicts and its set of cooldowns replaced by the buckets and keys of   *)
(* TokenBucketRedis, and calls that fail a bounded number of times.  Every *)
(* step is a step of Anicetus and, where it calls the detector, one of     *)
(* TokenBucketRedis as well.                                               *)
(***************************************************************************)
EXTENDS TokenBucketRedis

CONSTANTS
    Requests,
    MaxFaults       \* bound: calls that fail, and instances that die

ASSUME HerdAssumption == MaxFaults \in Nat

VARIABLES storage, fingerprint, pc, faulted,    \* as in Anicetus
          faults                                \* calls that failed so far

core == <<storage, fingerprint, pc, faulted>>
herdVars == <<redis, core, faults>>

CoolingDown == {f \in Fingerprints : IsCoolDown(f)}

\* The core when its calls succeed, and when they may fail.
Sound == INSTANCE Anicetus WITH
    cooldowns <- CoolingDown, HerdVerdicts <- BOOLEAN, Serialized <- FALSE, Failures <- {}
Faulty == INSTANCE Anicetus WITH
    cooldowns <- CoolingDown, HerdVerdicts <- BOOLEAN, Serialized <- FALSE,
    Failures <- {"detector", "storage", "crash"}

HerdInit == Init /\ Sound!Init /\ faults = 0

-----------------------------------------------------------------------------
\* Evaluate starts with the cooldown.
Evaluate(r, f) == UNCHANGED <<redis, faults>> /\ Sound!IsCoolDown(r, f)

\* The script's answer is the verdict.
Verdict(r) ==
    /\ \/ Grant(fingerprint[r]) /\ Sound!IsThunderingHerd(r) /\ pc'[r] = "Remove"
       \/ Drain(fingerprint[r]) /\ Sound!IsThunderingHerd(r) /\ pc'[r] = "Exists"
    /\ UNCHANGED faults

\* Calls on the storage, and what the caller does with its status.
CallStorage(r) ==
    /\ UNCHANGED <<redis, faults>>
    /\ \/ Sound!Remove(r)
       \/ Sound!Exists(r)
       \/ Sound!Processed(r)
       \/ Sound!Store(r)
       \/ Sound!RequestDoneStore(r, fingerprint[r])
       \/ Sound!Cleanup(r, fingerprint[r])
       \/ Sound!Return(r)

\* CoolDown reads the "OK" that Redis replies to SET as an integer: the key is set,
\* and the call fails.
FinishCoolDown(r) ==
    /\ CoolDown(fingerprint[r])
    /\ Faulty!RequestDoneCoolDown(r, fingerprint[r])
    /\ pc'[r] = "DoneFailed"
    /\ UNCHANGED faults

-----------------------------------------------------------------------------
\* Something fails.  A call that fails may have been carried out all the same.
Fault(r) ==
    /\ faults < MaxFaults
    /\ faults' = faults + 1
    /\ \/ UNCHANGED redis /\ Faulty!Crash(r)
       \/ /\ UNCHANGED redis
          /\ \E f \in Fingerprints : Faulty!IsCoolDown(r, f)
          /\ pc'[r] = "StatusFailed"
       \/ /\ IsThunderingHerd(fingerprint[r]) \/ UNCHANGED redis
          /\ Faulty!IsThunderingHerd(r)
          /\ pc'[r] = "StatusFailed"
       \/ /\ UNCHANGED redis
          /\ \/ Faulty!Remove(r)
             \/ Faulty!Exists(r)
             \/ Faulty!Processed(r)
             \/ Faulty!Store(r)
          /\ pc'[r] = "StatusFailed"
       \/ /\ UNCHANGED redis
          /\ \/ Faulty!RequestDoneStore(r, fingerprint[r])
             \/ Faulty!RequestDoneCoolDown(r, fingerprint[r])
          /\ pc'[r] = "DoneFailed"
       \/ /\ UNCHANGED redis
          /\ Faulty!Cleanup(r, fingerprint[r])
          /\ fingerprint[r] \in faulted'

HerdTick == Tick /\ UNCHANGED <<core, faults>>

Proceed(r) == Verdict(r) \/ CallStorage(r) \/ FinishCoolDown(r)

HerdNext ==
    \/ \E r \in Requests :
        \/ \E f \in Fingerprints : Evaluate(r, f)
        \/ Proceed(r)
        \/ Fault(r)
    \/ HerdTick

\* Requests in flight go on and time passes.  Nobody has to send a request.
HerdFairness ==
    /\ \A r \in Requests : WF_herdVars(Proceed(r))
    /\ WF_herdVars(HerdTick)

HerdSpec == HerdInit /\ [][HerdNext]_herdVars /\ HerdFairness

-----------------------------------------------------------------------------
\* Properties.

\* An entry left at false by a failed write or a dead instance blocks every request
\* of its fingerprint and has nobody to remove it.  Requests that keep coming lift it
\* all the same: they drain the bucket but do not renew its key, so it expires, the
\* next request is no herd, and Evaluate removes the entry.  That takes a burst of at
\* least 1: see EveryBucketExpires.
BlockLifted ==
    \A f \in Fingerprints :
        ([]<>\E r \in Requests : pc[r] = "IsThunderingHerd" /\ fingerprint[r] = f)
            => (storage[f] = "pending" ~> storage[f] # "pending")

\* "CoolDown will cool down the fingerprint" and "RequestDone will mark the request
\* as done" (tokenbucket_redis.go:90, anicetus.go:50): where no call has failed and
\* no instance has died, RequestDone returns no error.
RequestDoneSucceeds == faults = 0 => \A r \in Requests : pc[r] # "DoneFailed"

=============================================================================
