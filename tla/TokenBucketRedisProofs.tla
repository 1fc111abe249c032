----------------------- MODULE TokenBucketRedisProofs -----------------------
(***************************************************************************)
(* Theorems about TokenBucketRedis, for any fingerprints, burst, intervals *)
(* and length of a second: its types, when buckets leave Redis, and that   *)
(* it implements HerdBucket.  The invariant they rest on relates a key's   *)
(* expiration to the bucket had nobody been punished.                      *)
(***************************************************************************)
EXTENDS TokenBucketRedis, TLAPS

USE RedisAssumption

\* A bucket that is not stored has no expiration left over.
AbsentHasNoTTL == \A f \in Fingerprints \ stored : ttl[f] = 0

Inv ==
    /\ RedisTypeOK
    /\ EveryBucketExpires
    /\ AbsentHasNoTTL
    /\ OutlivesDebt
    /\ NeverMoreThanOrdinary

-----------------------------------------------------------------------------
\* Arithmetic of the constants.

\* Rounding up to a multiple of s loses nothing.
LEMMA RoundUp ==
    ASSUME NEW c \in Nat, NEW s \in Nat \ {0}
    PROVE  /\ ((c + (s - 1)) \div s) * s \in Nat
           /\ ((c + (s - 1)) \div s) * s >= c
<1> DEFINE n == c + (s - 1)
           q == n \div s
<1>1. n \in Nat /\ q \in Nat
    BY SMT
<1>2. n = (s * q) + (n % s) /\ (n % s) \in 0 .. s - 1
    BY <1>1, SMT
<1>3. q * s = s * q /\ s * q \in Nat
    BY <1>1, SMT
<1> HIDE DEF q
<1>4. q * s >= c
    BY <1>1, <1>2, <1>3, SMT
<1>. QED
    BY <1>1, <1>3, <1>4 DEF q

\* A full bucket has a token if the burst allows any, and its key outlives the time it
\* takes to fill.
LEMMA Constants ==
    /\ Cost \in Nat \ {0}
    /\ Capacity \in Nat
    /\ IF LimitersBurst > 0 THEN Capacity >= Cost ELSE Capacity < Cost
    /\ Expiration \in Nat
    /\ Expiration >= Capacity
<1>1. Cost \in Nat \ {0}
    BY DEF Cost
<1>2. Capacity \in Nat /\ IF LimitersBurst > 0 THEN Capacity >= Cost ELSE Capacity < Cost
    <2>1. LimitersBurst * LimitersInterval \in Nat
        BY SMT
    <2>2. LimitersBurst > 0 => LimitersBurst * LimitersInterval >= LimitersInterval
        BY SMT
    <2>3. LimitersBurst = 0 => LimitersBurst * LimitersInterval = 0
        BY SMT
    <2>. QED
        BY <2>1, <2>2, <2>3 DEF Capacity, Cost
<1>3. Expiration \in Nat /\ Expiration >= Capacity
    BY <1>2, RoundUp DEF Expiration
<1>. QED
    BY <1>1, <1>2, <1>3

-----------------------------------------------------------------------------
\* The invariant.

\* What a bucket holds is between nothing and a full bucket.
LEMMA NewTokensRange ==
    ASSUME RedisTypeOK, NEW f \in Fingerprints
    PROVE  NewTokens(f) \in 0 .. Capacity
BY Constants DEF RedisTypeOK, NewTokens, Least

LEMMA InvInit == Init => Inv
<1> SUFFICES ASSUME Init PROVE Inv
    OBVIOUS
<1>1. RedisTypeOK
    BY Constants DEF Init, RedisTypeOK
<1>2. EveryBucketExpires /\ AbsentHasNoTTL
    BY DEF Init, EveryBucketExpires, AbsentHasNoTTL
<1>3. OutlivesDebt /\ NeverMoreThanOrdinary
    <2>1. ASSUME NEW f \in Fingerprints
          PROVE  f \notin stored /\ undrained[f] = Capacity /\ NewTokens(f) = Capacity
        BY DEF Init, NewTokens
    <2>2. Capacity <= Capacity
        BY Constants
    <2>. QED
        BY <2>1, <2>2 DEF OutlivesDebt, NeverMoreThanOrdinary
<1>. QED
    BY <1>1, <1>2, <1>3 DEF Inv

\* A grant takes a token out of what the bucket holds, which is no more than what it
\* would hold had nobody been punished.
LEMMA GrantStep ==
    ASSUME Inv, NEW f \in Fingerprints, Grant(f)
    PROVE  /\ Inv'
           /\ NewTokens(f)' = NewTokens(f) - Cost
           /\ \A g \in Fingerprints \ {f} : NewTokens(g)' = NewTokens(g)
<1> DEFINE left == NewTokens(f) - Cost
<1>1. left \in 0 .. Capacity /\ left <= undrained[f] - Cost
      /\ undrained[f] - Cost \in 0 .. Capacity
    BY NewTokensRange, Constants DEF Grant, Inv, RedisTypeOK, NeverMoreThanOrdinary
<1> HIDE DEF left
<1>2. /\ tokens'[f] = left /\ since'[f] = 0 /\ ttl'[f] = Expiration
      /\ undrained'[f] = undrained[f] - Cost
    BY DEF Grant, HMSet, Inv, RedisTypeOK, left
<1>3. \A g \in Fingerprints \ {f} :
        /\ g \in stored' <=> g \in stored
        /\ tokens'[g] = tokens[g] /\ since'[g] = since[g]
        /\ ttl'[g] = ttl[g] /\ undrained'[g] = undrained[g]
    BY DEF Grant, HMSet, Inv, RedisTypeOK
<1>4. left + 0 = left /\ Least(Capacity, left) = left
    BY <1>1, Constants DEF Least
<1>5. NewTokens(f)' = left
    BY <1>2, <1>4 DEF NewTokens, Grant, HMSet
<1>6. \A g \in Fingerprints \ {f} : NewTokens(g)' = NewTokens(g)
    BY <1>3 DEF NewTokens
<1>7. RedisTypeOK'
    <2>1. /\ tokens' = [tokens EXCEPT ![f] = left]
          /\ since' = [since EXCEPT ![f] = 0]
          /\ ttl' = [ttl EXCEPT ![f] = Expiration]
          /\ undrained' = [undrained EXCEPT ![f] = undrained[f] - Cost]
          /\ cooling' = cooling /\ stored' = stored \cup {f} /\ denied' = denied
        BY DEF Grant, HMSet, left
    <2>2. 0 \in 0 .. Capacity /\ Expiration \in 0 .. Expiration
        BY Constants
    <2>. QED
        BY <1>1, <2>1, <2>2 DEF Inv, RedisTypeOK
<1>8. EveryBucketExpires'
    <2>1. Expiration > 0 /\ LimitersBurst > 0
        BY NewTokensRange, Constants DEF Grant, Inv
    <2>. QED
        BY <1>2, <1>3, <2>1 DEF Grant, HMSet, Inv, EveryBucketExpires, RedisTypeOK
<1>9. OutlivesDebt' /\ NeverMoreThanOrdinary'
    <2>1. f \in stored' /\ Expiration + (undrained[f] - Cost) >= Capacity
        BY <1>1, Constants DEF Grant, HMSet
    <2>2. ASSUME NEW g \in Fingerprints \ {f}
          PROVE  /\ g \in stored' => ttl'[g] + undrained'[g] >= Capacity
                 /\ g \notin stored' => undrained'[g] = Capacity
                 /\ NewTokens(g)' <= undrained'[g]
        BY <1>3, <1>6 DEF Inv, OutlivesDebt, NeverMoreThanOrdinary
    <2>. QED
        BY <1>1, <1>2, <1>5, <2>1, <2>2 DEF OutlivesDebt, NeverMoreThanOrdinary
<1>. QED
    <2>1. AbsentHasNoTTL'
        BY <1>3 DEF Grant, HMSet, Inv, AbsentHasNoTTL
    <2>. QED
        BY <1>5, <1>6, <1>7, <1>8, <1>9, <2>1 DEF Inv, left

\* A penalty falls on a bucket that is stored, for one that is not is full, unless the
\* burst is 0; it changes neither the key's expiration nor what there would be without it.
LEMMA DrainStep ==
    ASSUME Inv, NEW f \in Fingerprints, Drain(f)
    PROVE  /\ Inv'
           /\ NewTokens(f)' = 0
           /\ \A g \in Fingerprints \ {f} : NewTokens(g)' = NewTokens(g)
<1>1. f \in stored \/ LimitersBurst = 0
    BY Constants DEF Drain, NewTokens
<1>2. stored' = stored \cup {f} /\ ttl' = ttl /\ undrained' = undrained
    BY DEF Drain, HMSet
<1>3. tokens'[f] = 0 /\ since'[f] = 0
    BY DEF Drain, HMSet, Inv, RedisTypeOK
<1>4. \A g \in Fingerprints \ {f} : tokens'[g] = tokens[g] /\ since'[g] = since[g]
    BY DEF Drain, HMSet, Inv, RedisTypeOK
<1>5. 0 + 0 = 0 /\ Least(Capacity, 0) = 0 /\ 0 \in 0 .. Capacity
    BY Constants DEF Least
<1>6. NewTokens(f)' = 0
    BY <1>2, <1>3, <1>5 DEF NewTokens
<1>7. \A g \in Fingerprints \ {f} : NewTokens(g)' = NewTokens(g)
    BY <1>2, <1>4 DEF NewTokens
<1>8. RedisTypeOK'
    <2>1. /\ tokens' = [tokens EXCEPT ![f] = 0] /\ since' = [since EXCEPT ![f] = 0]
          /\ cooling' = cooling /\ denied' \subseteq Fingerprints
        BY DEF Drain, HMSet, Inv, RedisTypeOK
    <2>. QED
        BY <1>2, <1>5, <2>1 DEF Inv, RedisTypeOK
\* A key that this branch creates has no expiration, and is that of an empty bucket.
<1>9. f \notin stored => ttl[f] = 0 /\ undrained[f] = Capacity /\ Capacity = 0
    <2>1. LimitersBurst = 0 => Capacity = 0
        <3>1. 0 * LimitersInterval = 0
            BY SMT
        <3>. QED
            BY <3>1 DEF Capacity
    <2>. QED
        BY <1>1, <2>1 DEF Inv, OutlivesDebt, AbsentHasNoTTL
<1>10. EveryBucketExpires'
    BY <1>1, <1>2, <1>9 DEF Inv, EveryBucketExpires, RedisTypeOK
<1>11. OutlivesDebt' /\ NeverMoreThanOrdinary'
    <2>1. 0 <= undrained[f] /\ ttl[f] + undrained[f] \in Nat
        BY Constants DEF Inv, RedisTypeOK
    <2>2. ASSUME NEW g \in Fingerprints
          PROVE  NewTokens(g)' <= undrained[g]
        BY <1>6, <1>7, <2>1 DEF Inv, NeverMoreThanOrdinary
    <2>. QED
        BY <1>2, <1>9, <2>1, <2>2 DEF Inv, OutlivesDebt, NeverMoreThanOrdinary
<1>12. AbsentHasNoTTL'
    BY <1>2 DEF Inv, AbsentHasNoTTL
<1>. QED
    BY <1>6, <1>7, <1>8, <1>10, <1>11, <1>12 DEF Inv

\* The bucket of a fingerprint after a unit of time: one unit more, or a full one if
\* its key is not, or no longer, stored.
LEMMA TickStep ==
    ASSUME Inv, Tick
    PROVE  /\ Inv'
           /\ \A f \in stored \ Expiring :
                NewTokens(f)' = Least(Capacity, NewTokens(f) + 1)
           /\ \A f \in Fingerprints \ (stored \ Expiring) :
                NewTokens(f)' = Capacity /\ undrained'[f] = Capacity
<1>1. ASSUME NEW f \in stored \ Expiring
      PROVE  /\ f \in stored'
             /\ NewTokens(f)' = Least(Capacity, NewTokens(f) + 1)
             /\ NewTokens(f)' <= undrained'[f]
             /\ ttl'[f] > 0 <=> LimitersBurst > 0
             /\ ttl'[f] + undrained'[f] >= Capacity
    <2>1. f \in Fingerprints /\ f \in stored' /\ ttl[f] # 1
        BY DEF Tick, Inv, RedisTypeOK, Expiring
    <2>2. /\ tokens[f] \in 0 .. Capacity /\ since[f] \in 0 .. Capacity
          /\ ttl[f] \in 0 .. Expiration /\ undrained[f] \in 0 .. Capacity
          /\ ttl[f] > 0 <=> LimitersBurst > 0
          /\ ttl[f] + undrained[f] >= Capacity
          /\ NewTokens(f) <= undrained[f]
        BY <2>1 DEF Inv, RedisTypeOK, EveryBucketExpires, OutlivesDebt, NeverMoreThanOrdinary
    <2>3. /\ tokens'[f] = tokens[f]
          /\ since'[f] = Least(Capacity, since[f] + 1)
          /\ ttl'[f] = Less(ttl[f])
          /\ undrained'[f] = Least(Capacity, undrained[f] + 1)
        BY <2>1 DEF Tick
    <2>4. NewTokens(f) = Least(Capacity, tokens[f] + since[f])
        BY DEF NewTokens
    <2>5. NewTokens(f)' = Least(Capacity, tokens[f] + Least(Capacity, since[f] + 1))
        BY <2>1, <2>3 DEF NewTokens
    <2>6. NewTokens(f)' = Least(Capacity, NewTokens(f) + 1)
        <3>1. ASSUME NEW t \in 0 .. Capacity, NEW s \in 0 .. Capacity
              PROVE  Least(Capacity, t + Least(Capacity, s + 1))
                        = Least(Capacity, Least(Capacity, t + s) + 1)
            BY Constants DEF Least
        <3>. QED
            BY <2>2, <2>4, <2>5, <3>1
    <2>7. NewTokens(f) \in 0 .. Capacity
        BY <2>1, NewTokensRange DEF Inv
    <2>8. Least(Capacity, NewTokens(f) + 1) <= Least(Capacity, undrained[f] + 1)
        BY <2>2, <2>7, Constants DEF Least
    <2>9. /\ Less(ttl[f]) > 0 <=> LimitersBurst > 0
          /\ Less(ttl[f]) + Least(Capacity, undrained[f] + 1) >= Capacity
        BY <2>1, <2>2, Constants DEF Less, Least
    <2>. QED
        BY <2>1, <2>3, <2>6, <2>8, <2>9
<1>2. ASSUME NEW f \in Fingerprints \ (stored \ Expiring)
      PROVE  f \notin stored' /\ NewTokens(f)' = Capacity /\ undrained'[f] = Capacity
    <2>1. f \notin stored' /\ NewTokens(f)' = Capacity
        BY DEF Tick, NewTokens
    <2>2. undrained[f] \in 0 .. Capacity /\ undrained[f] + 1 >= Capacity
        <3>1. CASE f \in Expiring
            BY <3>1, Constants DEF Expiring, Inv, RedisTypeOK, OutlivesDebt
        <3>2. CASE f \notin stored
            BY <3>2, Constants DEF Inv, RedisTypeOK, OutlivesDebt
        <3>. QED
            BY <3>1, <3>2
    <2>3. Least(Capacity, undrained[f] + 1) = Capacity
        BY <2>2, Constants DEF Least
    <2>. QED
        BY <2>1, <2>3 DEF Tick
<1>3. RedisTypeOK'
    <2>1. stored' \subseteq Fingerprints
        BY DEF Tick, Inv, RedisTypeOK
    <2>2. tokens' \in [Fingerprints -> 0 .. Capacity]
        BY Constants DEF Tick, Inv, RedisTypeOK
    <2>3. since' \in [Fingerprints -> 0 .. Capacity]
        BY Constants DEF Tick, Inv, RedisTypeOK, Least
    <2>4. /\ ttl' \in [Fingerprints -> 0 .. Expiration]
          /\ cooling' \in [Fingerprints -> 0 .. CoolDownInterval]
        BY Constants DEF Tick, Inv, RedisTypeOK, Less
    <2>5. undrained' \in [Fingerprints -> 0 .. Capacity]
        BY Constants DEF Tick, Inv, RedisTypeOK, Least
    <2>6. denied' \subseteq Fingerprints
        BY DEF Tick
    <2>. QED
        BY <2>1, <2>2, <2>3, <2>4, <2>5, <2>6 DEF RedisTypeOK
<1>4. stored' = stored \ Expiring
    BY DEF Tick
<1>5. EveryBucketExpires' /\ AbsentHasNoTTL'
    <2>1. ASSUME NEW f \in Fingerprints \ stored'
          PROVE  ttl'[f] = 0
        BY <1>4, Constants DEF Tick, Less, Expiring, Inv, AbsentHasNoTTL
    <2>. QED
        BY <1>1, <1>4, <2>1 DEF EveryBucketExpires, AbsentHasNoTTL
<1>6. OutlivesDebt' /\ NeverMoreThanOrdinary'
    <2>1. stored \subseteq Fingerprints /\ Capacity <= Capacity
        BY Constants DEF Inv, RedisTypeOK
    <2>. QED
        BY <1>1, <1>2, <1>4, <2>1 DEF OutlivesDebt, NeverMoreThanOrdinary
<1>. QED
    BY <1>1, <1>2, <1>3, <1>5, <1>6 DEF Inv

\* A cooldown leaves the buckets alone.
LEMMA CoolDownStep ==
    ASSUME Inv, NEW f \in Fingerprints, CoolDown(f)
    PROVE  /\ Inv' /\ UNCHANGED <<undrained, denied>>
           /\ \A g \in Fingerprints : NewTokens(g)' = NewTokens(g)
<1>1. \A g \in Fingerprints : NewTokens(g)' = NewTokens(g)
    BY DEF CoolDown, NewTokens
<1>2. RedisTypeOK'
    BY DEF CoolDown, Inv, RedisTypeOK
<1>3. EveryBucketExpires' /\ AbsentHasNoTTL'
    BY DEF CoolDown, Inv, EveryBucketExpires, AbsentHasNoTTL
<1>4. OutlivesDebt' /\ NeverMoreThanOrdinary'
    BY <1>1 DEF CoolDown, Inv, OutlivesDebt, NeverMoreThanOrdinary
<1>. QED
    BY <1>1, <1>2, <1>3, <1>4 DEF Inv, CoolDown

LEMMA StutterStep ==
    ASSUME Inv, UNCHANGED redis
    PROVE  /\ Inv' /\ UNCHANGED <<undrained, denied>>
           /\ \A g \in Fingerprints : NewTokens(g)' = NewTokens(g)
<1>1. \A g \in Fingerprints : NewTokens(g)' = NewTokens(g)
    BY DEF redis, NewTokens
<1>. QED
    BY <1>1 DEF redis, Inv, RedisTypeOK, EveryBucketExpires, AbsentHasNoTTL, OutlivesDebt,
                NeverMoreThanOrdinary

LEMMA InvStep == Inv /\ [Next]_redis => Inv'
BY GrantStep, DrainStep, TickStep, CoolDownStep, StutterStep DEF Next, IsThunderingHerd

LEMMA Invariance == Spec => []Inv
BY InvInit, InvStep, PTL DEF Spec

-----------------------------------------------------------------------------
\* Theorems.

\* The detector keeps its types, for any burst, intervals and length of a second.
THEOREM TypeCorrect == Spec => []RedisTypeOK
<1>1. Inv => RedisTypeOK
    BY DEF Inv
<1>. QED
    BY <1>1, Invariance, PTL

\* With a burst of at least 1 every key of a bucket has an expiration, whichever branch of
\* the script wrote it last; with a burst of 0 none has.
THEOREM BucketsExpire == Spec => []EveryBucketExpires
<1>1. Inv => EveryBucketExpires
    BY DEF Inv
<1>. QED
    BY <1>1, Invariance, PTL

\* Neither a penalty nor an expiration puts more into a bucket than an ordinary one
\* would hold.
THEOREM RateOfOrdinaryBucket == Spec => []NeverMoreThanOrdinary
<1>1. Inv => NeverMoreThanOrdinary
    BY DEF Inv
<1>. QED
    BY <1>1, Invariance, PTL

\* A key expires no sooner than its bucket would be full had nobody been punished.
THEOREM KeysOutliveDebt == Spec => []OutlivesDebt
<1>1. Inv => OutlivesDebt
    BY DEF Inv
<1>. QED
    BY <1>1, Invariance, PTL

-----------------------------------------------------------------------------
\* The promised bucket.

\* A grant, a penalty and a unit of time are those of HerdBucket; a cooldown is a
\* stutter.
LEMMA BucketStep ==
    ASSUME Inv, [Next]_redis
    PROVE  [Bucket!Next]_(Bucket!vars)
<1> DEFINE level == [f \in Fingerprints |-> NewTokens(f)]
<1>1. ASSUME NEW f \in Fingerprints, Grant(f)
      PROVE  Bucket!Grant(f)
    <2>1. level[f] >= Cost
        BY <1>1 DEF Grant
    <2>2. level' = [level EXCEPT ![f] = @ - Cost]
        BY <1>1, GrantStep
    <2>. QED
        BY <1>1, <2>1, <2>2 DEF Grant, Bucket!Grant
<1>2. ASSUME NEW f \in Fingerprints, Drain(f)
      PROVE  Bucket!Deny(f)
    <2>1. level[f] < Cost
        BY <1>2 DEF Drain
    <2>2. level' = [level EXCEPT ![f] = 0]
        BY <1>2, DrainStep
    <2>. QED
        BY <1>2, <2>1, <2>2 DEF Drain, Bucket!Deny
<1>3. ASSUME Tick
      PROVE  \E forgotten \in SUBSET Fingerprints : Bucket!Pass(forgotten)
    <2> DEFINE forgotten == Fingerprints \ (stored \ Expiring)
    <2>1. stored \subseteq Fingerprints
        BY DEF Inv, RedisTypeOK
    <2>2. undrained' = [f \in Fingerprints |-> Bucket!Least(Capacity, undrained[f] + 1)]
        BY <1>3 DEF Tick, Least, Bucket!Least
    <2>3. \A f \in forgotten : undrained'[f] = Capacity
        BY <1>3, TickStep
    <2>4. level' = [f \in Fingerprints |->
                IF f \in forgotten THEN Capacity ELSE Bucket!Least(Capacity, level[f] + 1)]
        <3>1. ASSUME NEW f \in Fingerprints
              PROVE  NewTokens(f)' = IF f \in forgotten THEN Capacity
                                     ELSE Bucket!Least(Capacity, NewTokens(f) + 1)
            BY <1>3, <2>1, TickStep DEF Least, Bucket!Least
        <3>. QED
            BY <3>1
    <2>5. Bucket!Pass(forgotten)
        BY <1>3, <2>2, <2>3, <2>4 DEF Tick, Bucket!Pass
    <2>. QED
        BY <2>5
<1>4. ASSUME \A f \in Fingerprints : NewTokens(f)' = NewTokens(f),
             UNCHANGED <<undrained, denied>>
      PROVE  UNCHANGED Bucket!vars
    BY <1>4 DEF Bucket!vars
<1>5. CASE \E f \in Fingerprints : CoolDown(f)
    BY <1>4, <1>5, CoolDownStep
<1>6. CASE UNCHANGED redis
    BY <1>4, <1>6, StutterStep
<1>. QED
    BY <1>1, <1>2, <1>3, <1>5, <1>6 DEF Next, IsThunderingHerd, Bucket!Next

\* The detector implements the token bucket of the README: its script and expiring
\* keys grant, deny and drain as that bucket does, and forget penalties only.
THEOREM RedisKeepsBucket == Spec => KeepsBucket
<1>1. Init => Bucket!Init
    BY DEF Init, Bucket!Init, NewTokens
<1>. QED
    BY <1>1, BucketStep, Invariance, PTL DEF Spec, KeepsBucket, Bucket!Spec

=============================================================================
