---------------------- MODULE TokenBucketInMemoryProofs ----------------------
(***************************************************************************)
(* What the in-memory detector guarantees for every finite number of       *)
(* callers and fingerprints, any burst and any intervals: both maps are    *)
(* used as module MapExp has it, and a request is taken for a herd only    *)
(* when its fingerprint's one bucket is short of a token, however callers  *)
(* race to create limiters and the purging goroutine to take them away.    *)
(***************************************************************************)
EXTENDS TokenBucketInMemory, FiniteSetTheorems, TLAPS

\* The theorems of the expiring map, for the map of cooldowns and that of limiters.
CoolMap == INSTANCE MapExpProofs WITH
    Keys <- Fingerprints, TTL <- CoolDownInterval,
    items <- coolItems, queue <- coolQueue, pc <- coolPc, arg <- coolArg,
    timer <- coolTimer, fired <- coolFired, purger <- coolPurger,
    expiredKeys <- coolExpired, age <- coolAge, late <- FALSE

LimMap == INSTANCE MapExpProofs WITH
    Keys <- Fingerprints, TTL <- FullBucketPeriod,
    items <- limItems, queue <- limQueue, pc <- limPc, arg <- limArg,
    timer <- limTimer, fired <- limFired, purger <- limPurger,
    expiredKeys <- limExpired, age <- limAge, late <- FALSE

-----------------------------------------------------------------------------
\* Constants.

LEMMA Bounds ==
    /\ Cost \in Nat \ {0} /\ Capacity \in Nat \ {0} /\ FullBucketPeriod \in Nat \ {0}
    /\ None \notin LimiterIds
<1>1. Cardinality(Fingerprints) \in Nat /\ Cardinality(Callers) \in Nat
  BY DetectorAssumption, FS_CardinalityType
<1>2. LimitersInterval * LimitersBurst \in Nat \ {0}
      /\ LimitersBurst * LimitersInterval \in Nat \ {0}
  BY DetectorAssumption
<1> QED
  BY <1>1, <1>2, DetectorAssumption DEF Cost, Capacity, FullBucketPeriod, LimiterIds, None

\* Both periods are times to live the map can be given.
LEMMA MapAssumptions == CoolMap!MapExpAssumption /\ LimMap!MapExpAssumption
BY Bounds, DetectorAssumption DEF CoolMap!MapExpAssumption, LimMap!MapExpAssumption

-----------------------------------------------------------------------------
\* The detector's calls are the maps' own: what is proved of module MapExp holds of
\* both maps.

LEMMA CooldownsStep ==
    ASSUME [Next]_vars
    PROVE  [Cooldowns!Next]_(Cooldowns!vars)
<1>1. ASSUME UNCHANGED coolVars
      PROVE  UNCHANGED Cooldowns!vars
  BY <1>1 DEF coolVars, Cooldowns!vars
<1>2. ASSUME NEW c \in Callers, NEW f \in Fingerprints,
             CoolDown(c, f) \/ IsCoolDown(c, f) \/ Get(c, f)
      PROVE  [Cooldowns!Next]_(Cooldowns!vars)
  BY <1>1, <1>2 DEF CoolDown, IsCoolDown, Get, Cooldowns!Next
<1>3. ASSUME NEW c \in Callers,
             EndCoolDown(c) \/ Renew(c) \/ Set(c) \/ Add(c) \/ Grant(c) \/ Deny(c)
      PROVE  [Cooldowns!Next]_(Cooldowns!vars)
  BY <1>1, <1>3 DEF EndCoolDown, Renew, Set, Add, Grant, Deny, Allow, Cooldowns!Next
<1>4. CASE PurgeCooldowns \/ PurgeLimiters \/ Tick
  BY <1>1, <1>4 DEF PurgeCooldowns, PurgeLimiters, Tick, Cooldowns!Next
<1>5. CASE UNCHANGED vars
  BY <1>1, <1>5 DEF vars
<1> QED
  BY <1>2, <1>3, <1>4, <1>5 DEF Next

LEMMA LimitersStep ==
    ASSUME limArg \in [Callers -> Fingerprints], [Next]_vars
    PROVE  [Limiters!Next]_(Limiters!vars)
<1>1. ASSUME UNCHANGED limVars
      PROVE  UNCHANGED Limiters!vars
  BY <1>1 DEF limVars, Limiters!vars
<1>2. ASSUME NEW c \in Callers, NEW f \in Fingerprints,
             CoolDown(c, f) \/ IsCoolDown(c, f) \/ Get(c, f)
      PROVE  [Limiters!Next]_(Limiters!vars)
  BY <1>1, <1>2 DEF CoolDown, IsCoolDown, Get, Limiters!Next
<1>3. ASSUME NEW c \in Callers,
             EndCoolDown(c) \/ Renew(c) \/ Set(c) \/ Add(c) \/ Grant(c) \/ Deny(c)
      PROVE  [Limiters!Next]_(Limiters!vars)
  <2>1. limArg[c] \in Fingerprints
    OBVIOUS
  <2> QED
    BY <1>1, <1>3, <2>1 DEF EndCoolDown, Renew, Set, Add, Grant, Deny, Allow, Limiters!Next
<1>4. CASE PurgeCooldowns \/ PurgeLimiters \/ Tick
  BY <1>1, <1>4 DEF PurgeCooldowns, PurgeLimiters, Tick, Limiters!Next
<1>5. CASE UNCHANGED vars
  BY <1>1, <1>5 DEF vars
<1> QED
  BY <1>2, <1>3, <1>4, <1>5 DEF Next

\* The two names of each map.
LEMMA SameCooldowns ==
    /\ Cooldowns!TypeOK <=> CoolMap!TypeOK
    /\ Cooldowns!TypeOK' <=> CoolMap!TypeOK'
    /\ Cooldowns!Init <=> CoolMap!Init
    /\ [Cooldowns!Next]_(Cooldowns!vars) <=> [CoolMap!Next]_(CoolMap!vars)
BY DEF Cooldowns!TypeOK, CoolMap!TypeOK, Cooldowns!QueueEntries, CoolMap!QueueEntries,
   Cooldowns!Init, CoolMap!Init, Cooldowns!vars, CoolMap!vars,
   Cooldowns!Next, CoolMap!Next, Cooldowns!Add, CoolMap!Add, Cooldowns!Renew, CoolMap!Renew,
   Cooldowns!Set, CoolMap!Set, Cooldowns!Get, CoolMap!Get, Cooldowns!Delete, CoolMap!Delete,
   Cooldowns!Purger, CoolMap!Purger, Cooldowns!Receive, CoolMap!Receive, Cooldowns!Purge,
   CoolMap!Purge, Cooldowns!DeleteExpired, CoolMap!DeleteExpired, Cooldowns!Tick, CoolMap!Tick,
   Cooldowns!Quiet, CoolMap!Quiet, Cooldowns!Call, CoolMap!Call, Cooldowns!Touch, CoolMap!Touch,
   Cooldowns!First, CoolMap!First, Cooldowns!Queued, CoolMap!Queued, Cooldowns!Without,
   CoolMap!Without, Cooldowns!Entry, CoolMap!Entry, Cooldowns!MaxAge, CoolMap!MaxAge

LEMMA SameLimiters ==
    /\ Limiters!TypeOK <=> LimMap!TypeOK
    /\ Limiters!TypeOK' <=> LimMap!TypeOK'
    /\ \A c \in Callers : (Limiters!Add(c) \/ Limiters!Renew(c)) <=>
                          (LimMap!Add(c) \/ LimMap!Renew(c))
    /\ \A c \in Callers : Limiters!Renew(c) <=> LimMap!Renew(c)
    /\ Limiters!Purge <=> LimMap!Purge
    /\ Limiters!Tick <=> LimMap!Tick
    /\ \A f \in Fingerprints : LimMap!Entry(f) = [key |-> f, left |-> FullBucketPeriod]
    /\ Limiters!Init <=> LimMap!Init
    /\ [Limiters!Next]_(Limiters!vars) <=> [LimMap!Next]_(LimMap!vars)
BY DEF Limiters!TypeOK, LimMap!TypeOK, Limiters!QueueEntries, LimMap!QueueEntries,
   Limiters!Init, LimMap!Init, Limiters!vars, LimMap!vars,
   Limiters!Next, LimMap!Next, Limiters!Add, LimMap!Add, Limiters!Renew, LimMap!Renew,
   Limiters!Set, LimMap!Set, Limiters!Get, LimMap!Get, Limiters!Delete, LimMap!Delete,
   Limiters!Purger, LimMap!Purger, Limiters!Receive, LimMap!Receive, Limiters!Purge,
   LimMap!Purge, Limiters!DeleteExpired, LimMap!DeleteExpired, Limiters!Tick, LimMap!Tick,
   Limiters!Quiet, LimMap!Quiet, Limiters!Call, LimMap!Call, Limiters!Touch, LimMap!Touch,
   Limiters!First, LimMap!First, Limiters!Queued, LimMap!Queued, Limiters!Without,
   LimMap!Without, Limiters!Entry, LimMap!Entry, Limiters!MaxAge, LimMap!MaxAge

-----------------------------------------------------------------------------
\* What the detector adds to its maps: where callers are, and that exactly the keys
\* of the map have a limiter.
HerdTypes ==
    /\ pc \in [Callers -> {"idle", "Renew", "Set", "Add", "Allow"}]
    /\ held \in [Callers -> LimiterIds \cup {None}]
    /\ limiter \in [Fingerprints -> LimiterIds \cup {None}]
    /\ units \in [LimiterIds -> 0 .. Capacity]
    /\ level \in [Fingerprints -> 0 .. Capacity]
    /\ \A f \in Fingerprints : limiter[f] = None <=> f \notin limItems
    /\ \A c \in Callers :
        /\ pc[c] \in {"Add", "Allow"} => held[c] # None
        /\ pc[c] \in {"idle", "Set"} => held[c] = None

\* l may be used for a request of f: the map has it for f, or a caller of f has it in
\* hand, though the map may have another one for f by then, or none.
Serves(l, f) ==
    \/ f \in limItems /\ limiter[f] = l
    \/ \E c \in Callers : held[c] = l /\ limArg[c] = f

\* No limiter serves two fingerprints, and each that serves one has at least what the
\* fingerprint's one bucket has.
Covered ==
    \A l \in LimiterIds : \A f \in Fingerprints : Serves(l, f) =>
        /\ units[l] >= level[f]
        /\ \A g \in Fingerprints : Serves(l, g) => f = g

Inv == Cooldowns!TypeOK /\ Limiters!TypeOK /\ HerdTypes /\ Covered

LEMMA MapsInit == Init => Cooldowns!TypeOK /\ Limiters!TypeOK
<1>1. CoolMap!Init => CoolMap!TypeOK
  BY CoolMap!TypeInit, MapAssumptions
<1>2. LimMap!Init => LimMap!TypeOK
  BY LimMap!TypeInit, MapAssumptions
<1> QED
  BY <1>1, <1>2, SameCooldowns, SameLimiters DEF Init

LEMMA MapsStep ==
    ASSUME Cooldowns!TypeOK, Limiters!TypeOK, [Next]_vars
    PROVE  Cooldowns!TypeOK' /\ Limiters!TypeOK'
<1>1. Cooldowns!TypeOK'
  <2>1. CoolMap!TypeOK /\ [CoolMap!Next]_(CoolMap!vars)
    BY CooldownsStep, SameCooldowns
  <2>2. CoolMap!TypeOK'
    BY <2>1, CoolMap!TypeStep, MapAssumptions
  <2> QED
    BY <2>2, SameCooldowns
<1>2. limArg \in [Callers -> Fingerprints]
  BY DEF Limiters!TypeOK
<1>3. Limiters!TypeOK'
  <2>1. LimMap!TypeOK /\ [LimMap!Next]_(LimMap!vars)
    BY <1>2, LimitersStep, SameLimiters
  <2>2. LimMap!TypeOK'
    BY <2>1, LimMap!TypeStep, MapAssumptions
  <2> QED
    BY <2>2, SameLimiters
<1> QED
  BY <1>1, <1>3

-----------------------------------------------------------------------------
\* A step after which no limiter serves anybody new, and none holds less nor any
\* bucket more, leaves every limiter covering its bucket.
LEMMA FewerServed ==
    ASSUME Covered,
           \A l \in LimiterIds, f \in Fingerprints : Serves(l, f)' =>
               Serves(l, f) /\ units'[l] >= level'[f]
    PROVE  Covered'
BY DEF Covered

\* A step on neither limiters nor buckets.
LEMMA LimitersAlone ==
    ASSUME HerdTypes, Covered, UNCHANGED <<limItems, limArg, herdVars, level>>
    PROVE  HerdTypes' /\ Covered'
BY DEF HerdTypes, Covered, Serves, herdVars

\* A caller gets the limiter that the map has for its fingerprint.
LEMMA GetServes ==
    ASSUME Inv, NEW c \in Callers, NEW f \in Fingerprints, Get(c, f),
           NEW l \in LimiterIds, NEW g \in Fingerprints, Serves(l, g)'
    PROVE  Serves(l, g)
<1>0. HerdTypes /\ limArg \in [Callers -> Fingerprints] /\ l # None
  BY Bounds DEF Inv, Limiters!TypeOK
<1>1. /\ limItems' = limItems /\ limArg' = [limArg EXCEPT ![c] = f]
      /\ held' = [held EXCEPT ![c] = IF f \in limItems THEN limiter[f] ELSE None]
      /\ limiter' = limiter
  BY DEF Get, Limiters!Get, Limiters!Call
<1>2. CASE g \in limItems' /\ limiter'[g] = l
  BY <1>1, <1>2 DEF Serves
<1>3. ASSUME NEW d \in Callers, held'[d] = l, limArg'[d] = g
      PROVE  Serves(l, g)
  <2>1. CASE d = c
    BY <1>0, <1>1, <1>3, <2>1 DEF Serves, HerdTypes
  <2>2. CASE d # c
    BY <1>0, <1>1, <1>3, <2>2 DEF Serves, HerdTypes
  <2> QED
    BY <2>1, <2>2
<1> QED
  BY <1>2, <1>3 DEF Serves

LEMMA GetStep ==
    ASSUME Inv, NEW c \in Callers, NEW f \in Fingerprints, Get(c, f)
    PROVE  HerdTypes' /\ Covered'
<1>0. HerdTypes /\ Covered
  BY DEF Inv
<1>1. /\ limItems' = limItems
      /\ held' = [held EXCEPT ![c] = IF f \in limItems THEN limiter[f] ELSE None]
      /\ UNCHANGED <<limiter, units, level>> /\ pc' = [pc EXCEPT ![c] = "Renew"]
  BY DEF Get, Limiters!Get, Limiters!Call, history, Goto
<1>2. HerdTypes'
  BY <1>0, <1>1 DEF HerdTypes
<1> QED
  BY <1>0, <1>1, <1>2, GetServes, FewerServed DEF Covered

\* Renew and Add only move the caller on.
LEMMA MoveStep ==
    ASSUME Inv, NEW c \in Callers, Renew(c) \/ Add(c)
    PROVE  HerdTypes' /\ Covered'
<1>1. UNCHANGED <<limItems, limArg, limiter, units, held, level>>
  BY DEF Renew, Add, Limiters!Renew, Limiters!Add, history
<1>2. HerdTypes'
  BY <1>1, Bounds DEF Inv, HerdTypes, Renew, Add, Goto
<1>3. Covered'
  BY <1>1 DEF Inv, Covered, Serves
<1> QED
  BY <1>2, <1>3

\* A new limiter is nobody's yet, and full.
LEMMA NewLimiter ==
    ASSUME Inv, NEW c \in Callers, Set(c)
    PROVE  \E l \in LimiterIds :
             /\ units' = [units EXCEPT ![l] = Capacity]
             /\ limiter' = [limiter EXCEPT ![limArg[c]] = l]
             /\ held' = [held EXCEPT ![c] = l]
             /\ \A g \in Fingerprints : ~Serves(l, g)
             /\ \A m \in LimiterIds, g \in Fingerprints :
                    Serves(m, g)' => Serves(m, g) \/ (m = l /\ g = limArg[c])
<1> DEFINE f == limArg[c]
<1> PICK l \in LimiterIds \ InUse :
           /\ units' = [units EXCEPT ![l] = Capacity]
           /\ limiter' = [limiter EXCEPT ![f] = l]
           /\ held' = [held EXCEPT ![c] = l]
  BY DEF Set
<1>0. HerdTypes /\ f \in Fingerprints /\ limArg \in [Callers -> Fingerprints]
  BY DEF Inv, Limiters!TypeOK
<1>1. limItems' = limItems \cup {f} /\ limArg' = [limArg EXCEPT ![c] = f]
  BY DEF Set, Limiters!Set, Limiters!Call
<1>2. \A g \in Fingerprints : ~Serves(l, g)
  BY DEF Serves, InUse
<1>3. ASSUME NEW m \in LimiterIds, NEW g \in Fingerprints, Serves(m, g)'
      PROVE  Serves(m, g) \/ (m = l /\ g = f)
  <2>1. CASE g \in limItems' /\ limiter'[g] = m
    <3>1. CASE g = f
      BY <1>0, <2>1, <3>1 DEF HerdTypes
    <3>2. CASE g # f
      BY <1>0, <1>1, <2>1, <3>2 DEF Serves, HerdTypes
    <3> QED
      BY <3>1, <3>2
  <2>2. ASSUME NEW d \in Callers, held'[d] = m, limArg'[d] = g
        PROVE  Serves(m, g) \/ (m = l /\ g = f)
    <3>1. CASE d = c
      BY <1>0, <1>1, <2>2, <3>1 DEF HerdTypes
    <3>2. CASE d # c
      <4>1. held[d] = m /\ limArg[d] = g
        BY <1>0, <1>1, <2>2, <3>2 DEF HerdTypes
      <4> QED
        BY <4>1 DEF Serves
    <3> QED
      BY <3>1, <3>2
  <2> QED
    BY <1>3, <2>1, <2>2 DEF Serves
<1> QED
  BY <1>2, <1>3

LEMMA SetStep ==
    ASSUME Inv, NEW c \in Callers, Set(c)
    PROVE  HerdTypes' /\ Covered'
<1> DEFINE f == limArg[c]
<1> PICK l \in LimiterIds :
           /\ units' = [units EXCEPT ![l] = Capacity]
           /\ limiter' = [limiter EXCEPT ![f] = l]
           /\ held' = [held EXCEPT ![c] = l]
           /\ \A g \in Fingerprints : ~Serves(l, g)
           /\ \A m \in LimiterIds, g \in Fingerprints :
                  Serves(m, g)' => Serves(m, g) \/ (m = l /\ g = f)
  BY NewLimiter
<1>0. HerdTypes /\ Covered /\ f \in Fingerprints
  BY DEF Inv, Limiters!TypeOK
<1>1. /\ limItems' = limItems \cup {f} /\ level' = level
      /\ pc' = [pc EXCEPT ![c] = "Add"] /\ l # None
  BY Bounds DEF Set, Limiters!Set, Limiters!Call, history, Goto
<1>2. HerdTypes'
  BY <1>0, <1>1, Bounds DEF HerdTypes
<1>3. units'[l] = Capacity /\ \A m \in LimiterIds \ {l} : units'[m] = units[m]
  BY <1>0 DEF HerdTypes
<1>4. Capacity >= level'[f]
  BY <1>0, <1>1, Bounds DEF HerdTypes
<1> QED
  BY <1>0, <1>1, <1>2, <1>3, <1>4 DEF Covered

\* A caller that allows lets go of its limiter.
LEMMA AllowServes ==
    ASSUME Inv, NEW c \in Callers, Grant(c) \/ Deny(c),
           NEW l \in LimiterIds, NEW f \in Fingerprints, Serves(l, f)'
    PROVE  Serves(l, f)
BY Bounds DEF Inv, HerdTypes, Grant, Deny, Allow, limVars, Serves

\* Allow takes from the limiter in hand no more than from the fingerprint's bucket.
LEMMA AllowStep ==
    ASSUME Inv, NEW c \in Callers, Grant(c) \/ Deny(c)
    PROVE  /\ HerdTypes' /\ Covered'
           /\ Deny(c) => level[limArg[c]] < Cost
<1> DEFINE f == limArg[c]
           l == held[c]
<1>0. HerdTypes /\ Covered /\ f \in Fingerprints /\ limArg \in [Callers -> Fingerprints]
      /\ pc[c] = "Allow"
  BY DEF Inv, Limiters!TypeOK, Grant, Deny
<1>1. l \in LimiterIds /\ Serves(l, f)
  BY <1>0 DEF HerdTypes, Serves
<1>2. units[l] \in 0 .. Capacity /\ level[f] \in 0 .. Capacity /\ units[l] >= level[f]
  BY <1>0, <1>1 DEF HerdTypes, Covered
<1>3. PICK left \in 0 .. Capacity, rest \in 0 .. Capacity :
             /\ units' = [units EXCEPT ![l] = left] /\ level' = [level EXCEPT ![f] = rest]
             /\ left >= rest /\ rest <= level[f]
  <2>1. CASE Grant(c)
    <3> DEFINE left == units[l] - Cost
               rest == IF level[f] < Cost THEN 0 ELSE level[f] - Cost
    <3>1. left \in 0 .. Capacity /\ rest \in 0 .. Capacity /\ left >= rest /\ rest <= level[f]
      BY <1>2, <2>1, Bounds DEF Grant
    <3> QED
      BY <2>1, <3>1 DEF Grant, Allow
  <2>2. CASE Deny(c)
    <3>1. /\ units' = [units EXCEPT ![l] = 0] /\ level' = [level EXCEPT ![f] = 0]
          /\ 0 \in 0 .. Capacity
      BY <2>2, Bounds DEF Deny, Allow
    <3>2. 0 >= 0 /\ 0 <= level[f]
      BY <1>2, Bounds
    <3> QED
      BY <3>1, <3>2, Zenon
  <2> QED
    BY <2>1, <2>2
<1>4. /\ UNCHANGED <<limItems, limArg, limiter>> /\ held' = [held EXCEPT ![c] = None]
      /\ pc' = [pc EXCEPT ![c] = "idle"]
  BY DEF Grant, Deny, Allow, limVars, Goto
<1>5. HerdTypes'
  BY <1>0, <1>3, <1>4 DEF HerdTypes
<1>6. \A m \in LimiterIds, g \in Fingerprints : Serves(m, g)' => Serves(m, g)
  BY AllowServes
<1>7. ASSUME NEW m \in LimiterIds, NEW g \in Fingerprints, Serves(m, g)
      PROVE  units'[m] >= level'[g]
  <2>1. CASE m = l
    <3>1. g = f
      BY <1>0, <1>1, <1>7, <2>1 DEF Covered
    <3> QED
      BY <1>0, <1>1, <1>3, <2>1, <3>1 DEF HerdTypes
  <2>2. CASE m # l
    <3>1. units'[m] = units[m] /\ units[m] >= level[g]
      BY <1>0, <1>3, <1>7, <2>2 DEF HerdTypes, Covered
    <3>2. level'[g] <= level[g] /\ level'[g] \in Nat /\ level[g] \in Nat /\ units[m] \in Nat
      BY <1>0, <1>3, Bounds DEF HerdTypes
    <3> QED
      BY <3>1, <3>2
  <2> QED
    BY <2>1, <2>2
<1>8. Deny(c) => level[f] < Cost
  BY <1>2, Bounds DEF Deny
<1> QED
  BY <1>0, <1>5, <1>6, <1>7, <1>8, FewerServed

\* What the goroutine deletes serves those who still have it in hand, and no others.
LEMMA PurgeStep ==
    ASSUME Inv, PurgeLimiters
    PROVE  HerdTypes' /\ Covered'
<1>0. HerdTypes /\ Covered
  BY DEF Inv
<1>1. /\ limItems' \subseteq limItems /\ UNCHANGED <<limArg, units, pc, held, level>>
      /\ limiter' = [f \in Fingerprints |-> IF f \in limItems' THEN limiter[f] ELSE None]
  BY DEF PurgeLimiters, Limiters!Purger, Limiters!Receive, Limiters!Purge,
     Limiters!DeleteExpired, history
<1>2. HerdTypes'
  BY <1>0, <1>1 DEF HerdTypes
<1>3. ASSUME NEW l \in LimiterIds, NEW f \in Fingerprints, Serves(l, f)'
      PROVE  Serves(l, f)
  BY <1>1, <1>3 DEF Serves
<1> QED
  BY <1>0, <1>1, <1>2, <1>3, FewerServed DEF Covered

\* Every limiter that serves a bucket is refilled with it.
LEMMA TickStep ==
    ASSUME Inv, Tick
    PROVE  HerdTypes' /\ Covered'
<1>0. HerdTypes /\ Covered
  BY DEF Inv
<1>1. UNCHANGED <<limItems, limArg, limiter, pc, held>>
  BY DEF Tick, Limiters!Tick
<1>2. ASSUME NEW n \in 0 .. Capacity
      PROVE  Least(Capacity, n + 1) \in 0 .. Capacity /\ 0 \in 0 .. Capacity
  BY Bounds DEF Least
<1>3. \A l \in LimiterIds : units[l] \in 0 .. Capacity
  BY <1>0 DEF HerdTypes
<1>4. \A f \in Fingerprints : level[f] \in 0 .. Capacity
  BY <1>0 DEF HerdTypes
<1>5. units' \in [LimiterIds -> 0 .. Capacity] /\ level' \in [Fingerprints -> 0 .. Capacity]
  BY <1>2, <1>3, <1>4, Bounds DEF Tick
<1>6. HerdTypes'
  BY <1>0, <1>1, <1>5 DEF HerdTypes
<1>7. ASSUME NEW l \in LimiterIds, NEW f \in Fingerprints, Serves(l, f)'
      PROVE  Serves(l, f) /\ units'[l] >= level'[f]
  <2>1. Serves(l, f)
    BY <1>1, <1>7 DEF Serves
  <2>2. l \in InUse
    BY <2>1 DEF Serves, InUse
  <2>3. units'[l] = Least(Capacity, units[l] + 1) /\ level'[f] = Least(Capacity, level[f] + 1)
    BY <2>2 DEF Tick
  <2>4. units[l] >= level[f] /\ units[l] \in Nat /\ level[f] \in Nat
    BY <1>0, <1>3, <1>4, <2>1, Bounds DEF Covered
  <2> QED
    BY <2>1, <2>3, <2>4, Bounds DEF Least
<1> QED
  BY <1>0, <1>6, <1>7, FewerServed

-----------------------------------------------------------------------------
LEMMA InvInit == Init => Inv
<1> SUFFICES ASSUME Init
             PROVE  Inv
  OBVIOUS
<1>1. HerdTypes
  BY Bounds DEF Init, HerdTypes, Limiters!Init
<1>2. Covered
  BY Bounds DEF Init, Covered, Serves, Limiters!Init
<1> QED
  BY <1>1, <1>2, MapsInit DEF Inv

LEMMA InvStep ==
    ASSUME Inv, [Next]_vars
    PROVE  Inv'
<1>1. Cooldowns!TypeOK' /\ Limiters!TypeOK'
  BY MapsStep DEF Inv
<1>2. ASSUME UNCHANGED <<limItems, limArg, limiter, units, pc, held, level>>
      PROVE  HerdTypes' /\ Covered'
  BY <1>2, LimitersAlone DEF herdVars, Inv
<1>3. ASSUME NEW c \in Callers, NEW f \in Fingerprints, CoolDown(c, f) \/ IsCoolDown(c, f)
      PROVE  HerdTypes' /\ Covered'
  BY <1>2, <1>3 DEF CoolDown, IsCoolDown, limVars, herdVars, history
<1>4. ASSUME NEW c \in Callers, EndCoolDown(c)
      PROVE  HerdTypes' /\ Covered'
  BY <1>2, <1>4 DEF EndCoolDown, limVars, herdVars, history
<1>5. ASSUME PurgeCooldowns
      PROVE  HerdTypes' /\ Covered'
  BY <1>2, <1>5 DEF PurgeCooldowns, limVars, herdVars, history
<1>6. ASSUME UNCHANGED vars
      PROVE  HerdTypes' /\ Covered'
  BY <1>2, <1>6 DEF vars, limVars, herdVars, history
<1> QED
  BY <1>1, <1>3, <1>4, <1>5, <1>6, GetStep, MoveStep, SetStep, AllowStep, PurgeStep,
     TickStep
     DEF Next, Inv

LEMMA Invariance == Spec => []Inv
<1>1. Inv /\ [Next]_vars => Inv'
  BY InvStep
<1> QED
  BY <1>1, InvInit, PTL DEF Spec

-----------------------------------------------------------------------------
\* However calls, ticks and purges interleave, both maps stay well formed, exactly the
\* keys of the map have a limiter, and no caller allows with a limiter it does not have.
THEOREM DetectorTypeCorrect == Spec => []DetectorTypeOK
<1>1. Inv => DetectorTypeOK
  <2> SUFFICES ASSUME Inv
               PROVE  DetectorTypeOK
    OBVIOUS
  <2>1. \A f \in Fingerprints :
            limiter[f] \in IF f \in limItems THEN LimiterIds ELSE {None}
    BY DEF Inv, HerdTypes
  <2>2. \A c \in Callers :
            held[c] \in IF pc[c] \in {"Add", "Allow"} THEN LimiterIds
                       ELSE IF pc[c] = "Renew" THEN LimiterIds \cup {None} ELSE {None}
    BY DEF Inv, HerdTypes
  <2> QED
    BY <2>1, <2>2 DEF Inv, HerdTypes, DetectorTypeOK
<1> QED
  BY <1>1, Invariance, PTL

\* A request is taken for a herd only when the one bucket of its fingerprint is short
\* of a token, although racing callers may create several limiters for it, use one that
\* the map no longer has, and find the map without the one they used before.
THEOREM HerdsAreShort == Spec => HerdOnlyWhenShort
<1>1. ASSUME Inv
      PROVE  \A c \in Callers : Deny(c) => level[limArg[c]] < Cost
  BY <1>1, AllowStep
<1> QED
  BY <1>1, Invariance, PTL DEF Spec, HerdOnlyWhenShort

\* Both maps are used as module MapExp has them.
THEOREM MapsAreUsedAsGiven ==
    Spec => /\ Cooldowns!Init /\ [][Cooldowns!Next]_(Cooldowns!vars)
            /\ Limiters!Init /\ [][Limiters!Next]_(Limiters!vars)
<1>1. Init => Cooldowns!Init /\ Limiters!Init
  BY DEF Init
<1>2. [Next]_vars => [Cooldowns!Next]_(Cooldowns!vars)
  BY CooldownsStep
<1>3. Inv /\ [Next]_vars => [Limiters!Next]_(Limiters!vars)
  BY LimitersStep DEF Inv, Limiters!TypeOK
<1> QED
  BY <1>1, <1>2, <1>3, Invariance, PTL DEF Spec

-----------------------------------------------------------------------------
\* A queued limiter is full once its time to live is over, ...
Refilled ==
    \A i \in 1 .. Len(limQueue) : limQueue[i].key \in limItems =>
        units[limiter[limQueue[i].key]] + limQueue[i].left >= Capacity

\* ... which begins anew before a caller takes anything from it.
Renewed ==
    \A c \in Callers : pc[c] = "Allow" =>
        \A i \in 1 .. Len(limQueue) :
            limQueue[i].key = limArg[c] => limQueue[i].left = FullBucketPeriod

FullInv == Inv /\ LimMap!QueueKeysUnique /\ Refilled /\ Renewed

\* What the parts of the invariant say of the queue.
LEMMA QueueFacts ==
    ASSUME Inv
    PROVE  /\ Len(limQueue) \in Nat /\ limArg \in [Callers -> Fingerprints]
           /\ \A i \in 1 .. Len(limQueue) :
                limQueue[i].key \in Fingerprints /\ limQueue[i].left \in 0 .. FullBucketPeriod
           /\ \A f \in limItems : f \in Fingerprints /\ limiter[f] \in LimiterIds
           /\ \A l \in LimiterIds : units[l] \in 0 .. Capacity
           /\ FullBucketPeriod = Capacity /\ Capacity \in Nat
<1>1. limQueue \in Seq(Limiters!QueueEntries)
  BY DEF Inv, Limiters!TypeOK
<1>2. \A e \in Limiters!QueueEntries :
          e.key \in Fingerprints /\ e.left \in 0 .. FullBucketPeriod
  BY DEF Limiters!QueueEntries
<1>3. \A i \in 1 .. Len(limQueue) : limQueue[i] \in Limiters!QueueEntries
  BY <1>1
<1>4. limItems \subseteq Fingerprints /\ limArg \in [Callers -> Fingerprints]
  BY DEF Inv, Limiters!TypeOK
<1>5. FullBucketPeriod = Capacity
  BY DetectorAssumption DEF FullBucketPeriod, Capacity
<1> QED
  BY <1>1, <1>2, <1>3, <1>4, <1>5, Bounds DEF Inv, HerdTypes

LEMMA FullRenewStep ==
    ASSUME FullInv, NEW c \in Callers, Renew(c) \/ Add(c)
    PROVE  Refilled' /\ Renewed'
<1>0. Inv /\ Refilled /\ Renewed
  BY DEF FullInv
<1>1. UNCHANGED <<limItems, limArg, limiter, units>>
  BY DEF Renew, Add, Limiters!Renew, Limiters!Add, history
<1>2. ASSUME NEW i \in 1 .. Len(limQueue')
      PROVE  \/ limQueue'[i] = LimMap!Entry(limArg[c])
             \/ /\ limQueue'[i].key # limArg[c]
                /\ \E j \in 1 .. Len(limQueue) : limQueue'[i] = limQueue[j]
  <2>1. LimMap!TypeOK /\ LimMap!QueueKeysUnique /\ (LimMap!Add(c) \/ LimMap!Renew(c))
    BY SameLimiters DEF FullInv, Inv, Renew, Add
  <2> QED
    BY <2>1, LimMap!NewestEntry, MapAssumptions
<1>3. LimMap!Entry(limArg[c]) = [key |-> limArg[c], left |-> FullBucketPeriod]
  BY <1>0, QueueFacts, SameLimiters
<1>4. Refilled'
  BY <1>0, <1>1, <1>2, <1>3, QueueFacts DEF Refilled
<1>5. ASSUME NEW d \in Callers, pc'[d] = "Allow",
             NEW i \in 1 .. Len(limQueue'), limQueue'[i].key = limArg'[d]
      PROVE  limQueue'[i].left = FullBucketPeriod
  <2>1. CASE limQueue'[i] = LimMap!Entry(limArg[c])
    BY <1>3, <2>1
  <2>2. CASE limQueue'[i].key # limArg[c]
    <3>1. d # c /\ pc[d] = "Allow"
      BY <1>0, <1>1, <1>5, <2>2 DEF Renew, Add, Goto, Inv, HerdTypes
    <3> QED
      BY <1>0, <1>1, <1>2, <1>5, <2>2, <3>1, <1>3 DEF Renewed
  <2> QED
    BY <1>2, <2>1, <2>2
<1>6. Renewed'
  BY <1>5 DEF Renewed
<1> QED
  BY <1>4, <1>6

LEMMA FullSetStep ==
    ASSUME FullInv, NEW c \in Callers, Set(c)
    PROVE  Refilled' /\ Renewed'
<1> DEFINE f == limArg[c]
<1> PICK l \in LimiterIds \ InUse :
           /\ units' = [units EXCEPT ![l] = Capacity]
           /\ limiter' = [limiter EXCEPT ![f] = l]
  BY DEF Set
<1>0. Inv /\ HerdTypes /\ Refilled /\ Renewed
  BY DEF FullInv, Inv
<1>1. /\ limItems' = limItems \cup {f} /\ limArg' = [limArg EXCEPT ![c] = f]
      /\ limQueue' = limQueue /\ pc' = [pc EXCEPT ![c] = "Add"]
  BY DEF Set, Limiters!Set, Limiters!Call, Goto
<1>2. ASSUME NEW i \in 1 .. Len(limQueue), limQueue[i].key \in limItems'
      PROVE  units'[limiter'[limQueue[i].key]] + limQueue[i].left >= Capacity
  <2> DEFINE g == limQueue[i].key
  <2>0. g \in Fingerprints /\ limQueue[i].left \in Nat /\ Capacity \in Nat
    BY <1>0, QueueFacts
  <2>1. CASE g = f
    <3>1. units'[limiter'[g]] = Capacity
      BY <1>0, <2>0, <2>1 DEF HerdTypes
    <3> QED
      BY <2>0, <3>1
  <2>2. CASE g # f
    <3>1. g \in limItems /\ limiter[g] # l
      BY <1>1, <1>2, <2>2 DEF InUse
    <3>2. units'[limiter'[g]] = units[limiter[g]]
      BY <1>0, <2>0, <2>2, <3>1 DEF HerdTypes
    <3> QED
      BY <1>0, <3>1, <3>2 DEF Refilled
  <2> QED
    BY <2>1, <2>2
<1>3. Renewed'
  BY <1>0, <1>1, QueueFacts DEF Renewed, HerdTypes
<1> QED
  BY <1>1, <1>2, <1>3 DEF Refilled

LEMMA FullAllowStep ==
    ASSUME FullInv, NEW c \in Callers, Grant(c) \/ Deny(c)
    PROVE  Refilled' /\ Renewed'
<1> DEFINE f == limArg[c]
           l == held[c]
<1>0. /\ Inv /\ HerdTypes /\ Covered /\ Refilled /\ Renewed /\ pc[c] = "Allow"
      /\ f \in Fingerprints
  BY QueueFacts DEF FullInv, Inv, Grant, Deny
<1>1. l \in LimiterIds /\ Serves(l, f)
  BY <1>0 DEF HerdTypes, Serves
<1>2. PICK left \in Nat : units' = [units EXCEPT ![l] = left]
  <2>1. CASE Grant(c)
    <3>1. units[l] - Cost \in Nat
      BY <1>0, <1>1, <2>1, QueueFacts, Bounds DEF Grant
    <3> QED
      BY <2>1, <3>1 DEF Grant, Allow
  <2>2. CASE Deny(c)
    BY <2>2 DEF Deny, Allow
  <2> QED
    BY <2>1, <2>2
<1>3. /\ UNCHANGED <<limItems, limArg, limiter, limQueue>> /\ pc' = [pc EXCEPT ![c] = "idle"]
  BY DEF Grant, Deny, Allow, limVars, Goto
<1>4. ASSUME NEW i \in 1 .. Len(limQueue), limQueue[i].key \in limItems
      PROVE  units'[limiter[limQueue[i].key]] + limQueue[i].left >= Capacity
  <2> DEFINE g == limQueue[i].key
  <2>1. g \in Fingerprints /\ limiter[g] \in LimiterIds /\ Serves(limiter[g], g)
    BY <1>0, <1>4, QueueFacts DEF Serves
  <2>2. CASE limiter[g] = l
    <3>1. g = f
      BY <1>0, <1>1, <2>1, <2>2 DEF Covered
    <3>2. limQueue[i].left = Capacity
      BY <1>0, <3>1, QueueFacts DEF Renewed
    <3>3. units'[limiter[g]] = left
      BY <1>0, <1>1, <1>2, <2>2 DEF HerdTypes
    <3> QED
      BY <1>0, <1>2, <3>2, <3>3, QueueFacts
  <2>3. CASE limiter[g] # l
    <3>1. units'[limiter[g]] = units[limiter[g]]
      BY <1>0, <1>2, <2>1, <2>3 DEF HerdTypes
    <3> QED
      BY <1>0, <1>4, <3>1 DEF Refilled
  <2> QED
    BY <2>2, <2>3
<1>5. Renewed'
  BY <1>0, <1>3 DEF Renewed, HerdTypes
<1> QED
  BY <1>3, <1>4, <1>5 DEF Refilled

LEMMA FullPurgeStep ==
    ASSUME FullInv, PurgeLimiters
    PROVE  Refilled' /\ Renewed'
<1>0. Inv /\ Refilled /\ Renewed /\ Limiters!TypeOK
  BY DEF FullInv, Inv
<1>1. /\ limItems' \subseteq limItems /\ UNCHANGED <<limArg, units, pc>>
      /\ limiter' = [f \in Fingerprints |-> IF f \in limItems' THEN limiter[f] ELSE None]
      /\ limQueue' = limQueue \/ Limiters!Purge
  BY DEF PurgeLimiters, Limiters!Purger, Limiters!Receive, Limiters!Purge,
     Limiters!DeleteExpired, history
<1>2. ASSUME NEW i \in 1 .. Len(limQueue')
      PROVE  \E j \in 1 .. Len(limQueue) : limQueue'[i] = limQueue[j]
  <2>1. CASE limQueue' = limQueue
    BY <2>1
  <2>2. CASE Limiters!Purge
    BY <1>0, <2>2, SameLimiters, LimMap!PurgedEntries, MapAssumptions
  <2> QED
    BY <1>1, <2>1, <2>2
<1>3. \A f \in limItems' : limiter'[f] = limiter[f]
  BY <1>0, <1>1, QueueFacts
<1>4. ASSUME NEW i \in 1 .. Len(limQueue'), limQueue'[i].key \in limItems'
      PROVE  units'[limiter'[limQueue'[i].key]] + limQueue'[i].left >= Capacity
  <2>1. PICK j \in 1 .. Len(limQueue) : limQueue'[i] = limQueue[j]
    BY <1>2
  <2>2. units[limiter[limQueue[j].key]] + limQueue[j].left >= Capacity
    BY <1>0, <1>1, <1>4, <2>1 DEF Refilled
  <2>3. limiter'[limQueue'[i].key] = limiter[limQueue[j].key]
    BY <1>3, <1>4, <2>1
  <2> QED
    BY <1>1, <2>1, <2>2, <2>3
<1>5. Refilled'
  BY <1>4 DEF Refilled
<1>6. Renewed'
  BY <1>0, <1>1, <1>2 DEF Renewed
<1> QED
  BY <1>5, <1>6

LEMMA FullTickStep ==
    ASSUME FullInv, Tick
    PROVE  Refilled' /\ Renewed'
<1>0. Inv /\ Refilled /\ Limiters!TypeOK
  BY DEF FullInv, Inv
<1>1. UNCHANGED <<limItems, limiter, pc>> /\ \A c \in Callers : pc[c] = "idle"
  BY DEF Tick, Limiters!Tick
<1>2. /\ Len(limQueue') = Len(limQueue)
      /\ \A i \in 1 .. Len(limQueue) :
            /\ limQueue'[i].key = limQueue[i].key
            /\ limQueue'[i].left = IF limQueue[i].left = 0 THEN 0 ELSE limQueue[i].left - 1
  <2>1. LimMap!TypeOK /\ LimMap!Tick
    BY <1>0, SameLimiters DEF Tick
  <2> QED
    BY <2>1, LimMap!TickedEntries, MapAssumptions
<1>3. ASSUME NEW i \in 1 .. Len(limQueue), limQueue[i].key \in limItems
      PROVE  units'[limiter[limQueue[i].key]] + limQueue'[i].left >= Capacity
  <2> DEFINE l == limiter[limQueue[i].key]
  <2>1. l \in InUse /\ l \in LimiterIds
    BY <1>0, <1>3, QueueFacts DEF InUse
  <2>2. units'[l] = Least(Capacity, units[l] + 1)
    BY <2>1 DEF Tick
  <2>3. units[l] + limQueue[i].left >= Capacity
    BY <1>0, <1>3 DEF Refilled
  <2>4. units[l] \in Nat /\ limQueue[i].left \in Nat /\ Capacity \in Nat
    BY <1>0, <2>1, QueueFacts, Bounds
  <2> QED
    BY <1>2, <2>2, <2>3, <2>4 DEF Least
<1>4. ASSUME NEW i \in 1 .. Len(limQueue'), limQueue'[i].key \in limItems'
      PROVE  units'[limiter'[limQueue'[i].key]] + limQueue'[i].left >= Capacity
  <2>1. i \in 1 .. Len(limQueue) /\ limQueue'[i].key = limQueue[i].key
        /\ limQueue[i].key \in limItems
    BY <1>1, <1>2, <1>4
  <2>2. limiter'[limQueue'[i].key] = limiter[limQueue[i].key]
    BY <1>1, <2>1
  <2> QED
    BY <1>3, <2>1, <2>2
<1>5. Refilled'
  BY <1>4 DEF Refilled
<1>6. Renewed'
  BY <1>1 DEF Renewed
<1> QED
  BY <1>5, <1>6

LEMMA FullStep ==
    ASSUME FullInv, [Next]_vars
    PROVE  FullInv'
<1>1. Inv'
  BY InvStep DEF FullInv
<1>2. LimMap!QueueKeysUnique'
  <2>1. LimMap!TypeOK /\ LimMap!QueueKeysUnique /\ limArg \in [Callers -> Fingerprints]
    BY QueueFacts, SameLimiters DEF FullInv, Inv
  <2>2. [LimMap!Next]_(LimMap!vars)
    BY <2>1, LimitersStep, SameLimiters
  <2> QED
    BY <2>1, <2>2, LimMap!UniqueStep, MapAssumptions
<1>3. ASSUME UNCHANGED <<limItems, limQueue, limiter, units, limArg>>,
             \A c \in Callers : pc'[c] = "Allow" => pc[c] = "Allow"
      PROVE  Refilled' /\ Renewed'
  BY <1>3 DEF FullInv, Refilled, Renewed
<1>4. ASSUME NEW c \in Callers, NEW f \in Fingerprints, CoolDown(c, f) \/ IsCoolDown(c, f)
      PROVE  Refilled' /\ Renewed'
  BY <1>3, <1>4 DEF CoolDown, IsCoolDown, limVars, herdVars
<1>5. ASSUME NEW c \in Callers, EndCoolDown(c)
      PROVE  Refilled' /\ Renewed'
  BY <1>3, <1>5 DEF EndCoolDown, limVars, herdVars
<1>6. ASSUME NEW c \in Callers, NEW f \in Fingerprints, Get(c, f)
      PROVE  Refilled' /\ Renewed'
  <2>1. UNCHANGED <<limItems, limQueue, limiter, units>>
    BY <1>6 DEF Get, Limiters!Get
  <2>2. limArg' = [limArg EXCEPT ![c] = f] /\ pc' = [pc EXCEPT ![c] = "Renew"]
    BY <1>6 DEF Get, Limiters!Get, Limiters!Call, Goto
  <2>3. limArg \in [Callers -> Fingerprints] /\ HerdTypes
    BY QueueFacts DEF FullInv, Inv
  <2> QED
    BY <2>1, <2>2, <2>3 DEF FullInv, Refilled, Renewed, HerdTypes
<1>7. ASSUME PurgeCooldowns
      PROVE  Refilled' /\ Renewed'
  BY <1>3, <1>7 DEF PurgeCooldowns, limVars, herdVars
<1>8. ASSUME UNCHANGED vars
      PROVE  Refilled' /\ Renewed'
  BY <1>3, <1>8 DEF vars, limVars, herdVars
<1> QED
  BY <1>1, <1>2, <1>4, <1>5, <1>6, <1>7, <1>8, FullRenewStep, FullSetStep, FullAllowStep,
     FullPurgeStep, FullTickStep
     DEF Next, FullInv

LEMMA FullInit == Init => FullInv
<1>1. Init => limQueue = << >> /\ \A c \in Callers : pc[c] = "idle"
  BY DEF Init, Limiters!Init
<1> QED
  BY <1>1, InvInit DEF FullInv, LimMap!QueueKeysUnique, Refilled, Renewed

\* The map lets a limiter expire only once its bucket is full, so that a fingerprint that
\* comes back to a new limiter has gained nothing: the period given to the map is long
\* enough for any burst and interval.
THEOREM EvictionsLoseNothing == Spec => EvictionLosesNothing
<1>1. Init => FullInv
  BY FullInit
<1>2. FullInv /\ [Next]_vars => FullInv'
  BY FullStep
<1>3. ASSUME FullInv
      PROVE  Limiters!Purge => \A f \in limExpired' \cap limItems : units[limiter[f]] = Capacity
  <2> SUFFICES ASSUME Limiters!Purge, NEW f \in limExpired' \cap limItems
               PROVE  units[limiter[f]] = Capacity
    OBVIOUS
  <2>1. PICK j \in 1 .. Len(limQueue) : limQueue[j].key = f /\ limQueue[j].left = 0
    <3>1. LimMap!TypeOK /\ LimMap!Purge
      BY <1>3, SameLimiters DEF FullInv, Inv
    <3> QED
      BY <3>1, LimMap!PurgedEntries, MapAssumptions
  <2>2. units[limiter[f]] \in 0 .. Capacity /\ Capacity \in Nat
    BY <1>3, QueueFacts DEF FullInv
  <2>3. units[limiter[f]] + 0 >= Capacity
    BY <1>3, <2>1 DEF FullInv, Refilled
  <2> QED
    BY <2>2, <2>3
<1> QED
  BY <1>1, <1>2, <1>3, PTL DEF Spec, EvictionLosesNothing

-----------------------------------------------------------------------------
\* What may still be granted to f at this moment: the units, counted one by one, in
\* the limiters that serve it.
Left(f) ==
    {u \in LimiterIds \X (1 .. Capacity) : Serves(u[1], f) /\ u[2] <= units[u[1]]}

\* Callers that have found no limiter for f, and are to create one.
Creating(f) ==
    {c \in Callers : limArg[c] = f /\ (pc[c] = "Set" \/ (pc[c] = "Renew" /\ held[c] = None))}

Granted(f) == grants[f] * Cost + Cardinality(Left(f))

Unqueued(f) == \A i \in 1 .. Len(limQueue) : limQueue[i].key # f

Fresh(f) ==
    \A i \in 1 .. Len(limQueue) :
        limQueue[i].key = f => limQueue[i].left = FullBucketPeriod

\* Until a caller creates a limiter, one bucket is all there is at one moment, ...
FirstBurst(f) ==
    /\ \A c \in Callers : limArg[c] = f => pc[c] # "Add"
    /\ f \in limItems => Creating(f) = {}
    /\ f \notin limItems => f \notin limExpired /\ Unqueued(f)
    /\ Granted(f) <= Capacity

\* ... and from then on one more for each caller that has created one or is to, since
\* the map does not lose the limiter again before time passes.
MoreBursts(f) ==
    /\ f \in limItems
    /\ f \notin limExpired
    /\ Fresh(f)
    /\ Granted(f) + Capacity * Cardinality(Creating(f)) <= Capacity * (Cardinality(Callers) + 1)

Burst(f) ==
    /\ f \in limExpired => Unqueued(f)
    /\ FirstBurst(f) \/ MoreBursts(f)

BurstInv ==
    /\ FullInv
    /\ grants \in [Fingerprints -> Nat]
    /\ \A f \in Fingerprints : Burst(f)

LEMMA Multiples ==
    ASSUME NEW k \in Nat, NEW a \in Nat, NEW b \in Nat
    PROVE  /\ k * a \in Nat /\ k * (a + 1) = k * a + k
           /\ a <= b => k * a <= k * b
           /\ k # 0 /\ a * k <= b * k => a <= b
<1>1. k * a \in Nat /\ k * b \in Nat /\ k * (a + 1) = k * a + k /\ a * k = k * a /\ b * k = k * b
  OBVIOUS
<1>2. ASSUME NEW m \in Nat, NEW n \in Nat, m <= n
      PROVE  k * m <= k * n
  <2>1. n - m \in Nat /\ k * (n - m) \in Nat
    BY <1>2
  <2>2. k * n = k * m + k * (n - m)
    OBVIOUS
  <2> QED
    BY <2>1, <2>2
<1>3. ASSUME k # 0, k * a <= k * b, b + 1 <= a
      PROVE  FALSE
  <2>1. k * (b + 1) <= k * a
    BY <1>2, <1>3
  <2>2. k * (b + 1) = k * b + k
    OBVIOUS
  <2> QED
    BY <1>1, <1>3, <2>1, <2>2
<1> QED
  BY <1>1, <1>2, <1>3

\* Pools of units and groups of callers are finite.
LEMMA Finite ==
    /\ \A S \in SUBSET (LimiterIds \X (1 .. Capacity)) : IsFiniteSet(S) /\ Cardinality(S) \in Nat
    /\ \A S \in SUBSET Callers : IsFiniteSet(S) /\ Cardinality(S) \in Nat
    /\ \A l \in LimiterIds, a, b \in Nat :
          a <= b => Cardinality({l} \X (a + 1 .. b)) = b - a
<1>1. IsFiniteSet(LimiterIds) /\ IsFiniteSet(1 .. Capacity)
  <2>1. Cardinality(Fingerprints) \in Nat /\ Cardinality(Callers) \in Nat
    BY DetectorAssumption, FS_CardinalityType
  <2>2. \A n \in Nat : IsFiniteSet(1 .. n)
    <3>1. 1 \in Int /\ \A n \in Nat : n \in Int
      OBVIOUS
    <3> QED
      BY <3>1, FS_Interval
  <2>3. Cardinality(Fingerprints) + Cardinality(Callers) \in Nat /\ Capacity \in Nat
    BY <2>1, Bounds
  <2> QED
    BY <2>2, <2>3 DEF LimiterIds
<1>2. IsFiniteSet(LimiterIds \X (1 .. Capacity))
  BY <1>1, FS_Product
<1>3. ASSUME NEW l \in LimiterIds, NEW a \in Nat, NEW b \in Nat, a <= b
      PROVE  Cardinality({l} \X (a + 1 .. b)) = b - a
  <2>1. IsFiniteSet({l}) /\ Cardinality({l}) = 1
    BY FS_Singleton
  <2>2. IsFiniteSet(a + 1 .. b) /\ Cardinality(a + 1 .. b) = b - a
    <3>1. a + 1 \in Int /\ b \in Int
      OBVIOUS
    <3>2. /\ IsFiniteSet(a + 1 .. b)
          /\ Cardinality(a + 1 .. b) = IF a + 1 > b THEN 0 ELSE b - (a + 1) + 1
      BY <3>1, FS_Interval
    <3> QED
      BY <1>3, <3>2
  <2>3. Cardinality({l} \X (a + 1 .. b)) = Cardinality({l}) * Cardinality(a + 1 .. b)
    BY <2>1, <2>2, FS_Product
  <2>4. 1 * (b - a) = b - a
    OBVIOUS
  <2> QED
    BY <2>1, <2>2, <2>3, <2>4
<1> QED
  BY <1>2, <1>3, DetectorAssumption, FS_Subset, FS_CardinalityType

LEMMA GrantedType ==
    ASSUME grants \in [Fingerprints -> Nat], NEW f \in Fingerprints
    PROVE  /\ grants[f] * Cost \in Nat /\ Cardinality(Left(f)) \in Nat /\ Granted(f) \in Nat
           /\ Left(f) \in SUBSET (LimiterIds \X (1 .. Capacity)) /\ IsFiniteSet(Left(f))
<1>1. grants[f] \in Nat /\ Cost \in Nat
  BY Bounds
<1>2. grants[f] * Cost \in Nat
  BY <1>1
<1>3. Left(f) \in SUBSET (LimiterIds \X (1 .. Capacity))
  BY DEF Left
<1> QED
  BY <1>2, <1>3, Finite DEF Granted

\* A step that grants nothing to f and adds nothing to what is left for it.
LEMMA NothingAdded ==
    ASSUME grants \in [Fingerprints -> Nat], NEW f \in Fingerprints,
           grants'[f] = grants[f],
           \A l \in LimiterIds : Serves(l, f)' => Serves(l, f) /\ units'[l] <= units[l],
           units \in [LimiterIds -> 0 .. Capacity], units' \in [LimiterIds -> 0 .. Capacity]
    PROVE  Granted(f)' <= Granted(f) /\ Granted(f)' \in Nat
<1>1. Left(f)' \in SUBSET Left(f)
  <2> SUFFICES ASSUME NEW u \in LimiterIds \X (1 .. Capacity),
                      Serves(u[1], f)', u[2] <= units'[u[1]]
               PROVE  u \in Left(f)
    BY DEF Left
  <2>1. u[1] \in LimiterIds /\ u[2] \in Nat
    OBVIOUS
  <2>2. Serves(u[1], f) /\ units'[u[1]] <= units[u[1]]
    BY <2>1
  <2>3. units[u[1]] \in Nat /\ units'[u[1]] \in Nat
    BY <2>1, Bounds
  <2> QED
    BY <2>1, <2>2, <2>3 DEF Left
<1>2. Cardinality(Left(f)') <= Cardinality(Left(f)) /\ Cardinality(Left(f)') \in Nat
  BY <1>1, GrantedType, FS_Subset, FS_CardinalityType
<1> QED
  BY <1>2, GrantedType DEF Granted

\* What f has been granted and may be granted decides its phase, together with where its
\* callers are and what the map is about to delete.
LEMMA SamePhase ==
    ASSUME grants \in [Fingerprints -> Nat], NEW f \in Fingerprints, Burst(f),
           Granted(f)' <= Granted(f), Granted(f)' \in Nat,
           f \in limItems' <=> f \in limItems,
           f \in limExpired' => f \in limExpired,
           f \in limItems => Creating(f)' \subseteq Creating(f),
           \A c \in Callers : limArg'[c] = f /\ pc'[c] = "Add" => limArg[c] = f /\ pc[c] = "Add",
           Unqueued(f) /\ (f \in limExpired \/ f \notin limItems) => Unqueued(f)',
           Fresh(f) => Fresh(f)'
    PROVE  Burst(f)'
<1>0. Granted(f) \in Nat
  BY GrantedType
<1>1. ASSUME FirstBurst(f)
      PROVE  FirstBurst(f)'
  BY <1>0, <1>1, Bounds DEF FirstBurst
<1>2. ASSUME MoreBursts(f)
      PROVE  MoreBursts(f)'
  <2>1. Creating(f)' \in SUBSET Creating(f) /\ Creating(f) \in SUBSET Callers
    BY <1>2 DEF MoreBursts, Creating
  <2> DEFINE n == Cardinality(Creating(f))
             m == Cardinality(Creating(f)')
             N == Cardinality(Callers)
  <2>2. n \in Nat /\ m \in Nat /\ m <= n /\ N \in Nat
    BY <2>1, Finite, FS_Subset, FS_CardinalityType
  <2>3. Capacity * m <= Capacity * n /\ Capacity * m \in Nat /\ Capacity * n \in Nat
        /\ Capacity * (N + 1) \in Nat
    BY <2>2, Multiples, Bounds
  <2>4. Granted(f) + Capacity * n <= Capacity * (N + 1)
    BY <1>2 DEF MoreBursts
  <2>5. Granted(f)' + Capacity * m <= Capacity * (N + 1)
    <3> HIDE DEF n, m, N
    <3> QED
      BY <1>0, <2>3, <2>4
  <2> QED
    BY <1>2, <2>5 DEF MoreBursts
<1> QED
  BY <1>1, <1>2 DEF Burst

LEMMA BurstGetStep ==
    ASSUME BurstInv, NEW c \in Callers, NEW g \in Fingerprints, Get(c, g),
           NEW f \in Fingerprints
    PROVE  Burst(f)'
<1>0. Inv /\ HerdTypes /\ grants \in [Fingerprints -> Nat] /\ Burst(f)
      /\ limArg \in [Callers -> Fingerprints]
  BY DEF BurstInv, FullInv, Inv, Limiters!TypeOK
<1>1. /\ UNCHANGED <<limItems, limQueue, limExpired, limiter, units, grants>>
      /\ limArg' = [limArg EXCEPT ![c] = g] /\ pc' = [pc EXCEPT ![c] = "Renew"]
      /\ held' = [held EXCEPT ![c] = IF g \in limItems THEN limiter[g] ELSE None]
  BY DEF Get, Limiters!Get, Limiters!Call, Goto, history
<1>2. \A l \in LimiterIds : Serves(l, f)' => Serves(l, f)
  BY <1>0, GetServes
<1>3. Granted(f)' <= Granted(f) /\ Granted(f)' \in Nat
  <2>1. units \in [LimiterIds -> 0 .. Capacity] /\ \A l \in LimiterIds : units'[l] <= units[l]
    BY <1>0, <1>1, QueueFacts DEF HerdTypes
  <2> QED
    BY <1>0, <1>1, <1>2, <2>1, NothingAdded
<1>4. ASSUME f \in limItems, NEW d \in Creating(f)'
      PROVE  d \in Creating(f)
  <2>1. d \in Callers /\ limArg'[d] = f
        /\ (pc'[d] = "Set" \/ (pc'[d] = "Renew" /\ held'[d] = None))
    BY <1>4 DEF Creating
  <2>2. d # c
    BY <1>0, <1>1, <1>4, <2>1 DEF HerdTypes
  <2> QED
    BY <1>0, <1>1, <2>1, <2>2 DEF HerdTypes, Creating
<1>5. \A d \in Callers : limArg'[d] = f /\ pc'[d] = "Add" => limArg[d] = f /\ pc[d] = "Add"
  BY <1>0, <1>1 DEF HerdTypes
<1>6. UNCHANGED <<Unqueued(f), Fresh(f)>>
  BY <1>1 DEF Unqueued, Fresh
<1> QED
  BY <1>0, <1>1, <1>3, <1>4, <1>5, <1>6, SamePhase

\* A caller that queues the key of its new limiter finds it in the map still, and not
\* about to be deleted.
LEMMA BurstMoveStep ==
    ASSUME BurstInv, NEW c \in Callers, Renew(c) \/ Add(c), NEW f \in Fingerprints
    PROVE  Burst(f)'
<1>0. Inv /\ HerdTypes /\ grants \in [Fingerprints -> Nat] /\ Burst(f)
      /\ limArg \in [Callers -> Fingerprints]
      /\ LimMap!TypeOK /\ LimMap!QueueKeysUnique
  BY SameLimiters DEF BurstInv, FullInv, Inv, Limiters!TypeOK
<1>1. /\ UNCHANGED <<limItems, limExpired, limArg, limiter, units, held, grants>>
      /\ pc[c] \in {"Renew", "Add"}
      /\ pc' = [pc EXCEPT ![c] = IF pc[c] = "Renew" /\ held[c] = None THEN "Set" ELSE "Allow"]
  BY DEF Renew, Add, Limiters!Renew, Limiters!Add, Goto, history
<1>2. Granted(f)' = Granted(f) /\ Granted(f) \in Nat
  BY <1>0, <1>1, GrantedType DEF Granted, Left, Serves
<1>3. Creating(f)' \subseteq Creating(f)
  BY <1>0, <1>1 DEF HerdTypes, Creating
<1>4. \A d \in Callers : limArg'[d] = f /\ pc'[d] = "Add" => limArg[d] = f /\ pc[d] = "Add"
  BY <1>0, <1>1 DEF HerdTypes
<1>5. ASSUME NEW i \in 1 .. Len(limQueue')
      PROVE  \/ limQueue'[i] = [key |-> limArg[c], left |-> FullBucketPeriod]
             \/ /\ limQueue'[i].key # limArg[c]
                /\ \E j \in 1 .. Len(limQueue) : limQueue'[i] = limQueue[j]
  <2>1. LimMap!Add(c) \/ LimMap!Renew(c)
    BY SameLimiters DEF Renew, Add
  <2>2. LimMap!Entry(limArg[c]) = [key |-> limArg[c], left |-> FullBucketPeriod]
    BY <1>0, SameLimiters
  <2> QED
    BY <1>0, <2>1, <2>2, LimMap!NewestEntry, MapAssumptions
<1>6. Fresh(f) => Fresh(f)'
  BY <1>5 DEF Fresh
<1>7. ASSUME Unqueued(f), f \in limExpired \/ f \notin limItems
      PROVE  Unqueued(f)'
  <2>1. CASE limArg[c] # f
    BY <1>5, <1>7, <2>1 DEF Unqueued
  <2>2. CASE limArg[c] = f /\ Renew(c)
    <3>1. LimMap!Renew(c)
      BY <2>2, SameLimiters DEF Renew
    <3> QED
      BY <1>0, <1>7, <3>1, LimMap!RenewedKeys, MapAssumptions DEF Unqueued
  <2>3. CASE limArg[c] = f /\ Add(c)
    BY <1>0, <1>7, <2>3 DEF Burst, FirstBurst, MoreBursts, Add
  <2> QED
    BY <2>1, <2>2, <2>3
<1> QED
  BY <1>0, <1>1, <1>2, <1>3, <1>4, <1>6, <1>7, SamePhase

\* A new limiter brings a full bucket, and one caller fewer is to create one.
LEMMA BurstSetStep ==
    ASSUME BurstInv, NEW c \in Callers, Set(c), NEW f \in Fingerprints
    PROVE  Burst(f)'
<1>0. Inv /\ HerdTypes /\ grants \in [Fingerprints -> Nat] /\ Burst(f)
      /\ limArg \in [Callers -> Fingerprints] /\ pc[c] = "Set"
  BY DEF BurstInv, FullInv, Inv, Limiters!TypeOK, Set
<1> PICK l \in LimiterIds :
           /\ units' = [units EXCEPT ![l] = Capacity]
           /\ held' = [held EXCEPT ![c] = l]
           /\ \A g \in Fingerprints : ~Serves(l, g)
           /\ \A m \in LimiterIds, g \in Fingerprints :
                  Serves(m, g)' => Serves(m, g) \/ (m = l /\ g = limArg[c])
  BY <1>0, NewLimiter
<1>1. /\ UNCHANGED <<limQueue, limExpired, grants>> /\ limItems' = limItems \cup {limArg[c]}
      /\ limArg' = limArg /\ pc' = [pc EXCEPT ![c] = "Add"] /\ l # None
  BY <1>0, Bounds DEF Set, Limiters!Set, Limiters!Call, Goto, history
<1>2. UNCHANGED <<Unqueued(f), Fresh(f)>>
  BY <1>1 DEF Unqueued, Fresh
<1>3. Creating(f)' = Creating(f) \ {c}
  BY <1>0, <1>1 DEF HerdTypes, Creating
<1>4. CASE f # limArg[c]
  <2>1. \A m \in LimiterIds : Serves(m, f)' => Serves(m, f) /\ units'[m] = units[m]
    BY <1>0, <1>4 DEF HerdTypes
  <2>2. units \in [LimiterIds -> 0 .. Capacity] /\ units' \in [LimiterIds -> 0 .. Capacity]
        /\ \A m \in LimiterIds : units[m] <= units[m]
    BY <1>0, QueueFacts, Bounds DEF HerdTypes
  <2>3. Granted(f)' <= Granted(f) /\ Granted(f)' \in Nat
    BY <1>0, <1>1, <2>1, <2>2, NothingAdded
  <2>4. \A d \in Callers : limArg'[d] = f /\ pc'[d] = "Add" => limArg[d] = f /\ pc[d] = "Add"
    BY <1>0, <1>1, <1>4 DEF HerdTypes
  <2> QED
    BY <1>0, <1>1, <1>2, <1>3, <1>4, <2>3, <2>4, SamePhase
<1>5. CASE f = limArg[c]
  <2> DEFINE n == Cardinality(Creating(f))
             m == Cardinality(Creating(f)')
             N == Cardinality(Callers)
  <2>1. Granted(f)' <= Granted(f) + Capacity /\ Granted(f)' \in Nat /\ Granted(f) \in Nat
    <3> DEFINE New == {l} \X (0 + 1 .. Capacity)
    <3>1. New \in SUBSET (LimiterIds \X (1 .. Capacity)) /\ Cardinality(New) = Capacity
      <4>1. Capacity \in Nat /\ 0 \in Nat /\ 0 <= Capacity /\ Capacity - 0 = Capacity
        BY Bounds
      <4>2. New \in SUBSET (LimiterIds \X (1 .. Capacity))
        OBVIOUS
      <4> QED
        BY <4>1, <4>2, Finite
    <3>2. Left(f)' \in SUBSET (Left(f) \cup New)
      <4> SUFFICES ASSUME NEW u \in LimiterIds \X (1 .. Capacity), u[1] # l,
                          Serves(u[1], f)', u[2] <= units'[u[1]]
                   PROVE  u \in Left(f)
        BY DEF Left
      <4>1. u[1] \in LimiterIds /\ Serves(u[1], f) /\ units'[u[1]] = units[u[1]]
        BY <1>0 DEF HerdTypes
      <4> QED
        BY <4>1 DEF Left
    <3>3. IsFiniteSet(Left(f)) /\ IsFiniteSet(New)
      BY <1>0, <3>1, Finite, GrantedType
    <3>4. Cardinality(Left(f) \cup New) =
              Cardinality(Left(f)) + Capacity - Cardinality(Left(f) \cap New)
          /\ IsFiniteSet(Left(f) \cup New) /\ Cardinality(Left(f) \cap New) \in Nat
      <4>1. IsFiniteSet(Left(f) \cap New)
        BY <3>3, FS_Intersection
      <4> QED
        BY <3>1, <3>3, <4>1, FS_Union, FS_CardinalityType
    <3>5. Cardinality(Left(f)') <= Cardinality(Left(f) \cup New) /\ Cardinality(Left(f)') \in Nat
          /\ Cardinality(Left(f) \cup New) \in Nat
      BY <3>2, <3>4, FS_Subset, FS_CardinalityType
    <3> QED
      BY <1>0, <1>1, <3>4, <3>5, GrantedType, Bounds DEF Granted
  <2>2. m = n - 1 /\ n \in Nat /\ N \in Nat /\ n <= N /\ m \in Nat
    <3>1. c \in Creating(f) /\ Creating(f) \in SUBSET Callers
      BY <1>0, <1>5 DEF Creating
    <3> QED
      BY <1>3, <3>1, Finite, DetectorAssumption, FS_RemoveElement, FS_Subset
  <2>3. f \notin limExpired /\ Fresh(f)
        /\ Granted(f)' + Capacity * m <= Capacity * (N + 1)
    <3>1. /\ Capacity * n = Capacity * m + Capacity
          /\ Capacity * (N + 1) = Capacity * N + Capacity
          /\ Capacity * n <= Capacity * N
          /\ Capacity * n \in Nat /\ Capacity * m \in Nat /\ Capacity * N \in Nat
      <4> HIDE DEF n, m, N
      <4>1. n = m + 1
        BY <2>2
      <4> QED
        BY <2>2, <4>1, Multiples, Bounds
    <3>2. CASE FirstBurst(f)
      <4>1. f \notin limItems
        BY <1>0, <1>5, <3>2 DEF FirstBurst, Creating
      <4>2. f \notin limExpired /\ Fresh(f) /\ Granted(f) <= Capacity
        BY <3>2, <4>1 DEF FirstBurst, Unqueued, Fresh
      <4> HIDE DEF n, m, N
      <4> QED
        BY <2>1, <3>1, <4>2, Bounds
    <3>3. CASE MoreBursts(f)
      <4>1. Granted(f) + Capacity * n <= Capacity * (N + 1) /\ f \notin limExpired /\ Fresh(f)
        BY <3>3 DEF MoreBursts
      <4> HIDE DEF n, m, N
      <4> QED
        BY <2>1, <3>1, <4>1, Bounds
    <3> QED
      BY <1>0, <3>2, <3>3 DEF Burst
  <2> QED
    BY <1>1, <1>2, <1>5, <2>3 DEF Burst, MoreBursts
<1> QED
  BY <1>4, <1>5

\* A grant takes its cost from what is left, a denial takes all of it.
LEMMA BurstAllowStep ==
    ASSUME BurstInv, NEW c \in Callers, Grant(c) \/ Deny(c), NEW f \in Fingerprints
    PROVE  Burst(f)'
<1> DEFINE l == held[c]
<1>0. Inv /\ HerdTypes /\ Covered /\ grants \in [Fingerprints -> Nat] /\ Burst(f)
      /\ limArg \in [Callers -> Fingerprints] /\ pc[c] = "Allow"
  BY DEF BurstInv, FullInv, Inv, Limiters!TypeOK, Grant, Deny
<1>1. /\ UNCHANGED <<limItems, limQueue, limExpired, limArg, limiter>>
      /\ held' = [held EXCEPT ![c] = None] /\ pc' = [pc EXCEPT ![c] = "idle"]
  BY DEF Grant, Deny, Allow, limVars, Goto
<1>2. l \in LimiterIds /\ Serves(l, limArg[c]) /\ units[l] \in 0 .. Capacity
  BY <1>0 DEF HerdTypes, Serves
<1>3. \A m \in LimiterIds : Serves(m, f)' => Serves(m, f)
  BY <1>0, AllowServes
<1>4. Creating(f)' \subseteq Creating(f)
  BY <1>0, <1>1 DEF HerdTypes, Creating
<1>5. /\ UNCHANGED <<Unqueued(f), Fresh(f)>>
      /\ \A d \in Callers : limArg'[d] = f /\ pc'[d] = "Add" => limArg[d] = f /\ pc[d] = "Add"
  BY <1>0, <1>1 DEF Unqueued, Fresh, HerdTypes
<1>6. units' \in [LimiterIds -> 0 .. Capacity]
  <2>1. HerdTypes'
    BY <1>0, AllowStep
  <2> QED
    BY <2>1 DEF HerdTypes
<1>7. Granted(f)' <= Granted(f) /\ Granted(f)' \in Nat
  <2>1. CASE grants'[f] = grants[f] /\ \A m \in LimiterIds : Serves(m, f) => units'[m] <= units[m]
    BY <1>0, <1>3, <1>6, <2>1, NothingAdded DEF HerdTypes
  <2>2. CASE Deny(c)
    <3>1. grants'[f] = grants[f] /\ units' = [units EXCEPT ![l] = 0]
      BY <2>2 DEF Deny, Allow
    <3>2. \A m \in LimiterIds : units'[m] <= units[m]
      BY <1>0, <1>2, <3>1, QueueFacts DEF HerdTypes
    <3> QED
      BY <2>1, <3>1, <3>2
  <2>3. CASE Grant(c) /\ f # limArg[c]
    <3>1. grants'[f] = grants[f] /\ units' = [units EXCEPT ![l] = units[l] - Cost]
      BY <2>3 DEF Grant, Allow
    <3>2. \A m \in LimiterIds : Serves(m, f) => m # l
      BY <1>0, <1>2, <2>3 DEF Covered
    <3>3. \A m \in LimiterIds : Serves(m, f) => units'[m] <= units[m]
      BY <1>0, <3>1, <3>2, QueueFacts DEF HerdTypes
    <3> QED
      BY <2>1, <3>1, <3>3
  <2>4. CASE Grant(c) /\ f = limArg[c]
    <3> DEFINE a == units[l] - Cost
               Taken == {l} \X (a + 1 .. units[l])
    <3>1. /\ grants'[f] = grants[f] + 1 /\ units' = [units EXCEPT ![l] = a]
          /\ units[l] \in Nat /\ units[l] <= Capacity /\ Cost \in Nat /\ a \in Nat
          /\ a <= units[l] /\ units[l] - a = Cost /\ Capacity \in Nat
      BY <1>0, <1>2, <2>4, Bounds DEF Grant, Allow
    <3>2. Cardinality(Taken) = Cost
      BY <1>2, <3>1, Finite
    <3>3. Taken \subseteq Left(f)
      <4> SUFFICES ASSUME NEW i \in a + 1 .. units[l]
                   PROVE  <<l, i>> \in Left(f)
        OBVIOUS
      <4>1. i \in 1 .. Capacity /\ i <= units[l]
        BY <3>1
      <4> QED
        BY <1>2, <2>4, <4>1 DEF Left
    <3>4. Left(f)' \in SUBSET (Left(f) \ Taken)
      <4> SUFFICES ASSUME NEW u \in LimiterIds \X (1 .. Capacity),
                          Serves(u[1], f)', u[2] <= units'[u[1]]
                   PROVE  u \in Left(f) /\ u \notin Taken
        BY DEF Left
      <4>1. u[1] \in LimiterIds /\ u[2] \in Nat /\ Serves(u[1], f)
        BY <1>3
      <4>2. u[2] <= units[u[1]] /\ (u[1] = l => u[2] <= a)
        BY <1>0, <3>1, <4>1 DEF HerdTypes
      <4> QED
        BY <3>1, <4>1, <4>2 DEF Left
    <3>5. IsFiniteSet(Left(f)) /\ Cardinality(Left(f)) \in Nat /\ grants[f] * Cost \in Nat
      BY <1>0, GrantedType
    <3>6. IsFiniteSet(Left(f) \ Taken)
          /\ Cardinality(Left(f) \ Taken) = Cardinality(Left(f)) - Cost
      <4>1. Left(f) \cap Taken = Taken
        BY <3>3
      <4> HIDE DEF Taken
      <4>2. /\ IsFiniteSet(Left(f) \ Taken)
            /\ Cardinality(Left(f) \ Taken) = Cardinality(Left(f)) - Cardinality(Left(f) \cap Taken)
        BY <3>5, FS_Difference
      <4> QED
        BY <3>2, <4>1, <4>2
    <3>7. Cardinality(Left(f)') <= Cardinality(Left(f)) - Cost /\ Cardinality(Left(f)') \in Nat
      BY <3>4, <3>6, FS_Subset, FS_CardinalityType
    <3>8. grants'[f] * Cost = grants[f] * Cost + Cost
      BY <1>0, <3>1
    <3> QED
      BY <3>1, <3>5, <3>7, <3>8 DEF Granted
  <2> QED
    BY <2>2, <2>3, <2>4
<1> QED
  BY <1>0, <1>1, <1>4, <1>5, <1>7, SamePhase

\* Only what no caller has just renewed expires, and only what has expired is deleted.
LEMMA BurstPurgeStep ==
    ASSUME BurstInv, PurgeLimiters, NEW f \in Fingerprints
    PROVE  Burst(f)'
<1>0. Inv /\ HerdTypes /\ grants \in [Fingerprints -> Nat] /\ Burst(f)
      /\ LimMap!TypeOK /\ LimMap!QueueKeysUnique
  BY SameLimiters DEF BurstInv, FullInv, Inv
<1>1. /\ UNCHANGED <<limArg, units, pc, held, grants>> /\ limItems' \subseteq limItems
      /\ limiter' = [g \in Fingerprints |-> IF g \in limItems' THEN limiter[g] ELSE None]
  BY DEF PurgeLimiters, Limiters!Purger, Limiters!Receive, Limiters!Purge,
     Limiters!DeleteExpired, history
<1>2. Granted(f)' <= Granted(f) /\ Granted(f)' \in Nat
  <2>1. \A l \in LimiterIds : Serves(l, f)' => Serves(l, f) /\ units'[l] <= units[l]
    BY <1>0, <1>1, QueueFacts DEF Serves
  <2> QED
    BY <1>0, <1>1, <2>1, NothingAdded DEF HerdTypes
<1>3. Creating(f)' = Creating(f)
  BY <1>1 DEF Creating
<1>4. CASE Limiters!Receive
  <2>1. UNCHANGED <<limItems, limQueue, limExpired>>
    BY <1>4 DEF Limiters!Receive
  <2>2. UNCHANGED <<Unqueued(f), Fresh(f)>>
    BY <2>1 DEF Unqueued, Fresh
  <2> QED
    BY <1>0, <1>1, <1>2, <1>3, <2>1, <2>2, SamePhase
<1>5. CASE Limiters!Purge
  <2>1. /\ \A i \in 1 .. Len(limQueue') : \E j \in 1 .. Len(limQueue) : limQueue'[i] = limQueue[j]
        /\ \A k \in limExpired' :
             \E j \in 1 .. Len(limQueue) : limQueue[j].key = k /\ limQueue[j].left = 0
        /\ \A i \in 1 .. Len(limQueue') : limQueue'[i].key \notin limExpired'
    BY <1>0, <1>5, SameLimiters, LimMap!PurgedEntries, MapAssumptions
  <2>2. limItems' = limItems /\ (f \in limExpired' => Unqueued(f)')
    BY <1>5, <2>1 DEF Limiters!Purge, Unqueued
  <2>3. ASSUME FirstBurst(f)
        PROVE  FirstBurst(f)'
    <3>1. Granted(f)' <= Capacity
      BY <1>0, <1>2, <2>3, GrantedType, Bounds DEF FirstBurst
    <3>2. f \notin limItems => f \notin limExpired' /\ Unqueued(f)'
      BY <2>1, <2>3 DEF FirstBurst, Unqueued
    <3> QED
      BY <1>1, <1>3, <2>2, <2>3, <3>1, <3>2 DEF FirstBurst
  <2>4. ASSUME MoreBursts(f)
        PROVE  MoreBursts(f)'
    <3>1. f \notin limExpired' /\ Fresh(f)'
      BY <2>1, <2>4, Bounds DEF MoreBursts, Fresh
    <3>2. Cardinality(Creating(f)) \in Nat
      BY Finite DEF Creating
    <3>3. Granted(f)' + Capacity * Cardinality(Creating(f)) <= Capacity * (Cardinality(Callers) + 1)
      <4>1. /\ Capacity * Cardinality(Creating(f)) \in Nat
            /\ Capacity * (Cardinality(Callers) + 1) \in Nat
        BY <3>2, DetectorAssumption, FS_CardinalityType, Bounds
      <4>2. Granted(f) + Capacity * Cardinality(Creating(f)) <= Capacity * (Cardinality(Callers) + 1)
        BY <2>4 DEF MoreBursts
      <4> QED
        BY <1>0, <1>2, <4>1, <4>2, GrantedType
    <3> QED
      BY <1>3, <2>2, <2>4, <3>1, <3>3 DEF MoreBursts
  <2> QED
    BY <1>0, <2>2, <2>3, <2>4 DEF Burst
<1>6. CASE Limiters!DeleteExpired
  <2>1. limItems' = limItems \ limExpired /\ limExpired' = {} /\ limQueue' = limQueue
    BY <1>6 DEF Limiters!DeleteExpired
  <2>2. UNCHANGED <<Unqueued(f), Fresh(f)>>
    BY <2>1 DEF Unqueued, Fresh
  <2>3. CASE f \notin limExpired
    BY <1>0, <1>1, <1>2, <1>3, <2>1, <2>2, <2>3, SamePhase
  <2>4. CASE f \in limExpired
    <3>1. FirstBurst(f) /\ Unqueued(f)
      BY <1>0, <2>4 DEF Burst, MoreBursts
    <3>2. Granted(f)' <= Capacity
      BY <1>0, <1>2, <3>1, GrantedType, Bounds DEF FirstBurst
    <3> QED
      BY <1>1, <1>3, <2>1, <2>2, <2>4, <3>1, <3>2 DEF FirstBurst, Burst
  <2> QED
    BY <2>3, <2>4
<1> QED
  BY <1>4, <1>5, <1>6 DEF PurgeLimiters, Limiters!Purger

\* When time passes no call is under way, and at most one limiter serves a fingerprint.
LEMMA BurstTickStep ==
    ASSUME BurstInv, Tick, NEW f \in Fingerprints
    PROVE  Burst(f)'
<1>0. Inv /\ HerdTypes /\ grants \in [Fingerprints -> Nat] /\ Burst(f)
      /\ LimMap!TypeOK /\ LimMap!Tick
  BY SameLimiters DEF BurstInv, FullInv, Inv, Tick
<1>1. /\ UNCHANGED <<limItems, limExpired, limArg, limiter, pc, held>> /\ grants'[f] = 0
      /\ \A c \in Callers : pc[c] = "idle" /\ held[c] = None
  BY <1>0 DEF Tick, Limiters!Tick, HerdTypes
<1>2. Unqueued(f) => Unqueued(f)'
  BY <1>0, LimMap!TickedEntries, MapAssumptions DEF Unqueued
<1>3. f \notin limItems => f \notin limExpired /\ Unqueued(f)
  BY <1>0 DEF Burst, FirstBurst, MoreBursts
<1>4. Cardinality(Left(f)') <= Capacity /\ Cardinality(Left(f)') \in Nat
  <2> PICK l \in LimiterIds : f \in limItems => limiter[f] = l
    <3>1. f \in limItems => limiter[f] \in LimiterIds
      BY <1>0, QueueFacts
    <3>2. \E l : l \in LimiterIds
      <4>1. Cardinality(Fingerprints) # 0 /\ Cardinality(Fingerprints) \in Nat
            /\ Cardinality(Callers) \in Nat
        BY DetectorAssumption, FS_EmptySet, FS_CardinalityType
      <4>2. 1 \in LimiterIds
        BY <4>1 DEF LimiterIds
      <4> QED
        BY <4>2
    <3> QED
      BY <3>1, <3>2
  <2>1. Left(f)' \in SUBSET ({l} \X (0 + 1 .. Capacity))
    <3> SUFFICES ASSUME NEW u \in LimiterIds \X (1 .. Capacity), Serves(u[1], f)'
                 PROVE  u[1] = l
      BY DEF Left
    <3>1. u[1] # None
      BY Bounds
    <3> QED
      BY <1>1, <3>1 DEF Serves
  <2>2. Cardinality({l} \X (0 + 1 .. Capacity)) = Capacity
        /\ {l} \X (0 + 1 .. Capacity) \in SUBSET (LimiterIds \X (1 .. Capacity))
    <3>1. Capacity \in Nat /\ 0 \in Nat /\ 0 <= Capacity /\ Capacity - 0 = Capacity
      BY Bounds
    <3>2. {l} \X (0 + 1 .. Capacity) \in SUBSET (LimiterIds \X (1 .. Capacity))
      OBVIOUS
    <3> QED
      BY <3>1, <3>2, Finite
  <2> QED
    BY <2>1, <2>2, Finite, FS_Subset, FS_CardinalityType
<1>5. Granted(f)' <= Capacity
  <2>1. 0 * Cost = 0
    BY Bounds
  <2> QED
    BY <1>1, <1>4, <2>1 DEF Granted
<1>6. Creating(f)' = {}
  BY <1>1 DEF Creating
<1>7. FirstBurst(f)'
  BY <1>1, <1>2, <1>3, <1>5, <1>6 DEF FirstBurst
<1> QED
  BY <1>0, <1>1, <1>2, <1>7 DEF Burst

LEMMA BurstStep ==
    ASSUME BurstInv, [Next]_vars
    PROVE  BurstInv'
<1>0. grants \in [Fingerprints -> Nat]
  BY DEF BurstInv
<1>1. FullInv'
  BY FullStep DEF BurstInv
<1>2. ASSUME UNCHANGED <<limItems, limQueue, limExpired, limArg, herdVars, grants>>
      PROVE  BurstInv'
  <2>1. ASSUME NEW f \in Fingerprints
        PROVE  UNCHANGED <<Left(f), Creating(f), Unqueued(f), Fresh(f), grants, limItems,
                           limExpired, limArg, pc>>
    BY <1>2 DEF Left, Serves, Creating, Unqueued, Fresh, herdVars
  <2> QED
    BY <1>1, <1>2, <2>1 DEF BurstInv, Burst, FirstBurst, MoreBursts, Granted, herdVars
<1>3. ASSUME NEW c \in Callers, NEW f \in Fingerprints, CoolDown(c, f) \/ IsCoolDown(c, f)
      PROVE  BurstInv'
  BY <1>2, <1>3 DEF CoolDown, IsCoolDown, limVars, history
<1>4. CASE PurgeCooldowns \/ (\E c \in Callers : EndCoolDown(c)) \/ UNCHANGED vars
  BY <1>2, <1>4 DEF PurgeCooldowns, EndCoolDown, vars, limVars, history
<1>5. ASSUME NEW c \in Callers,
             (\E f \in Fingerprints : Get(c, f)) \/ Renew(c) \/ Set(c) \/ Add(c)
      PROVE  BurstInv'
  <2>1. UNCHANGED grants
    BY <1>5 DEF Get, Renew, Set, Add, history
  <2> QED
    BY <1>0, <1>1, <1>5, <2>1, BurstGetStep, BurstMoveStep, BurstSetStep DEF BurstInv
<1>6. ASSUME NEW c \in Callers, Grant(c) \/ Deny(c)
      PROVE  BurstInv'
  <2>1. grants' \in [Fingerprints -> Nat]
    <3>1. limArg[c] \in Fingerprints
      BY QueueFacts DEF BurstInv, FullInv
    <3> QED
      BY <1>0, <1>6, <3>1 DEF Grant, Deny
  <2> QED
    BY <1>1, <1>6, <2>1, BurstAllowStep DEF BurstInv
<1>7. CASE PurgeLimiters
  BY <1>0, <1>1, <1>7, BurstPurgeStep DEF BurstInv, PurgeLimiters, history
<1>8. CASE Tick
  BY <1>1, <1>8, BurstTickStep DEF BurstInv, Tick
<1> QED
  BY <1>3, <1>4, <1>5, <1>6, <1>7, <1>8 DEF Next

LEMMA BurstInit == Init => BurstInv
<1> SUFFICES ASSUME Init
             PROVE  BurstInv
  OBVIOUS
<1>1. /\ limItems = {} /\ limQueue = << >> /\ limExpired = {}
      /\ \A c \in Callers : pc[c] = "idle" /\ held[c] = None
      /\ grants = [f \in Fingerprints |-> 0]
  BY DEF Init, Limiters!Init
<1>2. ASSUME NEW f \in Fingerprints
      PROVE  Burst(f)
  <2>1. Left(f) = {}
    BY <1>1, Bounds DEF Left, Serves
  <2>2. Granted(f) = 0
    BY <1>1, <2>1, FS_EmptySet, Bounds DEF Granted
  <2>3. Unqueued(f) /\ 0 <= Capacity
    BY <1>1, Bounds DEF Unqueued
  <2> QED
    BY <1>1, <2>2, <2>3 DEF Burst, FirstBurst
<1> QED
  BY <1>1, <1>2, FullInit DEF BurstInv

\* However many callers find no limiter and create one each, and however the goroutine's
\* deletion falls between their steps, one moment grants at most one burst for each
\* caller and one for the limiter about to be deleted.
THEOREM BurstsAreBounded == Spec => []BoundedBursts
<1>1. ASSUME BurstInv
      PROVE  BoundedBursts
  <2> SUFFICES ASSUME NEW f \in Fingerprints
               PROVE  grants[f] <= LimitersBurst * (Cardinality(Callers) + 1)
    BY DEF BoundedBursts
  <2> DEFINE N == Cardinality(Callers)
  <2>1. /\ grants \in [Fingerprints -> Nat] /\ grants[f] \in Nat /\ Burst(f)
        /\ N \in Nat /\ LimitersBurst \in Nat /\ Cost \in Nat \ {0}
        /\ Capacity = LimitersBurst * Cost
    BY <1>1, DetectorAssumption, FS_CardinalityType, Bounds DEF BurstInv, Capacity, Cost
  <2>2. grants[f] * Cost <= Granted(f) /\ grants[f] * Cost \in Nat /\ Granted(f) \in Nat
    BY <2>1, GrantedType DEF Granted
  <2>3. Cardinality(Creating(f)) \in Nat
    BY Finite DEF Creating
  <2> HIDE DEF N
  <2>4. Granted(f) <= Capacity * (N + 1)
    <3>1. Capacity * (N + 1) = Capacity * N + Capacity /\ Capacity * N \in Nat
          /\ Capacity * Cardinality(Creating(f)) \in Nat /\ Capacity \in Nat
      BY <2>1, <2>3, Multiples, Bounds
    <3> QED
      BY <2>1, <2>2, <3>1 DEF Burst, FirstBurst, MoreBursts, N
  <2>5. grants[f] * Cost <= (LimitersBurst * (N + 1)) * Cost
    <3>1. Capacity * (N + 1) = (LimitersBurst * (N + 1)) * Cost
      BY <2>1
    <3> QED
      BY <2>1, <2>2, <2>4, <3>1
  <2>6. LimitersBurst * (N + 1) \in Nat
    BY <2>1
  <2>7. grants[f] <= LimitersBurst * (N + 1)
    BY <2>1, <2>5, <2>6, Multiples
  <2> QED
    BY <2>7 DEF N
<1> QED
  BY <1>1, BurstInit, BurstStep, PTL DEF Spec

-----------------------------------------------------------------------------
\* Both maps are given calls that take no time, so both forget as module MapExp shows.
ForgetInv ==
    /\ CoolMap!ForgetInv /\ CoolMap!QueueKeysUnique
    /\ LimMap!ForgetInv /\ LimMap!QueueKeysUnique

LEMMA ForgetStep ==
    ASSUME ForgetInv, [Next]_vars
    PROVE  ForgetInv'
<1>1. CoolMap!ForgetInv' /\ CoolMap!QueueKeysUnique'
  <2>1. [CoolMap!Next]_(CoolMap!vars) /\ CoolMap!TypeOK
    BY CooldownsStep, SameCooldowns DEF ForgetInv, CoolMap!ForgetInv
  <2>2. CoolMap!ForgetInv'
    BY <2>1, CoolMap!ForgetStep, MapAssumptions DEF ForgetInv
  <2>3. CoolMap!QueueKeysUnique'
    BY <2>1, CoolMap!UniqueStep, MapAssumptions DEF ForgetInv
  <2> QED
    BY <2>2, <2>3
<1>2. LimMap!ForgetInv' /\ LimMap!QueueKeysUnique'
  <2>1. LimMap!TypeOK /\ limArg \in [Callers -> Fingerprints]
    BY DEF ForgetInv, LimMap!ForgetInv, LimMap!TypeOK
  <2>2. [LimMap!Next]_(LimMap!vars)
    BY <2>1, LimitersStep, SameLimiters
  <2>3. LimMap!ForgetInv'
    BY <2>2, LimMap!ForgetStep, MapAssumptions DEF ForgetInv
  <2>4. LimMap!QueueKeysUnique'
    BY <2>1, <2>2, LimMap!UniqueStep, MapAssumptions DEF ForgetInv
  <2> QED
    BY <2>3, <2>4
<1> QED
  BY <1>1, <1>2 DEF ForgetInv

\* What nobody asks for any more leaves both maps in time, for every number of
\* fingerprints, callers and both periods: it can be kept back only behind another one
\* that is in use.
THEOREM UnusedItemsAreForgotten == Spec => []ItemsForgotten
<1>1. Init => ForgetInv
  <2> SUFFICES ASSUME Init
               PROVE  ForgetInv
    OBVIOUS
  <2>1. CoolMap!Init /\ LimMap!Init
    BY SameCooldowns, SameLimiters DEF Init
  <2>2. CoolMap!ForgetInv /\ LimMap!ForgetInv
    BY <2>1, CoolMap!ForgetInit, LimMap!ForgetInit, MapAssumptions
  <2>3. CoolMap!QueueKeysUnique /\ LimMap!QueueKeysUnique
    BY <2>1 DEF CoolMap!Init, LimMap!Init, CoolMap!QueueKeysUnique, LimMap!QueueKeysUnique
  <2> QED
    BY <2>2, <2>3 DEF ForgetInv
<1>2. ForgetInv => ItemsForgotten
  <2> SUFFICES ASSUME ForgetInv
               PROVE  ItemsForgotten
    OBVIOUS
  <2>1. CoolMap!ExpiresInTime /\ LimMap!ExpiresInTime
    BY CoolMap!ForgottenInTime, LimMap!ForgottenInTime, MapAssumptions DEF ForgetInv
  <2> QED
    BY <2>1 DEF ItemsForgotten, CoolMap!ExpiresInTime, LimMap!ExpiresInTime,
                Cooldowns!ExpiresInTime, Limiters!ExpiresInTime
<1> QED
  BY <1>1, <1>2, ForgetStep, PTL DEF Spec

-----------------------------------------------------------------------------
\* How long a cooldown lasts.  The map of cooldowns follows what CoolDown says: no key
\* in it is older than its cooldown, a Set that is not over was called at this moment,
\* and what has been purged is over, or has just been set again.
FollowsCoolDown ==
    /\ sinceCoolDown \in [Fingerprints -> Nat]
    /\ \A f \in Fingerprints : coolAge[f] <= sinceCoolDown[f]
    /\ \A c \in Callers : coolPc[c] = "add" => sinceCoolDown[coolArg[c]] = 0
    /\ \A f \in coolExpired : sinceCoolDown[f] = 0 \/ sinceCoolDown[f] >= CoolDownInterval

LastsInv ==
    /\ CoolMap!TypeOK /\ CoolMap!QueueKeysUnique
    /\ CoolMap!EntriesLast /\ CoolMap!ExpiredKeysInHand
    /\ FollowsCoolDown

LEMMA LastsTypes ==
    ASSUME LastsInv
    PROVE  /\ coolAge \in [Fingerprints -> Nat] /\ coolArg \in [Callers -> Fingerprints]
           /\ coolPc \in [Callers -> {"idle", "add", "renew"}]
           /\ coolExpired \subseteq Fingerprints
           /\ sinceCoolDown \in [Fingerprints -> Nat]
<1>1. CoolMap!MaxAge \in Nat
  BY CoolMap!MaxAgeType, MapAssumptions
<1> QED
  BY <1>1 DEF LastsInv, CoolMap!TypeOK, FollowsCoolDown

LEMMA FollowsStep ==
    ASSUME LastsInv, [Next]_vars
    PROVE  FollowsCoolDown'
<1>0. /\ coolAge \in [Fingerprints -> Nat] /\ coolArg \in [Callers -> Fingerprints]
      /\ coolPc \in [Callers -> {"idle", "add", "renew"}]
      /\ coolExpired \subseteq Fingerprints
      /\ sinceCoolDown \in [Fingerprints -> Nat]
      /\ CoolDownInterval \in Nat \ {0}
  BY LastsTypes, DetectorAssumption
<1>1. FollowsCoolDown
  BY DEF LastsInv
<1>2. ASSUME NEW c \in Callers, NEW f \in Fingerprints, CoolDown(c, f)
      PROVE  FollowsCoolDown'
  <2>1. /\ coolAge' = [coolAge EXCEPT ![f] = 0]
        /\ sinceCoolDown' = [sinceCoolDown EXCEPT ![f] = 0]
        /\ coolArg' = [coolArg EXCEPT ![c] = f] /\ coolPc' = [coolPc EXCEPT ![c] = "add"]
        /\ UNCHANGED coolExpired
    BY <1>2 DEF CoolDown, Cooldowns!Set, Cooldowns!Call, Cooldowns!Touch
  <2>2. \A g \in Fingerprints :
            sinceCoolDown'[g] = IF g = f THEN 0 ELSE sinceCoolDown[g]
    BY <1>0, <2>1
  <2>3. \A g \in Fingerprints : coolAge'[g] = IF g = f THEN 0 ELSE coolAge[g]
    BY <1>0, <2>1
  <2>4. \A d \in Callers : /\ coolArg'[d] = IF d = c THEN f ELSE coolArg[d]
                           /\ d # c => coolPc'[d] = coolPc[d]
    BY <1>0, <2>1
  <2>5. sinceCoolDown' \in [Fingerprints -> Nat]
    BY <1>0, <2>1
  <2> QED
    BY <1>0, <1>1, <2>1, <2>2, <2>3, <2>4, <2>5 DEF FollowsCoolDown
<1>3. ASSUME NEW c \in Callers, NEW f \in Fingerprints, IsCoolDown(c, f)
      PROVE  FollowsCoolDown'
  <2>1. /\ coolArg' = [coolArg EXCEPT ![c] = f] /\ coolPc' = [coolPc EXCEPT ![c] = "renew"]
        /\ UNCHANGED <<coolAge, coolExpired, sinceCoolDown>>
    BY <1>3 DEF IsCoolDown, Cooldowns!Get, Cooldowns!Call, history
  <2>2. \A d \in Callers : coolPc'[d] = "add" => coolPc[d] = "add" /\ coolArg'[d] = coolArg[d]
    BY <1>0, <2>1
  <2> QED
    BY <1>1, <2>1, <2>2 DEF FollowsCoolDown
<1>4. ASSUME NEW c \in Callers, EndCoolDown(c)
      PROVE  FollowsCoolDown'
  <2>1. /\ coolPc' = [coolPc EXCEPT ![c] = "idle"]
        /\ coolAge' = coolAge \/ coolAge' = [coolAge EXCEPT ![coolArg[c]] = 0]
        /\ UNCHANGED <<coolArg, coolExpired, sinceCoolDown>>
    BY <1>4 DEF EndCoolDown, Cooldowns!Add, Cooldowns!Renew, Cooldowns!Touch, history
  <2>2. \A f \in Fingerprints : coolAge'[f] = coolAge[f] \/ coolAge'[f] = 0
    BY <1>0, <2>1
  <2>3. \A d \in Callers : coolPc'[d] = "add" => coolPc[d] = "add"
    BY <1>0, <2>1
  <2> QED
    BY <1>0, <1>1, <2>1, <2>2, <2>3 DEF FollowsCoolDown
<1>5. CASE PurgeCooldowns
  <2>1. UNCHANGED <<coolAge, coolArg, coolPc, sinceCoolDown>>
    BY <1>5 DEF PurgeCooldowns, Cooldowns!Purger, Cooldowns!Receive, Cooldowns!Purge,
       Cooldowns!DeleteExpired, history
  <2>2. CASE Cooldowns!Receive \/ Cooldowns!DeleteExpired
    <3>1. coolExpired' \subseteq coolExpired
      BY <2>2 DEF Cooldowns!Receive, Cooldowns!DeleteExpired
    <3> QED
      BY <1>1, <2>1, <3>1 DEF FollowsCoolDown
  <2>3. CASE Cooldowns!Purge
    <3>1. CoolMap!Purge
      BY <2>3 DEF Cooldowns!Purge, CoolMap!Purge
    <3>2. ASSUME NEW f \in coolExpired'
          PROVE  sinceCoolDown[f] = 0 \/ sinceCoolDown[f] >= CoolDownInterval
      <4>1. PICK j \in 1 .. Len(coolQueue) : coolQueue[j].key = f /\ coolQueue[j].left = 0
        BY <3>1, CoolMap!PurgedEntries, MapAssumptions DEF LastsInv
      <4>2. f \in Fingerprints
        BY <4>1, CoolMap!EntryTypes, MapAssumptions DEF LastsInv
      <4>3. CASE CoolMap!BeingSet(f)
        BY <1>0, <1>1, <4>3 DEF CoolMap!BeingSet, FollowsCoolDown
      <4>4. CASE 0 + coolAge[f] >= CoolDownInterval
        BY <1>0, <1>1, <4>2, <4>4 DEF FollowsCoolDown
      <4> QED
        BY <4>1, <4>3, <4>4 DEF LastsInv, CoolMap!EntriesLast
    <3> QED
      BY <1>1, <2>1, <3>2 DEF FollowsCoolDown
  <2> QED
    BY <1>5, <2>2, <2>3 DEF PurgeCooldowns, Cooldowns!Purger
<1>6. CASE Tick
  <2>1. /\ coolExpired' = coolExpired /\ coolExpired = {} /\ UNCHANGED <<coolPc, coolArg>>
        /\ \A c \in Callers : coolPc[c] = "idle"
    BY <1>6 DEF Tick, Cooldowns!Tick, Cooldowns!Quiet, LastsInv, CoolMap!ExpiredKeysInHand
  <2>2. ASSUME NEW f \in Fingerprints
        PROVE  /\ sinceCoolDown'[f] \in Nat
               /\ coolAge'[f] <= sinceCoolDown'[f]
    <3>1. sinceCoolDown'[f] = Least(3 * CoolDownInterval, sinceCoolDown[f] + 1)
      BY <1>6 DEF Tick
    <3>2. coolAge'[f] = IF coolAge[f] = 2 * CoolDownInterval THEN 2 * CoolDownInterval
                        ELSE coolAge[f] + 1
      BY <1>6 DEF Tick, Cooldowns!Tick, Cooldowns!MaxAge
    <3>3. coolAge[f] \in 0 .. 2 * CoolDownInterval
      BY DEF LastsInv, CoolMap!TypeOK, CoolMap!MaxAge
    <3>4. coolAge[f] <= sinceCoolDown[f] /\ sinceCoolDown[f] \in Nat
      BY <1>0, <1>1 DEF FollowsCoolDown
    <3> QED
      BY <1>0, <3>1, <3>2, <3>3, <3>4 DEF Least
  <2>3. sinceCoolDown' \in [Fingerprints -> Nat]
    BY <1>6, <2>2 DEF Tick
  <2> QED
    BY <2>1, <2>2, <2>3 DEF FollowsCoolDown
<1>7. ASSUME UNCHANGED <<coolVars, sinceCoolDown>>
      PROVE  FollowsCoolDown'
  BY <1>1, <1>7 DEF coolVars, FollowsCoolDown
<1>8. ASSUME NEW c \in Callers,
             \/ \E f \in Fingerprints : Get(c, f)
             \/ Renew(c) \/ Set(c) \/ Add(c) \/ Grant(c) \/ Deny(c)
      PROVE  UNCHANGED <<coolVars, sinceCoolDown>>
  BY <1>8 DEF Get, Renew, Set, Add, Grant, Deny, Allow, history
<1>9. CASE PurgeLimiters \/ UNCHANGED vars
  BY <1>7, <1>9 DEF PurgeLimiters, vars, history
<1> QED
  BY <1>2, <1>3, <1>4, <1>5, <1>6, <1>7, <1>8, <1>9 DEF Next

LEMMA LastsStep ==
    ASSUME LastsInv, [Next]_vars
    PROVE  LastsInv'
<1>1. CoolMap!TypeOK /\ [CoolMap!Next]_(CoolMap!vars)
  BY CooldownsStep, SameCooldowns DEF LastsInv
<1>2. CoolMap!TypeOK'
  BY <1>1, CoolMap!TypeStep, MapAssumptions
<1>3. CoolMap!QueueKeysUnique'
  BY <1>1, CoolMap!UniqueStep, MapAssumptions DEF LastsInv
<1>4. CoolMap!EntriesLast'
  BY <1>1, CoolMap!LastStep, MapAssumptions DEF LastsInv
<1>5. CoolMap!ExpiredKeysInHand'
  BY <1>1, CoolMap!InHandStep, MapAssumptions DEF LastsInv
<1> QED
  BY <1>2, <1>3, <1>4, <1>5, FollowsStep DEF LastsInv

\* A cooldown lasts its interval, unless CoolDown is called at the very moment an
\* earlier one is deleted: for every number of fingerprints and callers.
THEOREM CoolDownsLast == Spec => CoolDownLasts
<1>1. Init => LastsInv
  <2> SUFFICES ASSUME Init
               PROVE  LastsInv
    OBVIOUS
  <2>1. CoolMap!Init
    BY SameCooldowns DEF Init
  <2>2. CoolMap!TypeOK
    BY <2>1, CoolMap!TypeInit, MapAssumptions
  <2>3. CoolMap!ExpiredKeysInHand
    BY <2>1, CoolMap!LeakInit, MapAssumptions
  <2>4. CoolMap!QueueKeysUnique /\ CoolMap!EntriesLast
    BY <2>1 DEF CoolMap!Init, CoolMap!QueueKeysUnique, CoolMap!EntriesLast
  <2>5. FollowsCoolDown
    BY <2>1, DetectorAssumption DEF Init, CoolMap!Init, FollowsCoolDown
  <2> QED
    BY <2>2, <2>3, <2>4, <2>5 DEF LastsInv
<1>2. LastsInv /\ [Next]_vars => LastsInv'
  BY LastsStep
<1>3. ASSUME LastsInv, [Next]_vars
      PROVE  [\A f \in coolItems \ coolItems' :
                  sinceCoolDown[f] = 0 \/ sinceCoolDown[f] >= CoolDownInterval]_vars
  <2> SUFFICES ASSUME NEW f \in coolItems \ coolItems'
               PROVE  f \in coolExpired
    BY <1>3 DEF LastsInv, FollowsCoolDown
  <2>1. ASSUME NEW c \in Callers, NEW g \in Fingerprints,
               CoolDown(c, g) \/ IsCoolDown(c, g) \/ Get(c, g)
        PROVE  coolItems \subseteq coolItems'
    BY <2>1 DEF CoolDown, IsCoolDown, Get, Cooldowns!Set, Cooldowns!Get, coolVars
  <2>2. ASSUME NEW c \in Callers,
               EndCoolDown(c) \/ Renew(c) \/ Set(c) \/ Add(c) \/ Grant(c) \/ Deny(c)
        PROVE  UNCHANGED coolItems
    BY <2>2 DEF EndCoolDown, Renew, Set, Add, Grant, Deny, Allow, Cooldowns!Add,
       Cooldowns!Renew, coolVars
  <2>3. CASE PurgeLimiters \/ Tick \/ UNCHANGED vars
    BY <2>3 DEF PurgeLimiters, Tick, vars, Cooldowns!Tick, coolVars
  <2>4. CASE PurgeCooldowns
    BY <2>4 DEF PurgeCooldowns, Cooldowns!Purger, Cooldowns!Receive, Cooldowns!Purge,
       Cooldowns!DeleteExpired
  <2> QED
    BY <1>3, <2>1, <2>2, <2>3, <2>4 DEF Next
<1> QED
  BY <1>1, <1>2, <1>3, PTL DEF Spec, CoolDownLasts

=============================================================================
