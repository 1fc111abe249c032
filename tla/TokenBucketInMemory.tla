------------------------- MODULE TokenBucketInMemory -------------------------
(***************************************************************************)
(* detector: the token bucket kept in memory, two expiring maps (module    *)
(* MapExp), one of cooldowns and one of pointers to limiters.  Nothing     *)
(* excludes two calls of IsThunderingHerd, so the steps of callers and of  *)
(* the maps' purging goroutines interleave; time passes between calls.     *)
(*                                                                         *)
(* A limiter is what module RateLimiter shows it to be where it is only    *)
(* used to Allow: a bucket that a denial empties.  It is counted in       *)
(* LimitersInterval units to a token, so a unit comes in per unit of time. *)
(***************************************************************************)
EXTENDS Naturals, Sequences, FiniteSets

CONSTANTS
    Fingerprints,
    Callers,            \* goroutines that use the detector, one call at a time
    LimitersBurst,      \* tokens of a full bucket
    LimitersInterval,   \* units of time it takes to refill one token
    CoolDownInterval    \* units of time

ASSUME DetectorAssumption ==
    /\ IsFiniteSet(Fingerprints) /\ IsFiniteSet(Callers)
    /\ LimitersBurst \in Nat \ {0}
    /\ LimitersInterval \in Nat \ {0}
    /\ CoolDownInterval \in Nat \ {0}

VARIABLES
    \* The map of cooldowns and the map of limiters, as in MapExp.
    coolItems, coolQueue, coolPc, coolArg, coolTimer, coolFired, coolPurger,
    coolExpired, coolAge,
    limItems, limQueue, limPc, limArg, limTimer, limFired, limPurger,
    limExpired, limAge,
    limiter,        \* limiter[f]: the limiter that the map holds for f, or None
    units,          \* units[l]: units in the bucket of limiter l
    pc,             \* pc[c]: where c is in IsThunderingHerd, or "idle"
    held,           \* held[c]: the limiter in c's local variable
    sinceCoolDown,  \* history: time since CoolDown(f), up to three intervals
    level,          \* history: units in the one bucket f should have
    used,           \* history: ages of the latest LimitersBurst tokens of f used up,
                    \* latest first, up to the interval; a denial uses up all
    grants          \* history: requests of f granted at this moment

coolVars == <<coolItems, coolQueue, coolPc, coolArg, coolTimer, coolFired, coolPurger,
              coolExpired, coolAge>>
limVars == <<limItems, limQueue, limPc, limArg, limTimer, limFired, limPurger,
             limExpired, limAge>>
herdVars == <<limiter, units, pc, held>>
history == <<sinceCoolDown, level, used, grants>>
vars == <<coolVars, limVars, herdVars, history>>

-----------------------------------------------------------------------------
\* Mutant: the period in which one token is refilled.
OneTokenPeriod == LimitersInterval

FullBucketPeriod == LimitersInterval * LimitersBurst

\* No time passes in the middle of a call or of a purge: neither map is ever late.
Cooldowns == INSTANCE MapExp WITH
    Keys <- Fingerprints, TTL <- CoolDownInterval,
    items <- coolItems, queue <- coolQueue, pc <- coolPc, arg <- coolArg,
    timer <- coolTimer, fired <- coolFired, purger <- coolPurger,
    expiredKeys <- coolExpired, age <- coolAge, late <- FALSE

Limiters == INSTANCE MapExp WITH
    Keys <- Fingerprints, TTL <- FullBucketPeriod,
    items <- limItems, queue <- limQueue, pc <- limPc, arg <- limArg,
    timer <- limTimer, fired <- limFired, purger <- limPurger,
    expiredKeys <- limExpired, age <- limAge, late <- FALSE

Cost == LimitersInterval
Capacity == LimitersBurst * LimitersInterval

Least(a, b) == IF a <= b THEN a ELSE b

\* Limiters are numbered; there are never more in use than the map and callers hold.
None == 0
LimiterIds == 1 .. Cardinality(Fingerprints) + Cardinality(Callers)
InUse == {limiter[f] : f \in limItems} \cup {held[c] : c \in Callers}

Init ==
    /\ Cooldowns!Init
    /\ Limiters!Init
    /\ limiter = [f \in Fingerprints |-> None]
    /\ units = [l \in LimiterIds |-> 0]
    /\ pc = [c \in Callers |-> "idle"]
    /\ held = [c \in Callers |-> None]
    /\ sinceCoolDown = [f \in Fingerprints |-> 3 * CoolDownInterval]
    /\ level = [f \in Fingerprints |-> Capacity]
    /\ used = [f \in Fingerprints |-> [i \in 1 .. LimitersBurst |-> LimitersInterval]]
    /\ grants = [f \in Fingerprints |-> 0]

Goto(c, label) == pc' = [pc EXCEPT ![c] = label]

-----------------------------------------------------------------------------
\* CoolDown and IsCoolDown are a call on the map; the map's second step ends it.

CoolDown(c, f) ==
    /\ Cooldowns!Set(c, f)
    /\ sinceCoolDown' = [sinceCoolDown EXCEPT ![f] = 0]
    /\ UNCHANGED <<limVars, herdVars, level, used, grants>>

IsCoolDown(c, f) ==
    /\ Cooldowns!Get(c, f)
    /\ UNCHANGED <<limVars, herdVars, history>>

EndCoolDown(c) ==
    /\ Cooldowns!Add(c) \/ Cooldowns!Renew(c)
    /\ UNCHANGED <<limVars, herdVars, history>>

-----------------------------------------------------------------------------
\* IsThunderingHerd: limiters.Get, which is two steps of the map, ...
Get(c, f) ==
    /\ pc[c] = "idle"
    /\ Limiters!Get(c, f)
    /\ held' = [held EXCEPT ![c] = IF f \in limItems THEN limiter[f] ELSE None]
    /\ Goto(c, "Renew")
    /\ UNCHANGED <<coolVars, limiter, units, history>>

Renew(c) ==
    /\ pc[c] = "Renew"
    /\ Limiters!Renew(c)
    /\ Goto(c, IF held[c] = None THEN "Set" ELSE "Allow")
    /\ UNCHANGED <<coolVars, limiter, units, held, history>>

\* Mutant: the new limiter is used and not put into the map.
SetNothing(c) ==
    /\ pc[c] = "Set"
    /\ \E l \in LimiterIds \ InUse :
        /\ \A m \in 1 .. l - 1 : m \in InUse
        /\ units' = [units EXCEPT ![l] = Capacity]
        /\ held' = [held EXCEPT ![c] = l]
    /\ Goto(c, "Allow")
    /\ UNCHANGED <<coolVars, limVars, limiter, history>>

\* Mutant: a new limiter has no tokens.
SetEmpty(c) ==
    /\ pc[c] = "Set"
    /\ Limiters!Set(c, limArg[c])
    /\ \E l \in LimiterIds \ InUse :
        /\ \A m \in 1 .. l - 1 : m \in InUse
        /\ units' = [units EXCEPT ![l] = 0]
        /\ limiter' = [limiter EXCEPT ![limArg[c]] = l]
        /\ held' = [held EXCEPT ![c] = l]
    /\ Goto(c, "Add")
    /\ UNCHANGED <<coolVars, history>>

\* ... if there was none, limiters.Set of a new one, whatever others have set since, ...
Set(c) ==
    /\ pc[c] = "Set"
    /\ Limiters!Set(c, limArg[c])
    /\ \E l \in LimiterIds \ InUse :
        /\ \A m \in 1 .. l - 1 : m \in InUse
        /\ units' = [units EXCEPT ![l] = Capacity]
        /\ limiter' = [limiter EXCEPT ![limArg[c]] = l]
        /\ held' = [held EXCEPT ![c] = l]
    /\ Goto(c, "Add")
    /\ UNCHANGED <<coolVars, history>>

Add(c) ==
    /\ pc[c] = "Add"
    /\ Limiters!Add(c)
    /\ Goto(c, "Allow")
    /\ UNCHANGED <<coolVars, limiter, units, held, history>>

\* ... and limiter.Allow of the one in hand.
Allow(c, left) ==
    /\ units' = [units EXCEPT ![held[c]] = left]
    /\ held' = [held EXCEPT ![c] = None]
    /\ Goto(c, "idle")
    /\ UNCHANGED <<coolVars, limVars, limiter, sinceCoolDown>>

Grant(c) ==
    /\ pc[c] = "Allow"
    /\ units[held[c]] >= Cost
    /\ Allow(c, units[held[c]] - Cost)
    /\ level' = [level EXCEPT ![limArg[c]] = IF @ < Cost THEN 0 ELSE @ - Cost]
    /\ used' = [used EXCEPT ![limArg[c]] = [i \in 1 .. LimitersBurst |->
            IF i = 1 THEN 0 ELSE @[i - 1]]]
    /\ grants' = [grants EXCEPT ![limArg[c]] = @ + 1]

Deny(c) ==
    /\ pc[c] = "Allow"
    /\ units[held[c]] < Cost
    /\ Allow(c, 0)
    /\ level' = [level EXCEPT ![limArg[c]] = 0]
    /\ used' = [used EXCEPT ![limArg[c]] = [i \in 1 .. LimitersBurst |-> 0]]
    /\ UNCHANGED grants

-----------------------------------------------------------------------------
\* The purging goroutines; an item that goes takes its limiter with it.

PurgeCooldowns ==
    /\ Cooldowns!Purger
    /\ UNCHANGED <<limVars, herdVars, history>>

PurgeLimiters ==
    /\ Limiters!Purger
    /\ limiter' = [f \in Fingerprints |-> IF f \in limItems' THEN limiter[f] ELSE None]
    /\ UNCHANGED <<coolVars, units, pc, held, history>>

\* A unit of time passes while no call and no purge is under way, which is when the maps
\* are not made late; limiters that are not in the map are garbage.
Tick ==
    /\ \A c \in Callers : pc[c] = "idle"
    /\ Cooldowns!Tick
    /\ Limiters!Tick
    /\ units' = [l \in LimiterIds |->
            IF l \in InUse THEN Least(Capacity, units[l] + 1) ELSE 0]
    /\ sinceCoolDown' = [f \in Fingerprints |->
            Least(3 * CoolDownInterval, sinceCoolDown[f] + 1)]
    /\ level' = [f \in Fingerprints |-> Least(Capacity, level[f] + 1)]
    /\ used' = [f \in Fingerprints |-> [i \in 1 .. LimitersBurst |->
            Least(LimitersInterval, used[f][i] + 1)]]
    /\ grants' = [f \in Fingerprints |-> 0]
    /\ UNCHANGED <<limiter, pc, held>>

Next ==
    \/ \E c \in Callers :
        \/ \E f \in Fingerprints : CoolDown(c, f) \/ IsCoolDown(c, f) \/ Get(c, f)
        \/ EndCoolDown(c)
        \/ Renew(c) \/ Set(c) \/ Add(c)
        \/ Grant(c) \/ Deny(c)
    \/ PurgeCooldowns
    \/ PurgeLimiters
    \/ Tick

Spec == Init /\ [][Next]_vars

-----------------------------------------------------------------------------
\* Properties.

\* Both maps have their types, a key that is present has a limiter, and so has a
\* caller that is about to use one.
DetectorTypeOK ==
    /\ Cooldowns!TypeOK
    /\ Limiters!TypeOK
    /\ units \in [LimiterIds -> 0 .. Capacity]
    /\ \A f \in Fingerprints : limiter[f] \in IF f \in limItems THEN LimiterIds ELSE {None}
    /\ \A c \in Callers :
        held[c] \in IF pc[c] \in {"Add", "Allow"} THEN LimiterIds
                    ELSE IF pc[c] = "Renew" THEN LimiterIds \cup {None} ELSE {None}

\* A request is taken for a herd only when the one bucket of its fingerprint is short
\* of a token: limiters created twice, replaced under a caller that still holds the
\* old one, or evicted and created anew can only let more requests through.
HerdOnlyWhenShort ==
    [][\A c \in Callers : Deny(c) => level[limArg[c]] < Cost]_vars

\* And not many more: whatever the interleaving of callers that create limiters and of
\* the goroutine that deletes what it has purged, the burst is granted at one moment
\* at most once for every caller and once for the limiter about to be deleted.
BoundedBursts ==
    \A f \in Fingerprints : grants[f] <= LimitersBurst * (Cardinality(Callers) + 1)

\* The limiters that the map lets expire hold a full bucket: the period given to the
\* map is long enough for eviction to lose nothing.
EvictionLosesNothing ==
    [][Limiters!Purge =>
        \A f \in limExpired' \cap limItems : units[limiter[f]] = Capacity]_vars

\* A cooldown or limiter that nobody asks for any more is gone after twice its period,
\* whatever callers were in the middle of when it expired; it can stay longer only
\* behind another fingerprint's that is still asked for.
ItemsForgotten == Cooldowns!ExpiresInTime /\ Limiters!ExpiresInTime

\* A cooldown lasts: it is over only when the interval has passed since CoolDown.  The
\* exception is one that is set at the moment at which the goroutine deletes an earlier
\* one, and which is deleted with it.
CoolDownLasts ==
    [][\A f \in coolItems \ coolItems' :
        sinceCoolDown[f] = 0 \/ sinceCoolDown[f] >= CoolDownInterval]_vars

\* "How many same fingerprint occurences are allowed in a time window" (README.md:73),
\* the burst and the interval that resources.go:30 gives as "requests per minute": a
\* herd is more than LimitersBurst requests within the interval, or what comes within
\* the interval after one, for "the bucket is drained".
HerdOnlyAboveLimit ==
    [][\A c \in Callers : Deny(c) =>
        \A i \in 1 .. LimitersBurst : used[limArg[c]][i] < LimitersInterval]_vars

\* "The detector will stop analysing the requests for a while (cooldown period)"
\* (README.md:76): the cooldown is over, at the latest, at the second tick of the map,
\* which is before three intervals have passed.
CoolDownEnds == \A f \in coolItems : sinceCoolDown[f] < 3 * CoolDownInterval

=============================================================================
