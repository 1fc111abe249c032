-------------------------- MODULE TokenBucketRedis --------------------------
(***************************************************************************)
(* detector/redigo: the token bucket kept in Redis.  Per fingerprint there *)
(* is a hash with the bucket's tokens and the time they were refreshed,    *)
(* written by one script that Redis runs atomically, and a key whose       *)
(* existence is the cooldown.  Both expire; here both times are relative.  *)
(*                                                                         *)
(* A token is counted in LimitersInterval units, so the refill rate, one   *)
(* token per LimitersInterval, is a unit per unit of time.  The clock is   *)
(* Redis's and moves forward.                                              *)
(***************************************************************************)
EXTENDS Naturals

CONSTANTS
    Fingerprints,
    LimitersBurst,      \* tokens of a full bucket
    LimitersInterval,   \* units of time it takes to refill one token
    CoolDownInterval,   \* units of time
    Second              \* units of time in a second: expirations are whole seconds

ASSUME RedisAssumption ==
    /\ LimitersBurst \in Nat      \* nothing in the options or the configuration demands one
    /\ LimitersInterval \in Nat \ {0}
    /\ CoolDownInterval \in Nat \ {0}
    /\ Second \in Nat \ {0}
    \* Redis rejects an EX that is not a whole number of seconds.
    /\ CoolDownInterval % Second = 0

VARIABLES
    stored,     \* fingerprints whose bucket is a key in Redis
    tokens,     \* tokens[f]: the hash's tokens, in units
    since,      \* since[f]: time since last_refreshed, up to Capacity
    ttl,        \* ttl[f]: time until the bucket's key expires, 0 for never
    cooling,    \* cooling[f]: time until the cooldown's key expires, 0 if there is none
    undrained,  \* history: undrained[f], the bucket had nobody been denied
    denied      \* history: fingerprints of requests denied at this moment

redis == <<stored, tokens, since, ttl, cooling, undrained, denied>>

-----------------------------------------------------------------------------
Cost == LimitersInterval
Capacity == LimitersBurst * LimitersInterval

\* Mutant: whole seconds are rounded down.
ExpirationRoundsDown == (Capacity \div Second) * Second

\* EXPIRE key ceil(max_tokens / refill_rate), in units.
Expiration == ((Capacity + (Second - 1)) \div Second) * Second

Least(a, b) == IF a <= b THEN a ELSE b
Less(time) == IF time = 0 THEN 0 ELSE time - 1

Init ==
    /\ stored = {}
    /\ tokens = [f \in Fingerprints |-> 0]
    /\ since = [f \in Fingerprints |-> 0]
    /\ ttl = [f \in Fingerprints |-> 0]
    /\ cooling = [f \in Fingerprints |-> 0]
    /\ undrained = [f \in Fingerprints |-> Capacity]
    /\ denied = {}

\* The script's new_tokens: a bucket that is not there is a full one.
NewTokens(f) ==
    IF f \in stored THEN Least(Capacity, tokens[f] + since[f]) ELSE Capacity

\* HMSET writes the fields and leaves the key's expiration as it is.
HMSet(f, units) ==
    /\ stored' = stored \cup {f}
    /\ tokens' = [tokens EXCEPT ![f] = units]
    /\ since' = [since EXCEPT ![f] = 0]

-----------------------------------------------------------------------------
\* The script's two branches.

\* Mutant: the new key is not given an expiration.
GrantWithoutExpire(f) ==
    /\ NewTokens(f) >= Cost
    /\ HMSet(f, NewTokens(f) - Cost)
    /\ undrained' = [undrained EXCEPT ![f] = @ - Cost]
    /\ UNCHANGED <<ttl, cooling, denied>>

\* Mutant: the key expires as soon as one token is back.
GrantExpiresEarly(f) ==
    /\ NewTokens(f) >= Cost
    /\ HMSet(f, NewTokens(f) - Cost)
    /\ ttl' = [ttl EXCEPT ![f] = Cost]
    /\ undrained' = [undrained EXCEPT ![f] = @ - Cost]
    /\ UNCHANGED <<cooling, denied>>

\* Mutant: the guard lets a bucket without a whole token grant one.
GrantTooMuch(f) ==
    /\ NewTokens(f) + 1 >= Cost
    /\ HMSet(f, IF NewTokens(f) >= Cost THEN NewTokens(f) - Cost ELSE 0)
    /\ ttl' = [ttl EXCEPT ![f] = Expiration]
    /\ undrained' = [undrained EXCEPT ![f] = @ - Cost]
    /\ UNCHANGED <<cooling, denied>>

\* Not a thundering herd.
Grant(f) ==
    /\ NewTokens(f) >= Cost
    /\ HMSet(f, NewTokens(f) - Cost)
    /\ ttl' = [ttl EXCEPT ![f] = Expiration]
    /\ undrained' = [undrained EXCEPT ![f] = @ - Cost]
    /\ UNCHANGED <<cooling, denied>>

\* Mutant: a denied request goes unpunished.
DrainNothing(f) ==
    /\ NewTokens(f) < Cost
    /\ HMSet(f, NewTokens(f))
    /\ denied' = denied \cup {f}
    /\ UNCHANGED <<ttl, cooling, undrained>>

\* Mutant: the penalty renews the key's expiration.
DrainRenews(f) ==
    /\ NewTokens(f) < Cost
    /\ HMSet(f, 0)
    /\ ttl' = [ttl EXCEPT ![f] = Expiration]
    /\ denied' = denied \cup {f}
    /\ UNCHANGED <<cooling, undrained>>

\* A thundering herd: the penalty does not renew the key's expiration.
Drain(f) ==
    /\ NewTokens(f) < Cost
    /\ HMSet(f, 0)
    /\ denied' = denied \cup {f}
    /\ UNCHANGED <<ttl, cooling, undrained>>

IsThunderingHerd(f) == Grant(f) \/ Drain(f)

\* SET key EX.
CoolDown(f) ==
    /\ cooling' = [cooling EXCEPT ![f] = CoolDownInterval]
    /\ UNCHANGED <<stored, tokens, since, ttl, undrained, denied>>

\* EXISTS, which renews nothing.
IsCoolDown(f) == cooling[f] > 0

-----------------------------------------------------------------------------
\* A unit of time passes, and Redis drops the keys that expire.
Expiring == {f \in stored : ttl[f] = 1}

Tick ==
    /\ stored' = stored \ Expiring
    /\ tokens' = [f \in Fingerprints |-> IF f \in Expiring THEN 0 ELSE tokens[f]]
    /\ since' = [f \in Fingerprints |->
            IF f \in stored \ Expiring THEN Least(Capacity, since[f] + 1) ELSE 0]
    /\ ttl' = [f \in Fingerprints |-> Less(ttl[f])]
    /\ cooling' = [f \in Fingerprints |-> Less(cooling[f])]
    /\ undrained' = [f \in Fingerprints |-> Least(Capacity, undrained[f] + 1)]
    /\ denied' = {}

Next ==
    \/ \E f \in Fingerprints : IsThunderingHerd(f) \/ CoolDown(f)
    \/ Tick

Spec == Init /\ [][Next]_redis

-----------------------------------------------------------------------------
\* Properties.

\* Tokens and times are what the script can compute.
RedisTypeOK ==
    /\ stored \subseteq Fingerprints
    /\ tokens \in [Fingerprints -> 0 .. Capacity]
    /\ since \in [Fingerprints -> 0 .. Capacity]
    /\ ttl \in [Fingerprints -> 0 .. Expiration]
    /\ cooling \in [Fingerprints -> 0 .. CoolDownInterval]
    /\ undrained \in [Fingerprints -> 0 .. Capacity]
    /\ denied \subseteq Fingerprints

\* A bucket does not stay in Redis for ever, as long as it has a token to grant: the
\* branch that punishes gives the key no expiration, and is not the one that creates it,
\* for a bucket that is not there is full.  With a burst of 0, which nothing rejects,
\* that branch creates every key, and no key ever expires.
EveryBucketExpires == \A f \in stored : ttl[f] > 0 <=> LimitersBurst > 0

\* A key lives until the bucket would be full had nobody been punished, so nothing
\* that was granted is forgotten with it, whenever its last grant was.
OutlivesDebt ==
    \A f \in Fingerprints :
        /\ f \in stored => ttl[f] + undrained[f] >= Capacity
        /\ f \notin stored => undrained[f] = Capacity

\* The rate is that of an ordinary token bucket: neither penalties nor keys that
\* expire under a herd ever put more into the bucket than an ordinary one would hold.
NeverMoreThanOrdinary == \A f \in Fingerprints : NewTokens(f) <= undrained[f]

Bucket == INSTANCE HerdBucket WITH level <- [f \in Fingerprints |-> NewTokens(f)]

\* The script, whose key may expire in the middle of a herd and then reads as a full
\* bucket, implements the promised bucket: only penalties are ever forgotten.
KeepsBucket == Bucket!Spec

=============================================================================
