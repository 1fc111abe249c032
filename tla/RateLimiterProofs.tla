-------------------------- MODULE RateLimiterProofs --------------------------
(***************************************************************************)
(* Theorems about RateLimiter.  The program uses the limiter through Allow *)
(* only (detector/tokenbucket_inmemory.go:61): for that use the limiter is *)
(* shown to be the bucket its documentation promises, however late its     *)
(* callers.  For prompt callers that also reserve tokens ahead, and do not *)
(* cancel, it is shown to keep every reservation.                          *)
(***************************************************************************)
EXTENDS RateLimiter, FiniteSetTheorems, TLAPS

USE RateLimiterAssumption

-----------------------------------------------------------------------------
\* Arithmetic the provers need to be told of.

\* A product of natural numbers is one.
LEMMA NatProduct ==
    ASSUME NEW a \in Nat, NEW b \in Nat
    PROVE  a * b \in Nat
BY SMT

\* No time has passed since now, and nothing more is nothing more.
LEMMA Nothing == \A x \in Int : x - Least(x, x) = 0 /\ x + 0 = x
BY DEF Least

\* A unit of time brings in the limit.
LEMMA OneMore ==
    ASSUME NEW d \in Nat, NEW lim \in Nat
    PROVE  /\ tokensFromDuration(lim, d) \in Nat
           /\ tokensFromDuration(lim, 0) = 0
           /\ tokensFromDuration(lim, d + 1) = tokensFromDuration(lim, d) + lim
<1>1. d * lim \in Nat
    BY NatProduct
<1>2. (d + 1) * lim = d * lim + lim
    BY SMT
<1>3. 0 * lim = 0
    BY SMT
<1>. QED
    BY <1>1, <1>2, <1>3 DEF tokensFromDuration

\* More time brings in more.
LEMMA LongerBringsMore ==
    ASSUME NEW a \in Nat, NEW d \in Nat, NEW lim \in Nat
    PROVE  /\ tokensFromDuration(lim, a) \in Nat
           /\ tokensFromDuration(lim, a + d) \in Nat
           /\ tokensFromDuration(lim, a) <= tokensFromDuration(lim, a + d)
<1>1. a * lim \in Nat /\ d * lim \in Nat
    BY NatProduct
<1>2. (a + d) * lim = a * lim + d * lim
    BY SMT
<1>. QED
    BY <1>1, <1>2 DEF tokensFromDuration

\* A duration is a whole number, and no less than one for what a limit of at most one
\* has to make.
LEMMA Durations ==
    ASSUME NEW lim \in Nat, NEW units \in Int
    PROVE  /\ durationFromTokens(lim, units) \in Int
           /\ units >= 0 => durationFromTokens(lim, units) >= 0
           /\ lim \in {0, 1} /\ units > 0 => durationFromTokens(lim, units) > 0
<1>1. CASE lim = 0
    BY <1>1 DEF durationFromTokens
<1>2. CASE lim > 0
    <2>1. ASSUME NEW u \in Nat PROVE u \div lim \in Nat
        BY <1>2, <2>1
    <2>2. ASSUME NEW u \in Nat, lim = 1 PROVE u \div lim = u
        BY <2>2
    <2>. QED
        BY <1>2, <2>1, <2>2 DEF durationFromTokens
<1>. QED
    BY <1>1, <1>2

-----------------------------------------------------------------------------
\* Types.

\* What a call reckons with is whole numbers.
LEMMA WholeNumbers ==
    ASSUME TypeOK, NEW c \in Callers
    PROVE  /\ Advance(call[c].t) \in Int
           /\ Asked(c) \in Int
           /\ Delay(c) \in Int
           /\ Restore(c) \in Int
           /\ PreviousEvent(c) \in Int
<1>1. ASSUME NEW d \in Int, NEW lim \in Nat
      PROVE  tokensFromDuration(lim, d) \in Int
    BY SMT DEF tokensFromDuration
<1>2. call[c] \in Calls(now)
    BY DEF TypeOK
<1>3. burst * Unit \in Nat /\ call[c].n * Unit \in Nat
    BY <1>2, NatProduct DEF TypeOK, Calls
<1>4. Advance(call[c].t) \in Int
    <2>1. call[c].t - Least(call[c].t, last) \in Int
        BY <1>2 DEF TypeOK, Calls, Least
    <2>. QED
        BY <1>1, <1>3, <2>1 DEF TypeOK, Advance, Least
<1>5. Asked(c) \in Int
    BY <1>3, <1>4 DEF Asked
<1>6. Delay(c) \in Int
    BY <1>5, Durations DEF Delay, TypeOK
<1>7. Restore(c) \in Int
    <2>1. lastEvent - call[c].act \in Int /\ call[c].limit \in Nat
        BY <1>2 DEF TypeOK, Calls
    <2>2. tokensFromDuration(call[c].limit, lastEvent - call[c].act) \in Int
        BY <1>1, <2>1
    <2>. QED
        BY <1>3, <2>2 DEF Restore
<1>8. PreviousEvent(c) \in Int
    <2>1. -(call[c].n * Unit) \in Int /\ call[c].limit \in Nat /\ call[c].act \in Int
        BY <1>2, <1>3 DEF Calls
    <2>2. durationFromTokens(call[c].limit, -(call[c].n * Unit)) \in Int
        BY <2>1, Durations
    <2>. QED
        BY <2>1, <2>2 DEF PreviousEvent
<1>. QED
    BY <1>4, <1>5, <1>6, <1>7, <1>8

\* A call that ends leaves an idle caller.
LEMMA ReturnType ==
    ASSUME TypeOK, NEW c \in Callers, Return(c)
    PROVE  call' \in [Callers -> Calls(now)]
<1>1. NoCall \in Calls(now)
    BY DEF NoCall, CallOf, Calls, TypeOK
<1>. QED
    BY <1>1 DEF Return, TypeOK

\* So does one that goes on with a reservation.
LEMMA HoldType ==
    ASSUME TypeOK, NEW c \in Callers, NEW act \in Int, NEW lim \in Nat,
           Hold(c, act, lim)
    PROVE  call' \in [Callers -> Calls(now)] /\ level' \in Int
<1>1. CASE call[c].method = "allow"
    <2>1. call[c].n * Unit \in Nat
        BY NatProduct DEF TypeOK, Calls
    <2>. QED
        BY <1>1, <2>1, ReturnType DEF Hold, Happen, Fill, TypeOK
<1>2. CASE call[c].method # "allow"
    BY <1>2 DEF Hold, TypeOK, Calls
<1>. QED
    BY <1>1, <1>2

\* And one that took a moment before the present one leaves what came in since.
LEMMA PastType ==
    ASSUME TypeOK, NEW c \in Callers, NEW lim \in Nat
    PROVE  /\ now - call[c].t \in Nat
           /\ tokensFromDuration(lim, now - call[c].t) \in Nat
           /\ TakesPast(c, lim) => waited' \in Nat
<1>1. now - call[c].t \in Nat /\ waited \in Nat
    BY DEF TypeOK, Calls
<1>2. tokensFromDuration(lim, now - call[c].t) \in Nat
    BY <1>1, OneMore
<1>3. TakesPast(c, lim) => waited' \in Nat
    <2> DEFINE past == tokensFromDuration(lim, now - call[c].t)
    <2>1. past \in Nat
        BY <1>2
    <2>2. TakesPast(c, lim) => waited' = waited + past
        BY DEF TakesPast
    <2> HIDE DEF past
    <2>. QED
        BY <1>1, <2>1, <2>2
<1>. QED
    BY <1>1, <1>2, <1>3

\* One step keeps the types.
LEMMA TypeStep ==
    ASSUME TypeOK, [Next]_vars
    PROVE  TypeOK'
<1> USE DEF limiter
<1>0. burst * Unit \in Nat /\ now \in 0 .. now
    BY NatProduct DEF TypeOK
<1>1. ASSUME NEW c \in Callers, NEW n \in Sizes,
             NEW method \in {"allow", "reserve", "wait"}, NEW wait \in Nat,
             Start(c, method, n, wait)
      PROVE  TypeOK'
    <2>1. n \in Nat
        OBVIOUS
    <2>2. \A at \in {"check", "reserve"} : CallOf(at, method, n, now, wait) \in Calls(now)
        BY <1>0, <2>1 DEF Calls, CallOf
    <2>3. call' \in [Callers -> Calls(now)]
        BY <1>1, <2>2 DEF Start, TypeOK
    <2>. QED
        BY <1>1, <2>3 DEF Start, TypeOK
<1>2. ASSUME NEW c \in Callers, NEW method \in {"setlimit", "setburst"}, NEW value \in Nat,
             SetStart(c, method, value)
      PROVE  TypeOK'
    <2>1. CallOf(method, "allow", value, now, 0) \in Calls(now)
        BY <1>0 DEF Calls, CallOf
    <2>2. call' \in [Callers -> Calls(now)]
        BY <1>2, <2>1 DEF SetStart, TypeOK
    <2>. QED
        BY <1>2, <2>2 DEF SetStart, TypeOK
<1>3. ASSUME NEW c \in Callers, Act(c)
      PROVE  TypeOK'
    <2>1. call[c].n * Unit \in Nat
        BY NatProduct DEF TypeOK, Calls
    <2>2. call' \in [Callers -> Calls(now)]
        BY <1>3, ReturnType DEF Act
    <2>. QED
        BY <1>3, <2>1, <2>2 DEF Act, Happen, Fill, TypeOK
<1>4. ASSUME NEW c \in Callers, Cancel(c)
      PROVE  TypeOK'
    <2>0. call[c] \in Calls(now)
        BY DEF TypeOK
    <2>1. [[call[c] EXCEPT !.at = "cancel"] EXCEPT !.t = now] \in Calls(now)
        BY <1>0, <2>0 DEF Calls
    <2>2. call' = [call EXCEPT ![c] = [[call[c] EXCEPT !.at = "cancel"] EXCEPT !.t = now]]
        BY <1>4 DEF Cancel, TypeOK, Calls
    <2>3. call' \in [Callers -> Calls(now)]
        BY <2>1, <2>2 DEF TypeOK
    <2>. QED
        BY <1>4, <2>3 DEF Cancel, TypeOK
<1>5. ASSUME NEW c \in Callers, Check(c)
      PROVE  TypeOK'
    <2>1. CASE Return(c)
        BY <1>5, <2>1, ReturnType DEF Check, TypeOK
    <2>2. CASE Goto(c, "reserve")
        <3>1. call' \in [Callers -> Calls(now)]
            BY <2>2 DEF Goto, TypeOK, Calls
        <3>. QED
            BY <1>5, <3>1 DEF Check, TypeOK
    <2>. QED
        BY <1>5, <2>1, <2>2 DEF Check
<1>6. ASSUME NEW c \in Callers, GrantInf(c) \/ Grant(c)
      PROVE  TypeOK'
    <2>1. call[c].t \in 0 .. now /\ call[c].t + Delay(c) \in Int
        BY WholeNumbers DEF TypeOK, Calls
    <2>2. call' \in [Callers -> Calls(now)] /\ level' \in Int
        BY <1>6, <2>1, HoldType DEF GrantInf, Grant, TypeOK
    <2>3. unsettled' \in BOOLEAN
        BY <1>6 DEF GrantInf, Grant, Overtake, TypeOK
    <2>4. waited' \in Nat
        BY <1>6, PastType DEF GrantInf, Grant, TypeOK
    <2>. QED
        BY <1>6, <2>1, <2>2, <2>3, <2>4, WholeNumbers DEF GrantInf, Grant, TypeOK
<1>7. ASSUME NEW c \in Callers, Deny(c)
      PROVE  TypeOK'
    <2>1. call[c].t \in 0 .. now /\ call[c].t + Delay(c) \in Int
        BY WholeNumbers DEF TypeOK, Calls
    <2>2. call' \in [Callers -> Calls(now)]
        BY <1>7, ReturnType DEF Deny
    <2>3. waited' \in Nat
        BY <1>7, PastType DEF Deny, TypeOK
    <2>. QED
        BY <1>7, <2>1, <2>2, <2>3 DEF Deny, Disturb, Fill, Least, TypeOK
<1>8. ASSUME NEW c \in Callers, CancelNothing(c) \/ CancelAt(c)
      PROVE  TypeOK'
    <2>1. call[c].t \in 0 .. now
        BY DEF TypeOK, Calls
    <2>2. call' \in [Callers -> Calls(now)]
        BY <1>8, ReturnType DEF CancelNothing, CancelAt
    <2>3. tokens' \in Int /\ lastEvent' \in Int
        BY <1>0, <1>8, WholeNumbers DEF CancelNothing, CancelAt, Least, TypeOK
    <2>4. waited' \in Nat
        BY <1>8, PastType DEF CancelNothing, CancelAt, TypeOK
    <2>5. unsettled' \in BOOLEAN
        BY <1>8 DEF CancelNothing, CancelAt, Overtake, TypeOK
    <2>6. level' \in Int
        BY <1>8 DEF CancelNothing, CancelAt, Fill, TypeOK
    <2>. QED
        BY <1>8, <2>1, <2>2, <2>3, <2>4, <2>5, <2>6 DEF CancelNothing, CancelAt, TypeOK
<1>9. ASSUME NEW c \in Callers, SetLimitAt(c) \/ SetBurstAt(c)
      PROVE  TypeOK'
    <2>1. call[c].t \in 0 .. now /\ call[c].n \in Nat /\ call[c].n * Unit \in Nat
        BY NatProduct DEF TypeOK, Calls
    <2>2. call' \in [Callers -> Calls(now)]
        BY <1>9, ReturnType DEF SetLimitAt, SetBurstAt, Update
    <2>3. limit' \in Nat /\ burst' \in Nat /\ level' \in Int
        BY <1>9, <2>1 DEF SetLimitAt, SetBurstAt, Fill, Least, TypeOK
    <2>4. waited' \in Nat
        BY <1>9, <2>3, PastType DEF SetLimitAt, SetBurstAt, TypeOK
    <2>. QED
        BY <1>9, <2>1, <2>2, <2>3, <2>4, WholeNumbers
        DEF SetLimitAt, SetBurstAt, Update, Disturb, TypeOK
<1>10. CASE Tick
    <2>1. now' \in 0 .. MaxTime /\ last' \in 0 .. now'
        BY <1>10 DEF Tick, TypeOK
    <2>2. call' \in [Callers -> Calls(now')]
        BY <1>10 DEF Tick, TypeOK, Calls
    <2>. QED
        BY <1>0, <1>10, <2>1, <2>2 DEF Tick, Fill, Least, TypeOK
<1>11. CASE UNCHANGED vars
    BY <1>11 DEF vars, TypeOK
<1>12. Waits \subseteq Nat /\ Limits \subseteq Nat /\ Bursts \subseteq Nat /\ 0 \in Nat
       /\ InfDuration \in Nat
    OBVIOUS
<1>. QED
    BY <1>1, <1>2, <1>3, <1>4, <1>5, <1>6, <1>7, <1>8, <1>9, <1>10, <1>11, <1>12
    DEF Next, Locked, Allow, Reserve, Wait

\* A new limiter has them.
LEMMA TypeInit ==
    ASSUME Init PROVE TypeOK
<1>1. Every(Interval) \in Nat
    BY DEF Every
<1>2. Burst * Unit \in Nat
    BY NatProduct
<1>3. NoCall \in Calls(0)
    BY DEF NoCall, CallOf, Calls
<1>4. now = 0 /\ last = 0 /\ lastEvent = 0 /\ methods \in Usages
    BY DEF Init
<1>5. call \in [Callers -> Calls(now)]
    BY <1>3, <1>4 DEF Init
<1>6. limit \in Nat /\ burst \in Nat /\ tokens \in Int /\ level \in Int
    BY <1>1, <1>2 DEF Init
<1>7. unsettled \in BOOLEAN /\ waited \in Nat
    BY DEF Init
<1>. QED
    BY <1>4, <1>5, <1>6, <1>7 DEF TypeOK

\* Whatever the callers do with the limiter, it keeps its types, and its clock and
\* those of the calls never run ahead of the time that has passed.
THEOREM TypeCorrect == Spec => []TypeOK
BY TypeInit, TypeStep, PTL DEF Spec

-----------------------------------------------------------------------------
\* The limiter as the program uses it: only Allow asks for tokens, and a unit is what the
\* finite limit brings in per unit of time.  Calls may be kept waiting for the lock.
DropOnly ==
    /\ Usages \subseteq SUBSET {"allow", "setlimit", "setburst"}
    /\ Limits \subseteq {0, 1, Inf}
    /\ Every(Interval) \in {0, 1, Inf}

\* A call of this use is at its lock, and will not wait for tokens.
Usual(c) ==
    \/ call[c].at = "idle"
    \/ /\ call[c].at \in {"reserve", "setlimit", "setburst"}
       /\ call[c].at = "reserve" => call[c].method = "allow" /\ call[c].wait = 0
       /\ call[c].at = "setlimit" => call[c].n \in {0, 1, Inf}

\* The limiter's tokens, brought up to the present, exceed the promised bucket's by no
\* more than what came in while calls waited, and are never a debt.
Bucket ==
    /\ TypeOK
    /\ unsettled = FALSE
    /\ limit \in {0, 1, Inf}
    /\ \A c \in Callers : Usual(c)
    /\ tokens >= 0
    /\ Advance(now) <= level + waited

\* Where no call is late they are the promised bucket's.
Exact ==
    /\ \A c \in Callers : call[c].at = "idle" \/ call[c].t = now
    /\ waited = 0
    /\ level = Advance(now)

LimiterInv == Bucket /\ (methods \notin Late => Exact)

\* What the bucket holds at a moment up to the present: no debt, no more than the burst,
\* and no more than at present.
LEMMA AdvanceUpTo ==
    ASSUME Bucket, NEW t \in 0 .. now
    PROVE  /\ Advance(t) \in Nat /\ Advance(now) \in Nat
           /\ Advance(t) <= burst * Unit
           /\ Advance(t) <= Advance(now)
<1>1. burst * Unit \in Nat /\ now \in Nat /\ last \in 0 .. now /\ limit \in Nat
    BY NatProduct DEF Bucket, TypeOK
<1> DEFINE a == t - Least(t, last)
           b == now - Least(now, last)
<1>2. a \in Nat /\ b \in Nat /\ a <= b
    BY <1>1 DEF Least
<1>3. PICK d \in Nat : b = a + d
    <2>1. b - a \in Nat /\ b = a + (b - a)
        BY <1>2
    <2>. QED
        BY <2>1
<1>4. /\ tokensFromDuration(limit, a) \in Nat /\ tokensFromDuration(limit, b) \in Nat
      /\ tokensFromDuration(limit, a) <= tokensFromDuration(limit, b)
    BY <1>1, <1>2, <1>3, LongerBringsMore
<1>5. tokens \in Int /\ tokens >= 0
    BY DEF Bucket, TypeOK
<1> HIDE DEF a, b
<1>6. /\ Advance(t) = Least(burst * Unit, tokens + tokensFromDuration(limit, a))
      /\ Advance(now) = Least(burst * Unit, tokens + tokensFromDuration(limit, b))
    BY DEF Advance, a, b
<1>. QED
    BY <1>1, <1>4, <1>5, <1>6 DEF Least

\* A call that takes its time for the present one leaves the limiter to bring in again
\* what came in since.
LEMMA BroughtUp ==
    ASSUME Bucket, TypeOK', NEW c \in Callers, last' = call[c].t, now' = now, tokens' >= 0
    PROVE  Advance(now)' = Least(burst' * Unit,
               tokens' + tokensFromDuration(limit', now - call[c].t))
<1>1. call[c].t \in 0 .. now /\ now \in Nat
    BY DEF Bucket, TypeOK, Calls
<1>2. Least(now', last') = call[c].t
    BY <1>1 DEF Least
<1>. QED
    BY <1>2 DEF Advance

\* The calls of everybody else stay as they are when one is made or returns.
LEMMA OthersUsual ==
    ASSUME LimiterInv, NEW c \in Callers, NEW new, call' = [call EXCEPT ![c] = new],
           now' = now, methods' = methods,
           \/ new.at = "idle"
           \/ /\ new.at \in {"reserve", "setlimit", "setburst"}
              /\ new.t = now
              /\ new.at = "reserve" => new.method = "allow" /\ new.wait = 0
              /\ new.at = "setlimit" => new.n \in {0, 1, Inf}
    PROVE  /\ \A d \in Callers : Usual(d)'
           /\ methods' \notin Late =>
                  \A d \in Callers : call'[d].at = "idle" \/ call'[d].t = now'
<1>. SUFFICES ASSUME NEW d \in Callers
              PROVE  /\ Usual(d)'
                     /\ methods' \notin Late => call'[d].at = "idle" \/ call'[d].t = now'
    OBVIOUS
<1>1. CASE d = c
    <2>1. call'[d] = new
        BY <1>1 DEF LimiterInv, Bucket, TypeOK
    <2>. QED
        BY <2>1 DEF Usual
<1>2. CASE d # c
    <2>1. call'[d] = call[d]
        BY <1>2 DEF LimiterInv, Bucket, TypeOK
    <2>2. Usual(d) /\ (methods \notin Late => call[d].at = "idle" \/ call[d].t = now)
        BY DEF LimiterInv, Bucket, Exact
    <2>. QED
        BY <2>1, <2>2 DEF Usual
<1>. QED
    BY <1>1, <1>2

LEMMA ReturnUsual ==
    ASSUME LimiterInv, NEW c \in Callers, Return(c), now' = now, methods' = methods
    PROVE  /\ \A d \in Callers : Usual(d)'
           /\ methods' \notin Late =>
                  \A d \in Callers : call'[d].at = "idle" \/ call'[d].t = now'
BY OthersUsual DEF Return, NoCall, CallOf

\* A denied call asked for more than there was at the time it read.
LEMMA DeniedIsShort ==
    ASSUME Bucket, NEW c \in Callers, Deny(c)
    PROVE  call[c].n > burst \/ Advance(call[c].t) < call[c].n * Unit
<1>1. call[c].t \in 0 .. now /\ call[c].wait = 0 /\ call[c].n \in Nat
    BY DEF Bucket, Usual, Deny, TypeOK, Calls
<1>2. call[c].n * Unit \in Nat
    BY <1>1, NatProduct
<1>3. CASE Delay(c) <= call[c].wait
    BY <1>1, <1>3 DEF Deny, Fits, Bucket, TypeOK
<1>4. CASE ~(Delay(c) <= call[c].wait)
    <2>1. Asked(c) < 0
        BY <1>1, <1>4 DEF Delay
    <2>. QED
        BY <1>1, <1>2, <2>1, AdvanceUpTo DEF Asked
<1>. QED
    BY <1>3, <1>4

\* A granted call asked for no more than there was.
LEMMA GrantedIsCovered ==
    ASSUME Bucket, NEW c \in Callers, Grant(c)
    PROVE  /\ call[c].t \in 0 .. now /\ call[c].method = "allow"
           /\ call[c].n * Unit \in Nat
           /\ Asked(c) = Advance(call[c].t) - call[c].n * Unit
           /\ Asked(c) \in Nat
<1>1. call[c].t \in 0 .. now /\ call[c].wait = 0 /\ call[c].method = "allow" /\ call[c].n \in Nat
    BY DEF Bucket, Usual, Grant, TypeOK, Calls
<1>2. call[c].n * Unit \in Nat
    BY <1>1, NatProduct
<1>3. Asked(c) = Advance(call[c].t) - call[c].n * Unit /\ Asked(c) \in Int
    BY <1>1, <1>2, AdvanceUpTo DEF Asked
<1>4. ASSUME Asked(c) < 0 PROVE FALSE
    <2>1. limit \in {0, 1}
        BY DEF Grant, Bucket
    <2>2. -Asked(c) \in Int /\ -Asked(c) > 0
        BY <1>3, <1>4
    <2>3. durationFromTokens(limit, -Asked(c)) > 0 /\ durationFromTokens(limit, -Asked(c)) \in Int
        BY <2>1, <2>2, Durations
    <2>. QED
        BY <1>1, <1>4, <2>3 DEF Grant, Fits, Delay
<1>. QED
    BY <1>1, <1>2, <1>3, <1>4

\* A limiter that brings in again what came in while a call waited stays within what is
\* allowed to it, and is exact when the call did not wait.
LEMMA TakenPast ==
    ASSUME Bucket, TypeOK', NEW c \in Callers, NEW x \in Nat,
           last' = call[c].t, now' = now, tokens' = x, TakesPast(c, limit'),
           methods' = methods
    PROVE  /\ Advance(now)' \in Nat /\ Advance(now)' <= burst' * Unit
           /\ waited' - waited \in Nat
           /\ Advance(now)' <= x + (waited' - waited)
           /\ call[c].t = now => waited' = waited /\ Advance(now)' = Least(burst' * Unit, x)
<1> DEFINE past == tokensFromDuration(limit', now - call[c].t)
<1>1. limit' \in Nat /\ burst' * Unit \in Nat /\ waited \in Nat /\ now \in Nat
    <2>1. limit' \in Nat /\ burst' \in Nat /\ waited \in Nat /\ now \in Nat
        BY DEF Bucket, TypeOK
    <2>. QED
        BY <2>1, NatProduct
<1>2. past \in Nat
    BY <1>1, PastType DEF Bucket
<1>3. waited' = waited + past
    BY DEF TakesPast
<1>4. Advance(now)' = Least(burst' * Unit, x + past)
    BY BroughtUp
<1>5. call[c].t = now => past = 0
    BY <1>1, OneMore
<1> HIDE DEF past
<1>. QED
    BY <1>1, <1>2, <1>3, <1>4, <1>5 DEF Least

\* One step keeps the limiter within what the promised bucket allows it.
LEMMA BucketStep ==
    ASSUME LimiterInv, [Next]_vars, DropOnly
    PROVE  LimiterInv'
<1> USE DEF limiter
<1>0. TypeOK' /\ TypeOK /\ Bucket
    BY TypeStep DEF LimiterInv, Bucket
<1>1. methods \cap {"reserve", "wait"} = {}
    BY <1>0 DEF DropOnly, TypeOK
<1>2. burst * Unit \in Nat /\ level \in Int /\ waited \in Nat
    BY <1>0, NatProduct DEF TypeOK
<1>now. now \in 0 .. now /\ Advance(now) \in Nat /\ Advance(now) <= burst * Unit
        /\ Advance(now) <= level + waited
    <2>1. now \in 0 .. now
        BY <1>0 DEF TypeOK
    <2>. QED
        BY <1>0, <2>1, AdvanceUpTo DEF Bucket
<1>3. ASSUME UNCHANGED <<now, methods, limiter, level, unsettled, waited>>,
             \A c \in Callers : Usual(c)',
             methods' \notin Late =>
                 \A c \in Callers : call'[c].at = "idle" \/ call'[c].t = now'
      PROVE  LimiterInv'
    <2>1. Advance(now)' = Advance(now)
        BY <1>3 DEF Advance
    <2>. QED
        BY <1>0, <1>3, <2>1 DEF LimiterInv, Bucket, Exact
<1>4. ASSUME NEW c \in Callers, NEW n \in Sizes, Allow(c, n)
      PROVE  LimiterInv'
    <2> DEFINE new == CallOf("reserve", "allow", n, now, 0)
    <2>0. call' = [call EXCEPT ![c] = new] /\ now' = now /\ methods' = methods
        BY <1>4 DEF Allow, Start
    <2>1. /\ new.at = "reserve" /\ new.t = now
          /\ new.method = "allow" /\ new.wait = 0
        BY DEF CallOf
    <2>2. /\ \A d \in Callers : Usual(d)'
          /\ methods' \notin Late =>
                 \A d \in Callers : call'[d].at = "idle" \/ call'[d].t = now'
        <3> HIDE DEF new
        <3>. QED
            BY <2>0, <2>1, OthersUsual
    <2>. QED
        BY <1>3, <1>4, <2>2 DEF Allow, Start
<1>5. ASSUME NEW c \in Callers,
             \/ \E value \in Limits : SetStart(c, "setlimit", value)
             \/ \E value \in Bursts : SetStart(c, "setburst", value)
      PROVE  LimiterInv'
    <2>1. /\ \A d \in Callers : Usual(d)'
          /\ methods' \notin Late =>
                 \A d \in Callers : call'[d].at = "idle" \/ call'[d].t = now'
        BY <1>5, OthersUsual DEF SetStart, CallOf, DropOnly
    <2>. QED
        BY <1>3, <1>5, <2>1 DEF SetStart
<1>6. ASSUME NEW c \in Callers, GrantInf(c)
      PROVE  LimiterInv'
    <2>1. call[c].method = "allow"
        BY <1>0, <1>6 DEF GrantInf, Bucket, Usual
    <2>2. Return(c) /\ level' = level
        BY <1>0, <1>6, <2>1 DEF GrantInf, Hold, Happen, Fill, Bucket
    <2>. QED
        BY <1>3, <1>6, <2>2, ReturnUsual DEF GrantInf
<1>7. ASSUME NEW c \in Callers, Grant(c)
      PROVE  LimiterInv'
    <2> DEFINE nU == call[c].n * Unit
               x  == Advance(call[c].t) - nU
    <2>1. /\ call[c].t \in 0 .. now /\ call[c].method = "allow"
          /\ nU \in Nat
          /\ Asked(c) = x
          /\ x \in Nat
        BY <1>0, <1>7, GrantedIsCovered
    <2>0. Holding = {}
        BY <1>0 DEF Holding, Bucket, Usual
    <2>3. /\ tokens' = x /\ last' = call[c].t /\ now' = now /\ methods' = methods
          /\ limit' = limit /\ burst' = burst /\ unsettled' = FALSE
        BY <1>0, <1>7, <2>0, <2>1 DEF Grant, Overtake, Bucket
    <2>2. Return(c) /\ level' = level - nU
        BY <1>7, <2>1, <2>3 DEF Grant, Hold, Happen, Fill
    <2>4. Advance(call[c].t) \in Nat /\ Advance(call[c].t) <= Advance(now)
        BY <1>0, <2>1, AdvanceUpTo
    <2>5. TakesPast(c, limit')
        BY <1>7, <2>3 DEF Grant
    <2>6. /\ Advance(now)' \in Nat
          /\ waited' - waited \in Nat
          /\ Advance(now)' <= x + (waited' - waited)
          /\ call[c].t = now => waited' = waited /\ Advance(now)' = Least(burst' * Unit, x)
        <3> HIDE DEF x
        <3>. QED
            BY <1>0, <2>1, <2>3, <2>5, TakenPast
    <2>7. waited' \in Nat
        BY <1>0 DEF TypeOK
    <2>8. /\ \A d \in Callers : Usual(d)'
          /\ methods' \notin Late =>
                 \A d \in Callers : call'[d].at = "idle" \/ call'[d].t = now'
        BY <2>2, <2>3, ReturnUsual
    <2>9. Advance(now)' <= level' + waited'
        <3> HIDE DEF nU
        <3>. QED
            BY <1>2, <1>now, <2>1, <2>2, <2>4, <2>6, <2>7
    <2>10. ASSUME methods' \notin Late PROVE Exact'
        <3>1. Exact /\ call[c].t = now
            BY <1>7, <2>3, <2>10 DEF LimiterInv, Exact, Grant
        <3>2. waited' = 0 /\ Advance(now)' = Least(burst * Unit, x)
            BY <2>3, <2>6, <3>1 DEF Exact
        <3>3. Advance(call[c].t) = level /\ Advance(now) = level
            BY <3>1 DEF Exact
        <3>4. level' = x /\ x <= burst * Unit
            <4> HIDE DEF nU
            <4>. QED
                BY <1>2, <1>now, <2>1, <2>2, <3>3
        <3>5. level' = Advance(now)'
            <4> HIDE DEF x
            <4>. QED
                BY <1>2, <2>1, <3>2, <3>4 DEF Least
        <3>. QED
            BY <2>8, <2>10, <3>2, <3>5 DEF Exact
    <2>. QED
        BY <1>0, <2>1, <2>3, <2>8, <2>9, <2>10 DEF LimiterInv, Bucket
<1>8. ASSUME NEW c \in Callers, Deny(c)
      PROVE  LimiterInv'
    <2>1. call[c].t \in 0 .. now
        BY <1>0 DEF TypeOK, Calls
    <2>2. Holding = {}
        BY <1>0 DEF Holding, Bucket, Usual
    <2>3. unsettled' = FALSE
        BY <1>0, <1>8, <2>2 DEF Deny, Disturb, Bucket
    <2>4. level' = Least(level, 0)
        BY <1>8, <2>3 DEF Deny, Fill
    <2>5. /\ tokens' = 0 /\ last' = call[c].t /\ now' = now /\ methods' = methods
          /\ limit' = limit /\ burst' = burst /\ TakesPast(c, limit') /\ Return(c)
        BY <1>8 DEF Deny
    <2>6. /\ Advance(now)' \in Nat
          /\ waited' - waited \in Nat
          /\ Advance(now)' <= 0 + (waited' - waited)
          /\ call[c].t = now => waited' = waited /\ Advance(now)' = Least(burst' * Unit, 0)
        BY <1>0, <2>5, TakenPast
    <2>7. waited' \in Nat
        BY <1>0 DEF TypeOK
    <2>8. /\ \A d \in Callers : Usual(d)'
          /\ methods' \notin Late =>
                 \A d \in Callers : call'[d].at = "idle" \/ call'[d].t = now'
        BY <2>5, ReturnUsual
    <2>9. Advance(now)' <= level' + waited'
        BY <1>2, <1>now, <2>4, <2>6, <2>7 DEF Least
    <2>10. ASSUME methods' \notin Late PROVE Exact'
        <3>1. Exact /\ call[c].t = now
            BY <1>8, <2>5, <2>10 DEF LimiterInv, Exact, Deny
        <3>2. level' = 0
            BY <1>now, <2>4, <3>1 DEF Exact, Least
        <3>3. waited' = 0 /\ Advance(now)' = 0
            BY <1>2, <2>5, <2>6, <3>1 DEF Exact, Least
        <3>. QED
            BY <2>8, <2>10, <3>2, <3>3 DEF Exact
    <2>. QED
        BY <1>0, <2>3, <2>5, <2>8, <2>9, <2>10 DEF LimiterInv, Bucket
<1>9. ASSUME NEW c \in Callers, SetLimitAt(c) \/ SetBurstAt(c)
      PROVE  LimiterInv'
    <2> DEFINE x == Advance(call[c].t)
    <2>1. call[c].t \in 0 .. now
        BY <1>0 DEF TypeOK, Calls
    <2>2. Holding = {}
        BY <1>0 DEF Holding, Bucket, Usual
    <2>3. unsettled' = FALSE
        BY <1>0, <1>9, <2>2 DEF SetLimitAt, SetBurstAt, Update, Disturb, Bucket
    <2>4. x \in Nat /\ x <= burst * Unit /\ x <= Advance(now)
        BY <1>0, <2>1, AdvanceUpTo
    <2>5. /\ tokens' = x /\ last' = call[c].t /\ now' = now /\ methods' = methods
          /\ TakesPast(c, limit') /\ Return(c)
        BY <1>9 DEF SetLimitAt, SetBurstAt, Update
    <2>6. limit' \in {0, 1, Inf}
        BY <1>0, <1>9 DEF SetLimitAt, SetBurstAt, Bucket, Usual
    <2>7. /\ Advance(now)' \in Nat /\ Advance(now)' <= burst' * Unit
          /\ waited' - waited \in Nat
          /\ Advance(now)' <= x + (waited' - waited)
          /\ call[c].t = now => waited' = waited /\ Advance(now)' = Least(burst' * Unit, x)
        <3> HIDE DEF x
        <3>. QED
            BY <1>0, <2>4, <2>5, TakenPast
    <2>8. waited' \in Nat /\ burst' * Unit \in Nat
        BY <1>0, NatProduct DEF TypeOK
    <2>9. /\ \A d \in Callers : Usual(d)'
          /\ methods' \notin Late =>
                 \A d \in Callers : call'[d].at = "idle" \/ call'[d].t = now'
        BY <2>5, ReturnUsual
    <2>10. \/ level' = level /\ burst' = burst
           \/ level' = Least(burst' * Unit, level)
        BY <1>9, <2>3 DEF SetLimitAt, SetBurstAt, Fill
    <2>11. Advance(now)' <= level' + waited'
        <3> HIDE DEF x
        <3>. QED
            BY <1>2, <1>now, <2>4, <2>7, <2>8, <2>10 DEF Least
    <2>12. ASSUME methods' \notin Late PROVE Exact'
        <3>1. Exact /\ call[c].t = now
            BY <1>9, <2>5, <2>12 DEF LimiterInv, Exact, SetLimitAt, SetBurstAt
        <3>2. x = level
            BY <3>1 DEF Exact
        <3>3. waited' = 0 /\ Advance(now)' = Least(burst' * Unit, level)
            BY <2>7, <3>1, <3>2 DEF Exact
        <3>4. level' = Least(burst' * Unit, level)
            BY <1>2, <1>now, <2>10, <3>1 DEF Exact, Least
        <3>. QED
            BY <2>9, <2>12, <3>3, <3>4 DEF Exact
    <2>. QED
        BY <1>0, <2>3, <2>4, <2>5, <2>6, <2>9, <2>11, <2>12 DEF LimiterInv, Bucket
<1>10. CASE Tick
    <2> DEFINE b == tokensFromDuration(limit, now - last)
               cap == burst * Unit
    <2>1. now' = now + 1 /\ now \in Nat /\ last \in 0 .. now /\ limit \in Nat /\ tokens \in Nat
        BY <1>0, <1>10 DEF Tick, TypeOK, Bucket
    <2>2. Least(now, last) = last /\ Least(now', last) = last /\ now - last \in Nat
          /\ now' - last = (now - last) + 1
        BY <2>1 DEF Least
    <2>3. b \in Nat /\ tokensFromDuration(limit, now' - last) = b + limit
        BY <2>1, <2>2, OneMore
    <2>4. Advance(now) = Least(cap, tokens + b)
        BY <2>2 DEF Advance
    <2>5. Advance(now)' = Least(cap, tokens + (b + limit))
        <3> HIDE DEF b
        <3>. QED
            BY <1>10, <2>2, <2>3 DEF Tick, Advance
    <2>6. /\ level' = Least(cap, level + limit)
          /\ waited' = IF level' = cap THEN 0 ELSE waited
          /\ unsettled' = FALSE
        BY <1>0, <1>10 DEF Tick, Fill, Bucket
    <2>7. Advance(now)' <= level' + waited'
        <3> HIDE DEF b, cap
        <3>1. cap \in Nat
            BY <1>2 DEF cap
        <3>2. Advance(now) <= level + waited
            BY <1>now
        <3>3. CASE level' = cap
            BY <1>2, <2>1, <2>3, <2>5, <2>6, <3>1, <3>3 DEF Least
        <3>4. CASE level' # cap
            <4>1. level' = level + limit /\ waited' = waited
                BY <2>6, <3>4 DEF Least
            <4>. QED
                BY <1>2, <2>1, <2>3, <2>4, <2>5, <3>1, <3>2, <4>1 DEF Least
        <3>. QED
            BY <3>3, <3>4
    <2>8. \A c \in Callers : Usual(c)'
        BY <1>0, <1>10 DEF Tick, Bucket, Usual
    <2>9. ASSUME methods' \notin Late PROVE Exact'
        <3>1. Exact /\ Settled
            BY <1>10, <2>9 DEF LimiterInv, Tick
        <3>2. \A c \in Callers : call'[c].at = "idle"
            BY <1>0, <1>10, <3>1 DEF Tick, Settled, Bucket, Usual
        <3>3. waited' = 0
            BY <2>6, <3>1 DEF Exact
        <3>4. level' = Advance(now)'
            <4>1. level = Least(cap, tokens + b) /\ cap \in Nat
                BY <1>2, <2>4, <3>1 DEF Exact
            <4> HIDE DEF b, cap
            <4>. QED
                BY <1>2, <2>1, <2>3, <2>5, <2>6, <4>1 DEF Least
        <3>. QED
            BY <3>2, <3>3, <3>4 DEF Exact
    <2>. QED
        BY <1>0, <1>10, <2>6, <2>7, <2>8, <2>9 DEF Tick, LimiterInv, Bucket
<1>11. CASE UNCHANGED vars
    <2>1. \A c \in Callers : Usual(c)'
        BY <1>0, <1>11 DEF vars, Bucket, Usual
    <2>2. methods' \notin Late =>
              \A c \in Callers : call'[c].at = "idle" \/ call'[c].t = now'
        BY <1>11 DEF vars, LimiterInv, Exact
    <2>. QED
        BY <1>3, <1>11, <2>1, <2>2 DEF vars
<1>12. ASSUME NEW c \in Callers,
              Act(c) \/ Cancel(c) \/ Check(c) \/ CancelNothing(c) \/ CancelAt(c)
       PROVE  FALSE
    BY <1>0, <1>12 DEF Bucket, Usual, Act, Cancel, Check, CancelNothing, CancelAt
<1>. QED
    BY <1>1, <1>4, <1>5, <1>6, <1>7, <1>8, <1>9, <1>10, <1>11, <1>12
    DEF Next, Locked, Reserve, Wait

\* The inductive invariant holds of every state of the program's use.
LEMMA BucketAlways ==
    ASSUME DropOnly PROVE Spec => []LimiterInv
<1>1. Init => LimiterInv
    <2>. SUFFICES ASSUME Init PROVE LimiterInv
        OBVIOUS
    <2>1. TypeOK
        BY TypeInit
    <2>2. \A c \in Callers : call[c].at = "idle"
        BY DEF Init, NoCall, CallOf
    <2>3. Burst * Unit \in Nat
        BY NatProduct
    <2>4. tokensFromDuration(limit, 0) = 0
        BY <2>1, OneMore DEF TypeOK
    <2>5. now - Least(now, last) = 0
        BY Nothing DEF Init
    <2>6. Advance(now) = level
        BY <2>3, <2>4, <2>5 DEF Init, Advance, Least
    <2>7. level \in Nat /\ waited = 0
        BY <2>3 DEF Init
    <2>8. level <= level + waited
        BY <2>7
    <2>9. Exact
        BY <2>2, <2>6, <2>7 DEF Exact
    <2>10. \A c \in Callers : Usual(c)
        BY <2>2 DEF Usual
    <2>. QED
        BY <2>1, <2>3, <2>6, <2>8, <2>9, <2>10 DEF Init, LimiterInv, Bucket, DropOnly
<1>. QED
    BY <1>1, BucketStep, PTL DEF Spec

\* Whatever events a limiter of the program lets happen, their tokens were in the bucket
\* it is documented to be, which a denial empties, but for what came in while callers
\* waited for the lock: for every interval and burst, and however late the callers.
THEOREM RateIsRespected ==
    ASSUME DropOnly PROVE Spec => []RateRespected
<1>1. LimiterInv => RateRespected
    <2>. SUFFICES ASSUME LimiterInv PROVE level >= -waited
        BY DEF RateRespected
    <2>1. Bucket /\ now \in 0 .. now /\ level \in Int /\ waited \in Nat
        BY DEF LimiterInv, Bucket, TypeOK
    <2>2. Advance(now) \in Nat /\ Advance(now) <= level + waited
        BY <2>1, AdvanceUpTo DEF Bucket
    <2>. QED
        BY <2>1, <2>2
<1>. QED
    BY <1>1, BucketAlways, PTL

\* And while none is late, it denies none whose tokens were there.
THEOREM DenialsAreJust ==
    ASSUME DropOnly PROVE Spec => DeniedOnlyWhenShort
<1>1. ASSUME LimiterInv PROVE
        methods \cap {"reserve", "wait"} = {} /\ methods \notin Late =>
        \A c \in Callers :
            Deny(c) => call[c].n > burst \/ level < call[c].n * Unit
    <2>. SUFFICES ASSUME methods \notin Late, NEW c \in Callers, Deny(c)
                  PROVE  call[c].n > burst \/ level < call[c].n * Unit
        OBVIOUS
    <2>1. Bucket /\ Exact /\ call[c].t = now
        BY <1>1 DEF LimiterInv, Exact, Deny
    <2>. QED
        BY <2>1, DeniedIsShort DEF Exact
<1>. QED
    BY <1>1, BucketAlways, PTL DEF DeniedOnlyWhenShort, Spec

-----------------------------------------------------------------------------
\* The limiter as its documentation offers it, without cancelling: callers also reserve
\* tokens, sleep until their reservation is due, and act.  No call is late, and the limits
\* are a unit per unit of time and none: under a limit of zero a reservation is due after
\* the longest duration, and nothing comes in for it until then.
ReserveOnly ==
    /\ Usages \subseteq SUBSET {"allow", "reserve", "setlimit", "setburst"}
    /\ Late = {}
    /\ Limits \subseteq {1, Inf}
    /\ Every(Interval) \in {1, Inf}
    /\ IsFiniteSet(Callers)

\* The units reserved by the calls f to happen at the moments T.
Held(f, T) == {c \in Callers : f[c].at = "hold" /\ f[c].act \in T}
Share(f, c) == {c} \X (1 .. f[c].n * Unit)
Units(f, T) == UNION {Share(f, c) : c \in Held(f, T)}
Owed(f, T) == Cardinality(Units(f, T))

\* A reservation is as many units as were asked for.
LEMMA ShareIsAll ==
    ASSUME NEW f, NEW c, f[c].n \in Nat
    PROVE  IsFiniteSet(Share(f, c)) /\ Cardinality(Share(f, c)) = f[c].n * Unit
<1> DEFINE m == f[c].n * Unit
<1>1. m \in Nat
    BY NatProduct
<1> HIDE DEF m
<1>2. IsFiniteSet(1 .. m) /\ Cardinality(1 .. m) = m
    <2>1. 1 \in Int /\ m \in Int
        BY <1>1
    <2>2. IsFiniteSet(1 .. m) /\ Cardinality(1 .. m) = IF 1 > m THEN 0 ELSE m - 1 + 1
        BY <2>1, FS_Interval
    <2>. QED
        BY <1>1, <2>2
<1>3. IsFiniteSet({c}) /\ Cardinality({c}) = 1
    BY FS_Singleton
<1>4. IsFiniteSet({c} \X (1 .. m)) /\ Cardinality({c} \X (1 .. m)) = 1 * m
    BY <1>2, <1>3, FS_Product
<1>. QED
    BY <1>1, <1>4 DEF Share, m

\* Finitely many are reserved, more at more moments, and none when nobody holds any.
LEMMA OwedBounds ==
    ASSUME IsFiniteSet(Callers), NEW f, \A c \in Callers : f[c].n \in Nat, NEW T, NEW V
    PROVE  /\ IsFiniteSet(Units(f, T)) /\ Owed(f, T) \in Nat
           /\ T \subseteq V => Owed(f, T) <= Owed(f, V)
           /\ Held(f, T) = {} => Owed(f, T) = 0
<1> DEFINE g == [c \in Callers |-> Share(f, c)]
           All == {g[c] : c \in Callers}
<1>1. g \in Surjection(Callers, All)
    BY DEF Surjection
<1>2. IsFiniteSet(All)
    <2> HIDE DEF g, All
    <2>. QED
        BY <1>1, FS_Surjection
<1>3. \A S \in All : IsFiniteSet(S)
    BY ShareIsAll
<1>4. IsFiniteSet(UNION All)
    <2> HIDE DEF All
    <2>. QED
        BY <1>2, <1>3, FS_UNION
<1>5. ASSUME NEW W PROVE Units(f, W) \in SUBSET UNION All
    BY DEF Units, Held
<1> HIDE DEF All
<1>6. IsFiniteSet(Units(f, T)) /\ IsFiniteSet(Units(f, V))
    BY <1>4, <1>5, FS_Subset
<1>7. Owed(f, T) \in Nat
    BY <1>6, FS_CardinalityType DEF Owed
<1>8. ASSUME T \subseteq V PROVE Owed(f, T) <= Owed(f, V)
    <2>1. Units(f, T) \in SUBSET Units(f, V)
        BY <1>8 DEF Units, Held
    <2>. QED
        BY <1>6, <2>1, FS_Subset DEF Owed
<1>9. Held(f, T) = {} => Owed(f, T) = 0
    BY FS_EmptySet DEF Owed, Units
<1>. QED
    BY <1>6, <1>7, <1>8, <1>9

\* Calls that hold the same owe the same.
LEMMA OwedSame ==
    ASSUME NEW f, NEW g, NEW T,
           \A c \in Callers :
               /\ f[c].at = "hold" <=> g[c].at = "hold"
               /\ f[c].at = "hold" => f[c] = g[c]
    PROVE  Held(f, T) = Held(g, T) /\ Owed(f, T) = Owed(g, T)
<1>1. Held(f, T) = Held(g, T)
    BY DEF Held
<1>2. \A c \in Held(f, T) : Share(f, c) = Share(g, c)
    BY DEF Held, Share
<1>3. Units(f, T) = Units(g, T)
    BY <1>1, <1>2 DEF Units
<1>. QED
    BY <1>1, <1>3 DEF Owed

\* Calls g hold one reservation more than calls f, that of c.
OneMoreHeld(f, g, c) ==
    /\ \A d \in Callers : f[d].n \in Nat /\ g[d].n \in Nat
    /\ \A d \in Callers \ {c} : g[d] = f[d]
    /\ f[c].at # "hold" /\ g[c].at = "hold"

\* One reservation more is its units more, at its moment.
LEMMA OwedMore ==
    ASSUME IsFiniteSet(Callers), NEW f, NEW g, NEW c \in Callers, NEW T, OneMoreHeld(f, g, c)
    PROVE  /\ g[c].act \in T => Owed(g, T) = Owed(f, T) + g[c].n * Unit
           /\ g[c].act \notin T => Owed(g, T) = Owed(f, T)
<1> USE DEF OneMoreHeld
<1>1. ASSUME g[c].act \in T PROVE Owed(g, T) = Owed(f, T) + g[c].n * Unit
    <2>1. Held(g, T) = Held(f, T) \cup {c} /\ c \notin Held(f, T)
        BY <1>1 DEF Held
    <2>2. \A d \in Held(f, T) : Share(g, d) = Share(f, d)
        BY <2>1 DEF Held, Share
    <2>3. Units(g, T) = Units(f, T) \cup Share(g, c)
        BY <2>1, <2>2 DEF Units
    <2>4. Units(f, T) \cap Share(g, c) = {}
        BY <2>1 DEF Units, Share
    <2>5. IsFiniteSet(Units(f, T)) /\ Owed(f, T) \in Nat
        BY OwedBounds
    <2>6. IsFiniteSet(Share(g, c)) /\ Cardinality(Share(g, c)) = g[c].n * Unit
        BY ShareIsAll
    <2>7. Cardinality(Units(f, T) \cap Share(g, c)) = 0
        BY <2>4, FS_EmptySet
    <2>8. Cardinality(Units(g, T)) = Cardinality(Units(f, T)) + Cardinality(Share(g, c)) - 0
        BY <2>3, <2>5, <2>6, <2>7, FS_Union
    <2>9. g[c].n * Unit \in Nat
        BY NatProduct
    <2>. QED
        BY <2>5, <2>6, <2>8, <2>9 DEF Owed
<1>2. ASSUME g[c].act \notin T PROVE Owed(g, T) = Owed(f, T)
    <2>1. Held(g, T) = Held(f, T) /\ c \notin Held(f, T)
        BY <1>2 DEF Held
    <2>2. \A d \in Held(f, T) : Share(g, d) = Share(f, d)
        BY <2>1 DEF Held, Share
    <2>3. Units(g, T) = Units(f, T)
        BY <2>1, <2>2 DEF Units
    <2>. QED
        BY <2>3 DEF Owed
<1>. QED
    BY <1>1, <1>2

\* A call of this use is at its lock, at the time it read, or holds a reservation that is
\* not overdue.
Reserving(c) ==
    \/ call[c].at = "idle"
    \/ /\ call[c].at \in {"reserve", "setlimit", "setburst"}
       /\ call[c].t = now
       /\ call[c].at = "reserve" => \/ call[c].method = "allow" /\ call[c].wait = 0
                                    \/ call[c].method = "reserve"
       /\ call[c].at = "setlimit" => call[c].n \in {1, Inf}
    \/ /\ call[c].at = "hold" /\ call[c].method = "reserve"
       /\ call[c].act \in Nat /\ call[c].act >= now

\* The promised bucket holds what the limiter believes, and what is reserved on top of
\* it.  No reservation is due after the limiter's debt is repaid; at every moment the
\* bucket will have what is reserved up to then; and what is reserved from some future
\* moment on is within a full bucket and what comes in from there.
Covered ==
    /\ level >= 0 /\ level >= Advance(now)
    /\ limit # Inf =>
        /\ \A c \in Callers :
              call[c].at = "hold" => \/ call[c].act <= now
                                     \/ call[c].act <= now - Advance(now)
        /\ level >= Advance(now) + Owed(call, Nat)
        /\ \A t \in Nat : t >= now => level + (t - now) >= Owed(call, 0 .. t)
        /\ \A s, t \in Nat :
              now < s /\ s <= t => Owed(call, s .. t) <= burst * Unit + (t - s)

ReserveInv ==
    /\ TypeOK
    /\ \A c \in Callers : Reserving(c)
    /\ waited = 0
    /\ limit \in {1, Inf}
    /\ unsettled \/ Covered

\* What the limiter believes to have, at present and after a step that brings it there.
LEMMA AdvanceNow ==
    ASSUME TypeOK
    PROVE  Advance(now) \in Int /\ Advance(now) <= burst * Unit
<1>1. burst * Unit \in Nat /\ tokens \in Int /\ now \in Nat /\ last \in 0 .. now /\ limit \in Nat
    BY NatProduct DEF TypeOK
<1>2. now - Least(now, last) \in Nat
    BY <1>1 DEF Least
<1>3. tokensFromDuration(limit, now - Least(now, last)) \in Nat
    BY <1>1, <1>2, OneMore
<1>. QED
    BY <1>1, <1>3 DEF Advance, Least

LEMMA AdvanceTaken ==
    ASSUME TypeOK', now' = now, last' = now, NEW x \in Int, tokens' = x
    PROVE  Advance(now)' = Least(burst' * Unit, x)
<1>1. limit' \in Nat /\ now \in Nat
    BY DEF TypeOK
<1>2. tokensFromDuration(limit', 0) = 0
    BY <1>1, OneMore
<1>3. now' - Least(now', last') = 0
    BY <1>1, Nothing
<1>. QED
    BY <1>2, <1>3 DEF Advance

\* The calls of everybody else stay as they are.
LEMMA OthersReserving ==
    ASSUME ReserveInv, NEW c \in Callers, now' = now, Reserving(c)',
           \A d \in Callers \ {c} : call'[d] = call[d]
    PROVE  \A d \in Callers : Reserving(d)'
<1>. SUFFICES ASSUME NEW d \in Callers \ {c} PROVE Reserving(d)'
    OBVIOUS
<1>1. Reserving(d) /\ call'[d] = call[d]
    BY DEF ReserveInv
<1>. QED
    BY <1>1 DEF Reserving

\* A call at its present moment took nothing past.
LEMMA NothingPast ==
    ASSUME ReserveInv, TypeOK', NEW c \in Callers, call[c].t = now, TakesPast(c, limit')
    PROVE  waited' = 0
<1>1. now \in Nat /\ limit' \in Nat
    BY DEF ReserveInv, TypeOK
<1>2. tokensFromDuration(limit', now - call[c].t) = 0
    BY <1>1, OneMore
<1>. QED
    BY <1>2 DEF TakesPast, ReserveInv

\* A call that reads the clock, and a step that only leaves the bucket as it is, change
\* nothing of what is owed.
LEMMA SameIsCovered ==
    ASSUME ReserveInv, Covered, TypeOK',
           UNCHANGED <<now, limiter, level>>,
           \A c \in Callers :
               /\ call[c].at = "hold" <=> call'[c].at = "hold"
               /\ call[c].at = "hold" => call[c] = call'[c]
    PROVE  Covered'
<1>1. Advance(now)' = Advance(now)
    BY DEF Advance, limiter
<1>2. \A T : Owed(call', T) = Owed(call, T)
    BY OwedSame
<1>. QED
    BY <1>1, <1>2 DEF Covered, limiter

\* Nothing is owed when nobody holds a reservation.
LEMMA QuietIsCovered ==
    ASSUME ReserveOnly, TypeOK', \A c \in Callers : call'[c].at # "hold",
           Advance(now)' \in Int, level' >= 0, level' >= Advance(now)'
    PROVE  Covered'
<1>1. ASSUME NEW T PROVE Owed(call', T) = 0
    <2>1. Held(call', T) = {}
        BY DEF Held
    <2>2. \A c \in Callers : call'[c].n \in Nat
        BY DEF TypeOK, Calls
    <2>. QED
        BY <2>1, <2>2, OwedBounds DEF ReserveOnly
<1>2. level' \in Int /\ now' \in Nat /\ burst' * Unit \in Nat
    <2>1. level' \in Int /\ now' \in Nat /\ burst' \in Nat
        BY DEF TypeOK
    <2>. QED
        BY <2>1, NatProduct
<1>. QED
    BY <1>1, <1>2 DEF Covered

\* What a limiter with its finite limit grants: when, and what it leaves.
LEMMA Granted ==
    ASSUME ReserveInv, TypeOK', NEW c \in Callers, Grant(c)
    PROVE  /\ limit = 1 /\ limit # Inf /\ call[c].t = now /\ now \in Nat
           /\ call[c].n * Unit \in Nat
           /\ call[c].n * Unit <= burst * Unit
           /\ Delay(c) = IF Advance(now) < call[c].n * Unit
                         THEN call[c].n * Unit - Advance(now) ELSE 0
           /\ Advance(now)' = Advance(now) - call[c].n * Unit
           /\ call[c].method = "allow" => Advance(now) >= call[c].n * Unit
<1>1. /\ limit = 1 /\ limit # Inf /\ call[c].t = now /\ now \in Nat
      /\ call[c].n \in Nat /\ burst \in Nat /\ call[c].n <= burst /\ Delay(c) <= call[c].wait
      /\ call[c].method = "allow" => call[c].wait = 0
    BY DEF Grant, Fits, ReserveInv, Reserving, TypeOK, Calls
<1>2. call[c].n * Unit \in Nat /\ burst * Unit \in Nat
    BY <1>1, NatProduct
<1>3. call[c].n * Unit <= burst * Unit
    <2>1. burst - call[c].n \in Nat
        BY <1>1
    <2>2. (burst - call[c].n) * Unit \in Nat
        BY <2>1, NatProduct
    <2>3. (burst - call[c].n) * Unit = burst * Unit - call[c].n * Unit
        BY <1>1, SMT
    <2>. QED
        BY <1>2, <2>2, <2>3
<1> DEFINE nU == call[c].n * Unit
           cap == burst * Unit
<1>4. Advance(now) \in Int /\ Advance(now) <= cap
    BY AdvanceNow DEF ReserveInv
<1> HIDE DEF nU, cap
<1>5. nU \in Nat /\ cap \in Nat /\ Asked(c) = Advance(now) - nU
    BY <1>1, <1>2 DEF Asked, nU, cap
<1>6. \A u \in Nat : durationFromTokens(1, u) = u
    BY DEF durationFromTokens
<1>7. Delay(c) = IF Advance(now) < nU THEN nU - Advance(now) ELSE 0
    BY <1>1, <1>4, <1>5, <1>6 DEF Delay
<1>8. Advance(now)' = Least(burst' * Unit, Advance(now) - nU)
    <2>1. /\ now' = now /\ last' = now /\ tokens' = Advance(now) - nU
          /\ Advance(now) - nU \in Int
        BY <1>1, <1>4, <1>5 DEF Grant
    <2>. QED
        BY <2>1, AdvanceTaken
<1>9. burst' * Unit = cap
    BY DEF Grant, cap
<1>10. Advance(now)' = Advance(now) - nU
    BY <1>4, <1>5, <1>8, <1>9 DEF Least
<1>11. call[c].method = "allow" => Advance(now) >= nU
    BY <1>1, <1>4, <1>5, <1>7
<1>. QED
    BY <1>1, <1>2, <1>3, <1>7, <1>10, <1>11 DEF nU

\* Events that happen at once leave the bucket covered.
LEMMA AllowedIsCovered ==
    ASSUME ReserveOnly, ReserveInv, Covered, TypeOK', NEW c \in Callers, Grant(c),
           call[c].method = "allow", ~unsettled'
    PROVE  Covered'
<1> DEFINE nU == call[c].n * Unit
           A == Advance(now)
<1>1. /\ limit = 1 /\ limit # Inf /\ call[c].t = now /\ now \in Nat /\ nU \in Nat
      /\ Advance(now)' = A - nU /\ A >= nU /\ now' = now /\ limit' = limit /\ burst' = burst
    BY Granted DEF Grant
<1>2. level' = level - nU /\ level \in Int /\ A \in Int
    BY <1>1, AdvanceNow DEF Grant, Hold, Happen, Fill, ReserveInv, TypeOK
<1>3. \A d \in Callers :
          /\ call[d].at = "hold" <=> call'[d].at = "hold"
          /\ call[d].at = "hold" => call[d] = call'[d]
    BY DEF Grant, Hold, Return, NoCall, CallOf, ReserveInv, TypeOK
<1>4. \A T : Owed(call', T) = Owed(call, T)
    BY <1>3, OwedSame
<1>5. \A T : Owed(call, T) \in Nat /\ (T \subseteq Nat => Owed(call, T) <= Owed(call, Nat))
    <2>1. \A d \in Callers : call[d].n \in Nat
        BY DEF ReserveInv, TypeOK, Calls
    <2>. QED
        BY <2>1, OwedBounds DEF ReserveOnly
<1> HIDE DEF nU, A
<1>6. /\ level >= A + Owed(call, Nat)
      /\ \A d \in Callers : call[d].at = "hold" => call[d].act <= now \/ call[d].act <= now - A
      /\ \A s, t \in Nat :
            now < s /\ s <= t => Owed(call, s .. t) <= burst * Unit + (t - s)
    BY <1>1 DEF Covered, A
<1>7. level' >= 0 /\ level' >= A - nU /\ level' >= A - nU + Owed(call, Nat)
    BY <1>1, <1>2, <1>5, <1>6
<1>8. \A d \in Callers :
          call'[d].at = "hold" => call'[d].act <= now \/ call'[d].act <= now - (A - nU)
    <2>. SUFFICES ASSUME NEW d \in Callers, call'[d].at = "hold"
                  PROVE  call'[d].act <= now \/ call'[d].act <= now - (A - nU)
        OBVIOUS
    <2>1. call'[d].act \in Int
        BY DEF TypeOK, Calls
    <2>2. call'[d].act <= now \/ call'[d].act <= now - A
        BY <1>3, <1>6
    <2>. QED
        BY <1>1, <1>2, <2>1, <2>2
<1>9. ASSUME NEW t \in Nat, t >= now PROVE level' + (t - now) >= Owed(call, 0 .. t)
    <2>1. Owed(call, 0 .. t) \in Nat /\ Owed(call, 0 .. t) <= Owed(call, Nat) /\ Owed(call, Nat) \in Nat
        BY <1>5
    <2>. QED
        BY <1>1, <1>2, <1>6, <1>9, <2>1
<1>. QED
    BY <1>1, <1>4, <1>6, <1>7, <1>8, <1>9 DEF Covered

\* So does a reservation: it is due once the limiter's debt is repaid, after all others.
LEMMA ReservedIsCovered ==
    ASSUME ReserveOnly, ReserveInv, Covered, TypeOK', NEW c \in Callers, Grant(c),
           call[c].method # "allow"
    PROVE  Covered'
<1> DEFINE nU  == call[c].n * Unit
           A   == Advance(now)
           cap == burst * Unit
           act == now + Delay(c)
<1>1. /\ limit = 1 /\ limit # Inf /\ call[c].t = now /\ now \in Nat /\ nU \in Nat /\ nU <= cap
      /\ Delay(c) = IF A < nU THEN nU - A ELSE 0
      /\ Advance(now)' = A - nU /\ now' = now /\ limit' = limit /\ burst' = burst
      /\ level' = level /\ level \in Int
    BY Granted DEF Grant, Hold, ReserveInv, TypeOK
<1>2. A \in Int /\ A <= cap /\ cap \in Nat
    <2>1. cap \in Nat
        BY NatProduct DEF ReserveInv, TypeOK
    <2>. QED
        BY <2>1, AdvanceNow DEF ReserveInv
<1>3. /\ \A d \in Callers \ {c} : call'[d] = call[d]
      /\ call[c].at # "hold" /\ call'[c].at = "hold"
      /\ call'[c].act = act /\ call'[c].n = call[c].n
    BY <1>1 DEF Grant, Hold, ReserveInv, TypeOK, Calls
<1>4. \A d \in Callers : call[d].n \in Nat /\ call'[d].n \in Nat
    BY DEF ReserveInv, TypeOK, Calls
<1>5. \A T : /\ act \in T => Owed(call', T) = Owed(call, T) + nU
             /\ act \notin T => Owed(call', T) = Owed(call, T)
    <2>1. OneMoreHeld(call, call', c) /\ IsFiniteSet(Callers)
        BY <1>3, <1>4 DEF OneMoreHeld, ReserveOnly
    <2>2. call'[c].act = act /\ call'[c].n * Unit = nU
        BY <1>3
    <2>. QED
        BY <2>1, <2>2, OwedMore
<1>6. \A T : /\ Owed(call, T) \in Nat
             /\ T \subseteq Nat => Owed(call, T) <= Owed(call, Nat)
             /\ Held(call, T) = {} => Owed(call, T) = 0
    BY <1>4, OwedBounds DEF ReserveOnly
<1>7. \A T, V : T \subseteq V => Owed(call, T) <= Owed(call, V)
    BY <1>4, OwedBounds DEF ReserveOnly
<1>8. /\ level >= 0
      /\ level >= A + Owed(call, Nat)
      /\ \A d \in Callers : call[d].at = "hold" => call[d].act <= now \/ call[d].act <= now - A
      /\ \A t \in Nat : t >= now => level + (t - now) >= Owed(call, 0 .. t)
      /\ \A s, t \in Nat : now < s /\ s <= t => Owed(call, s .. t) <= cap + (t - s)
    BY <1>1 DEF Covered
<1>9. \A d \in Callers : call[d].act \in Int
    BY DEF ReserveInv, TypeOK, Calls
<1> HIDE DEF nU, A, cap
<1>10. act \in Nat /\ act >= now
       /\ (act > now => act = now + nU - A /\ A < nU)
       /\ act >= now + nU - A
    BY <1>1, <1>2
<1> HIDE DEF act
<1>11. level' >= A - nU + Owed(call', Nat)
    <2>1. Owed(call', Nat) = Owed(call, Nat) + nU /\ Owed(call, Nat) \in Nat
        BY <1>5, <1>6, <1>10
    <2>. QED
        BY <1>1, <1>2, <1>8, <2>1
<1>12. \A d \in Callers :
           call'[d].at = "hold" => call'[d].act <= now \/ call'[d].act <= now - (A - nU)
    <2>. SUFFICES ASSUME NEW d \in Callers, call'[d].at = "hold"
                  PROVE  call'[d].act <= now \/ call'[d].act <= now - (A - nU)
        OBVIOUS
    <2>1. CASE d = c
        BY <1>1, <1>2, <1>3, <1>10, <2>1
    <2>2. CASE d # c
        <3>1. call[d].act \in Int /\ (call[d].act <= now \/ call[d].act <= now - A)
              /\ call'[d].act = call[d].act
            BY <1>3, <1>8, <1>9, <2>2
        <3>. QED
            BY <1>1, <1>2, <3>1
    <2>. QED
        BY <2>1, <2>2
<1>13. ASSUME NEW t \in Nat, t >= now PROVE level' + (t - now) >= Owed(call', 0 .. t)
    <2>1. CASE act \in 0 .. t
        <3>1. Owed(call', 0 .. t) = Owed(call, 0 .. t) + nU
            BY <1>5, <2>1
        <3>2. /\ Owed(call, 0 .. t) \in Nat /\ Owed(call, Nat) \in Nat
              /\ Owed(call, 0 .. t) <= Owed(call, Nat)
            BY <1>6
        <3>3. t - now >= nU - A
            BY <1>1, <1>2, <1>10, <2>1
        <3>4. level + (t - now) >= Owed(call, Nat) + nU
            BY <1>1, <1>2, <1>8, <3>2, <3>3
        <3>. QED
            BY <1>1, <1>13, <3>1, <3>2, <3>4
    <2>2. CASE act \notin 0 .. t
        <3>1. Owed(call', 0 .. t) = Owed(call, 0 .. t)
            BY <1>5, <2>2
        <3>. QED
            BY <1>1, <1>8, <1>13, <3>1
    <2>. QED
        BY <2>1, <2>2
<1>14. ASSUME NEW s \in Nat, NEW t \in Nat, now < s, s <= t
       PROVE  Owed(call', s .. t) <= cap + (t - s)
    <2>1. CASE act \in s .. t
        <3>1. Owed(call', s .. t) = Owed(call, s .. t) + nU
            BY <1>5, <2>1
        <3>2. act > now /\ act = now + nU - A /\ A < nU /\ act <= t
            BY <1>1, <1>10, <1>14, <2>1
        <3>3. CASE s <= now - A
            <4>1. now - A \in Nat
                BY <1>1, <1>2, <1>14, <3>3
            <4>2. Owed(call, s .. now - A) <= cap + (now - A - s)
                BY <1>8, <1>14, <3>3, <4>1
            <4>3. Owed(call, s .. t) = Owed(call, s .. now - A)
                <5>1. Held(call, s .. t) = Held(call, s .. now - A)
                    <6>1. \A d \in Callers : call[d].at = "hold" =>
                              (call[d].act \in s .. t <=> call[d].act \in s .. now - A)
                        BY <1>1, <1>2, <1>8, <1>9, <1>14, <3>2, <4>1
                    <6>. QED
                        BY <6>1 DEF Held
                <5>. QED
                    BY <5>1 DEF Owed, Units
            <4>4. Owed(call, s .. t) \in Nat
                BY <1>6
            <4>. QED
                BY <1>1, <1>2, <1>14, <3>1, <3>2, <4>2, <4>3, <4>4
        <3>4. CASE ~(s <= now - A)
            <4>1. Held(call, s .. t) = {}
                <5>1. \A d \in Callers : call[d].at = "hold" => call[d].act \notin s .. t
                    <6>. SUFFICES ASSUME NEW d \in Callers, call[d].at = "hold"
                                  PROVE  ~(call[d].act >= s)
                        BY <1>9
                    <6>1. call[d].act \in Int /\ (call[d].act <= now \/ call[d].act <= now - A)
                        BY <1>8, <1>9
                    <6>. QED
                        BY <1>1, <1>2, <1>14, <3>4, <6>1
                <5>. QED
                    BY <5>1 DEF Held
            <4>2. Owed(call, s .. t) = 0
                BY <1>6, <4>1
            <4>. QED
                BY <1>1, <1>2, <1>14, <3>1, <4>2
        <3>. QED
            BY <3>3, <3>4
    <2>2. CASE act \notin s .. t
        <3>1. Owed(call', s .. t) = Owed(call, s .. t)
            BY <1>5, <2>2
        <3>. QED
            BY <1>8, <1>14, <3>1
    <2>. QED
        BY <2>1, <2>2
<1>15. level' >= 0 /\ level' >= A - nU
    <2>1. Owed(call, Nat) \in Nat
        BY <1>6
    <2>. QED
        BY <1>1, <1>2, <1>8, <2>1
<1>16. cap = burst' * Unit
    BY <1>1 DEF cap
<1>. QED
    BY <1>1, <1>11, <1>12, <1>13, <1>14, <1>15, <1>16 DEF Covered, A, nU

\* Whoever acts when due takes what is owed to it.
LEMMA ActIsCovered ==
    ASSUME ReserveOnly, ReserveInv, Covered, TypeOK', NEW c \in Callers, Act(c), ~unsettled
    PROVE  Covered'
<1> DEFINE nU == call[c].n * Unit
           A == Advance(now)
<1>1. /\ now' = now /\ limit' = limit /\ burst' = burst /\ A' = A /\ ~unsettled'
      /\ call[c].at = "hold" /\ call[c].act = now /\ now \in Nat
    BY DEF Act, Advance, limiter, ReserveInv, Reserving, TypeOK
<1>2. /\ \A d \in Callers \ {c} : call[d] = call'[d]
      /\ call'[c].at = "idle" /\ call[c].act = now
    BY <1>1 DEF Act, Return, NoCall, CallOf, ReserveInv, TypeOK
<1>3. A \in Int /\ level \in Int /\ nU \in Nat
    BY AdvanceNow, NatProduct DEF ReserveInv, TypeOK, Calls
<1>4. CASE limit = Inf
    <2>1. level' = level
        BY <1>1, <1>4 DEF Act, Happen, Fill
    <2>. QED
        BY <1>1, <1>4, <2>1 DEF Covered
<1>5. CASE limit # Inf
    <2>1. level' = level - nU
        BY <1>1, <1>5 DEF Act, Happen, Fill
    <2>2. \A d \in Callers : call[d].n \in Nat /\ call'[d].n \in Nat
        BY DEF ReserveInv, TypeOK, Calls
    <2>3. OneMoreHeld(call', call, c) /\ IsFiniteSet(Callers)
        BY <1>1, <1>2, <2>2 DEF OneMoreHeld, ReserveOnly
    <2>4. \A T : /\ now \in T => Owed(call, T) = Owed(call', T) + nU
                 /\ now \notin T => Owed(call, T) = Owed(call', T)
        BY <1>2, <2>3, OwedMore
    <2>5. \A T : Owed(call', T) \in Nat
        BY <2>2, <2>3, OwedBounds
    <2> HIDE DEF nU, A
    <2>6. /\ level >= A + Owed(call, Nat)
          /\ \A d \in Callers : call[d].at = "hold" => call[d].act <= now \/ call[d].act <= now - A
          /\ \A t \in Nat : t >= now => level + (t - now) >= Owed(call, 0 .. t)
          /\ \A s, t \in Nat :
                now < s /\ s <= t => Owed(call, s .. t) <= burst * Unit + (t - s)
        BY <1>5 DEF Covered, A
    <2>7. level' >= A + Owed(call', Nat) /\ level' >= A
        <3>1. Owed(call, Nat) = Owed(call', Nat) + nU /\ Owed(call', Nat) \in Nat
            BY <1>1, <2>4, <2>5
        <3>. QED
            BY <1>3, <2>1, <2>6, <3>1
    <2>8. ASSUME NEW t \in Nat, t >= now
          PROVE  level' + (t - now) >= Owed(call', 0 .. t)
        <3>1. Owed(call, 0 .. t) = Owed(call', 0 .. t) + nU /\ Owed(call', 0 .. t) \in Nat
            BY <1>1, <2>4, <2>5, <2>8
        <3>. QED
            BY <1>1, <1>3, <2>1, <2>6, <2>8, <3>1
    <2>9. level' >= 0
        <3>1. level' + (now - now) >= Owed(call', 0 .. now) /\ Owed(call', 0 .. now) \in Nat
            BY <1>1, <2>5, <2>8
        <3>. QED
            BY <1>1, <1>3, <2>1, <3>1
    <2>10. ASSUME NEW s \in Nat, NEW t \in Nat, now < s, s <= t
           PROVE  Owed(call', s .. t) <= burst * Unit + (t - s)
        <3>1. now \notin s .. t
            BY <1>1, <2>10
        <3>2. Owed(call', s .. t) = Owed(call, s .. t)
            BY <2>4, <3>1
        <3>. QED
            BY <2>6, <2>10, <3>2
    <2>11. \A d \in Callers :
               call'[d].at = "hold" => call'[d].act <= now \/ call'[d].act <= now - A
        BY <1>2, <2>6
    <2>. QED
        BY <1>1, <2>7, <2>8, <2>9, <2>10, <2>11 DEF Covered, A
<1>. QED
    BY <1>4, <1>5

\* Time brings the same into both buckets, when all that is due has happened.
LEMMA AdvanceTick ==
    ASSUME TypeOK, Tick
    PROVE  Advance(now)' = Least(burst * Unit, Advance(now) + limit)
<1> DEFINE b == tokensFromDuration(limit, now - last)
           cap == burst * Unit
<1>1. /\ now' = now + 1 /\ now \in Nat /\ last \in 0 .. now /\ limit \in Nat /\ tokens \in Int
      /\ cap \in Nat
    BY NatProduct DEF Tick, TypeOK
<1>2. Least(now, last) = last /\ Least(now', last) = last /\ now - last \in Nat
      /\ now' - last = (now - last) + 1
    BY <1>1 DEF Least
<1>3. b \in Nat /\ tokensFromDuration(limit, now' - last) = b + limit
    BY <1>1, <1>2, OneMore
<1> HIDE DEF b, cap
<1>4. Advance(now) = Least(cap, tokens + b)
    BY <1>2 DEF Advance, b, cap
<1>5. Advance(now)' = Least(cap, tokens + (b + limit))
    BY <1>2, <1>3 DEF Tick, Advance, limiter, cap
<1>. QED
    BY <1>1, <1>3, <1>4, <1>5 DEF Least, cap

LEMMA TickIsCovered ==
    ASSUME ReserveOnly, ReserveInv, Covered, TypeOK', Tick, Settled, ~unsettled
    PROVE  Covered'
<1> DEFINE A == Advance(now)
           cap == burst * Unit
<1>1. /\ now' = now + 1 /\ now \in Nat /\ limit' = limit /\ burst' = burst /\ call' = call
      /\ limit \in Nat /\ level \in Int
    BY DEF Tick, limiter, ReserveInv, TypeOK
<1>2. cap \in Nat /\ A \in Int /\ A <= cap
    <2>1. cap \in Nat
        BY NatProduct DEF ReserveInv, TypeOK
    <2>. QED
        BY <2>1, AdvanceNow DEF ReserveInv
<1>3. level' = Least(cap, level + limit)
    BY DEF Tick, Fill
<1>4. Advance(now)' = Least(cap, A + limit)
    BY AdvanceTick DEF ReserveInv
<1> HIDE DEF A, cap
<1>5. level >= 0 /\ level >= A
    BY DEF Covered, A
<1>6. level' >= 0 /\ level' >= Advance(now)'
    BY <1>1, <1>2, <1>3, <1>4, <1>5 DEF Least
<1>7. ASSUME limit # Inf
      PROVE  /\ \A c \in Callers :
                   call'[c].at = "hold" => \/ call'[c].act <= now'
                                           \/ call'[c].act <= now' - Advance(now)'
             /\ level' >= Advance(now)' + Owed(call', Nat)
             /\ \A t \in Nat : t >= now' => level' + (t - now') >= Owed(call', 0 .. t)
             /\ \A s, t \in Nat :
                   now' < s /\ s <= t => Owed(call', s .. t) <= cap + (t - s)
    <2>1. limit = 1
        BY <1>7 DEF ReserveInv
    <2>2. /\ level >= A + Owed(call, Nat)
          /\ \A d \in Callers : call[d].at = "hold" => call[d].act <= now \/ call[d].act <= now - A
          /\ \A t \in Nat : t >= now => level + (t - now) >= Owed(call, 0 .. t)
          /\ \A s, t \in Nat :
                now < s /\ s <= t => Owed(call, s .. t) <= cap + (t - s)
        BY <1>7 DEF Covered, A, cap
    <2>3. \A d \in Callers : call[d].at = "hold" => call[d].act > now /\ call[d].act \in Nat
        BY DEF Settled, ReserveInv, Reserving
    <2>4. \A T : Owed(call, T) \in Nat
        <3>1. \A d \in Callers : call[d].n \in Nat
            BY DEF ReserveInv, TypeOK, Calls
        <3>. QED
            BY <3>1, OwedBounds DEF ReserveOnly
    <2>5. \A d \in Callers : call[d].at = "hold" => call[d].act <= now - A
        <3>. SUFFICES ASSUME NEW d \in Callers, call[d].at = "hold", call[d].act <= now
                      PROVE  FALSE
            BY <2>2
        <3>1. call[d].act > now /\ call[d].act \in Nat
            BY <2>3
        <3>. QED
            BY <1>1, <3>1
    <2>6. \A T, V : Held(call, T) = Held(call, V) => Owed(call, T) = Owed(call, V)
        BY DEF Owed, Units
    <2>7. ASSUME NEW t \in Nat, t > now PROVE Owed(call, 0 .. t) <= cap + (t - (now + 1))
        <3>1. Held(call, 0 .. t) = Held(call, now + 1 .. t)
            BY <1>1, <2>3 DEF Held
        <3>2. Owed(call, now + 1 .. t) <= cap + (t - (now + 1))
            BY <1>1, <2>2, <2>7
        <3>. QED
            BY <2>6, <3>1, <3>2
    <2>8. A + 1 + Owed(call, Nat) <= cap \/ (Owed(call, Nat) = 0 /\ A <= cap)
        <3>1. CASE A < 0
            <4>1. now - A \in Nat /\ now - A > now
                BY <1>1, <1>2, <3>1
            <4>2. Held(call, Nat) = Held(call, 0 .. (now - A))
                BY <2>3, <2>5, <4>1 DEF Held
            <4>3. Owed(call, Nat) <= cap + ((now - A) - (now + 1))
                BY <2>6, <2>7, <4>1, <4>2
            <4>4. Owed(call, Nat) \in Nat
                BY <2>4
            <4>. QED
                BY <1>1, <1>2, <4>3, <4>4
        <3>2. CASE A >= 0
            <4>1. \A d \in Callers : call[d].at # "hold"
                <5>. SUFFICES ASSUME NEW d \in Callers, call[d].at = "hold" PROVE FALSE
                    OBVIOUS
                <5>1. call[d].act \in Nat /\ call[d].act > now /\ call[d].act <= now - A
                    BY <2>3, <2>5
                <5>. QED
                    BY <1>1, <1>2, <3>2, <5>1
            <4>2. Held(call, Nat) = {} /\ \A d \in Callers : call[d].n \in Nat
                BY <4>1 DEF Held, ReserveInv, TypeOK, Calls
            <4>3. Owed(call, Nat) = 0
                BY <4>2, OwedBounds DEF ReserveOnly
            <4>. QED
                BY <1>2, <4>3
        <3>. QED
            BY <1>2, <3>1, <3>2
    <2>9. level' >= Advance(now)' + Owed(call, Nat)
        <3>1. Owed(call, Nat) \in Nat
            BY <2>4
        <3>. QED
            BY <1>2, <1>1, <1>3, <1>4, <2>1, <2>2, <2>8, <3>1 DEF Least
    <2>10. ASSUME NEW t \in Nat, t >= now' PROVE level' + (t - now') >= Owed(call, 0 .. t)
        <3>1. t > now /\ t >= now
            BY <1>1, <2>10
        <3>2. /\ Owed(call, 0 .. t) <= cap + (t - (now + 1)) /\ Owed(call, 0 .. t) \in Nat
              /\ level + (t - now) >= Owed(call, 0 .. t)
            BY <2>2, <2>4, <2>7, <3>1
        <3>. QED
            BY <1>1, <1>2, <1>3, <2>1, <3>2 DEF Least
    <2>11. \A s, t \in Nat : now' < s /\ s <= t => Owed(call, s .. t) <= cap + (t - s)
        BY <1>1, <2>2
    <2>12. ASSUME NEW d \in Callers, call[d].at = "hold"
           PROVE  call[d].act <= now' \/ call[d].act <= now' - Advance(now)'
        <3>1. call[d].act <= now - A /\ call[d].act \in Nat
            BY <2>3, <2>5, <2>12
        <3>. QED
            BY <1>1, <1>2, <1>4, <2>1, <3>1 DEF Least
    <2>. QED
        BY <1>1, <2>9, <2>10, <2>11, <2>12
<1>. QED
    BY <1>1, <1>6, <1>7 DEF Covered, cap

\* A call that leaves nothing to those who hold reservations is one they are not told of.
LEMMA DisturbedIsCovered ==
    ASSUME ReserveOnly, ReserveInv, TypeOK', NEW c \in Callers, Return(c), Disturb, ~unsettled',
           Advance(now)' \in Int, level' >= 0, level' >= Advance(now)'
    PROVE  Covered'
<1>1. \A d \in Callers : call[d].at # "hold"
    BY DEF Disturb, Holding
<1>2. \A d \in Callers : call'[d].at # "hold"
    BY <1>1 DEF Return, NoCall, CallOf, ReserveInv, TypeOK
<1>. QED
    BY <1>2, QuietIsCovered

\* One step keeps what is reserved covered.
LEMMA ReserveStep ==
    ASSUME ReserveOnly, ReserveInv, [Next]_vars
    PROVE  ReserveInv'
<1> USE DEF limiter
<1>0. TypeOK /\ TypeOK' /\ now \in Nat /\ limit \in {1, Inf}
    <2>1. TypeOK
        BY DEF ReserveInv
    <2>. QED
        BY <2>1, TypeStep DEF ReserveInv, TypeOK
<1>1. methods \cap {"wait", "cancel"} = {} /\ methods \notin Late
    BY <1>0 DEF ReserveOnly, TypeOK
<1>2. burst * Unit \in Nat /\ level \in Int /\ Advance(now) \in Int
      /\ Advance(now) <= burst * Unit
    BY <1>0, NatProduct, AdvanceNow DEF TypeOK
\* Calls that are made, and those a limiter without a limit lets pass.
<1>3. ASSUME NEW c \in Callers, Reserving(c)', UNCHANGED <<now, limiter, level, unsettled, waited>>,
             \A d \in Callers \ {c} : call'[d] = call[d],
             call[c].at # "hold", limit = Inf \/ call'[c].at # "hold"
      PROVE  ReserveInv'
    <2>1. \A d \in Callers : Reserving(d)'
        BY <1>3, OthersReserving
    <2>2. ASSUME Covered PROVE Covered'
        <3>1. CASE limit = Inf
            <4>1. Advance(now)' = Advance(now)
                BY <1>3 DEF Advance
            <4>. QED
                BY <1>3, <2>2, <3>1, <4>1 DEF Covered
        <3>2. CASE call'[c].at # "hold"
            <4>1. \A d \in Callers : /\ call[d].at = "hold" <=> call'[d].at = "hold"
                                     /\ call[d].at = "hold" => call[d] = call'[d]
                BY <1>3, <3>2
            <4>. QED
                BY <1>0, <1>3, <2>2, <4>1, SameIsCovered
        <3>. QED
            BY <1>3, <3>1, <3>2
    <2>. QED
        BY <1>0, <1>3, <2>1, <2>2 DEF ReserveInv
<1>4. ASSUME NEW c \in Callers, NEW n \in Sizes, Allow(c, n) \/ Reserve(c, n)
      PROVE  ReserveInv'
    <2>1. PICK method \in {"allow", "reserve"}, wait \in Nat :
              /\ call' = [call EXCEPT ![c] = CallOf("reserve", method, n, now, wait)]
              /\ method = "allow" => wait = 0
              /\ call[c].at = "idle"
              /\ UNCHANGED <<now, limiter, level, unsettled, waited>>
        BY <1>4 DEF Allow, Reserve, Start
    <2>2. call'[c] = CallOf("reserve", method, n, now, wait)
        BY <1>0, <2>1 DEF TypeOK
    <2>3. call'[c].at = "reserve" /\ call'[c].t = now /\ call'[c].method = method
          /\ call'[c].wait = wait
        BY <2>2 DEF CallOf
    <2>4. Reserving(c)'
        BY <2>1, <2>3 DEF Reserving
    <2>5. \A d \in Callers \ {c} : call'[d] = call[d]
        BY <1>0, <2>1 DEF TypeOK
    <2>. QED
        BY <1>3, <2>1, <2>3, <2>4, <2>5
<1>5. ASSUME NEW c \in Callers,
             \/ \E value \in Limits : SetStart(c, "setlimit", value)
             \/ \E value \in Bursts : SetStart(c, "setburst", value)
      PROVE  ReserveInv'
    <2>1. PICK method \in {"setlimit", "setburst"}, value \in Nat :
              /\ call' = [call EXCEPT ![c] = CallOf(method, "allow", value, now, 0)]
              /\ method = "setlimit" => value \in {1, Inf}
              /\ call[c].at = "idle"
              /\ UNCHANGED <<now, limiter, level, unsettled, waited>>
        BY <1>5 DEF SetStart, ReserveOnly
    <2>2. call'[c] = CallOf(method, "allow", value, now, 0)
        BY <1>0, <2>1 DEF TypeOK
    <2>3. call'[c].at = method /\ call'[c].t = now /\ call'[c].n = value
        BY <2>2 DEF CallOf
    <2>4. Reserving(c)'
        BY <2>1, <2>3 DEF Reserving
    <2>5. \A d \in Callers \ {c} : call'[d] = call[d]
        BY <1>0, <2>1 DEF TypeOK
    <2>. QED
        BY <1>3, <2>1, <2>3, <2>4, <2>5
<1>6. ASSUME NEW c \in Callers, GrantInf(c)
      PROVE  ReserveInv'
    <2>1. /\ call[c].at = "reserve" /\ limit = Inf /\ call[c].t = now
          /\ UNCHANGED <<now, limiter, unsettled, waited>>
        BY <1>6 DEF GrantInf, ReserveInv, Reserving
    <2>2. CASE call[c].method = "allow"
        <3>1. Return(c)
            BY <1>6, <2>2 DEF GrantInf, Hold
        <3>2. CASE unsettled
            <4>1. \A d \in Callers : Reserving(d)'
                <5>1. Reserving(c)' /\ \A d \in Callers \ {c} : call'[d] = call[d]
                    BY <1>0, <3>1 DEF Return, NoCall, CallOf, Reserving, TypeOK
                <5>. QED
                    BY <2>1, <5>1, OthersReserving
            <4>. QED
                BY <1>0, <2>1, <3>2, <4>1 DEF ReserveInv
        <3>3. CASE ~unsettled
            <4>1. level' = level
                BY <1>6, <2>1, <2>2, <3>3 DEF GrantInf, Hold, Happen, Fill
            <4>2. Reserving(c)' /\ \A d \in Callers \ {c} : call'[d] = call[d]
                BY <1>0, <3>1 DEF Return, NoCall, CallOf, Reserving, TypeOK
            <4>. QED
                BY <1>3, <2>1, <4>1, <4>2
        <3>. QED
            BY <3>2, <3>3
    <2>3. CASE call[c].method # "allow"
        <3>1. /\ level' = level
              /\ \A d \in Callers \ {c} : call'[d] = call[d]
              /\ call'[c].at = "hold" /\ call'[c].act = call[c].t
              /\ call'[c].method = call[c].method
            BY <1>0, <1>6, <2>3 DEF GrantInf, Hold, TypeOK, Calls
        <3>2. Reserving(c)'
            <4>1. call[c].method = "reserve"
                BY <2>1, <2>3 DEF ReserveInv, Reserving
            <4>. QED
                BY <1>0, <2>1, <3>1, <4>1 DEF Reserving
        <3>. QED
            BY <1>3, <2>1, <3>1, <3>2
    <2>. QED
        BY <2>2, <2>3
<1>7. ASSUME NEW c \in Callers, Grant(c)
      PROVE  ReserveInv'
    <2>1. /\ limit = 1 /\ limit # Inf /\ call[c].t = now /\ now' = now /\ limit' = limit
          /\ TakesPast(c, limit')
        BY <1>0, <1>7, Granted DEF Grant
    <2>2. waited' = 0
        BY <1>0, <2>1, NothingPast
    <2>3. \A d \in Callers : Reserving(d)'
        <3>1. \A d \in Callers \ {c} : call'[d] = call[d]
            BY <1>0, <1>7 DEF Grant, Hold, Return, TypeOK
        <3>2. CASE call[c].method = "allow"
            <4>1. call'[c].at = "idle"
                BY <1>0, <1>7, <3>2 DEF Grant, Hold, Return, NoCall, CallOf, TypeOK
            <4>. QED
                BY <2>1, <3>1, <4>1, OthersReserving DEF Reserving
        <3>3. CASE call[c].method # "allow"
            <4>1. /\ call'[c].at = "hold" /\ call'[c].act = now + Delay(c)
                  /\ call'[c].method = "reserve"
                BY <1>0, <1>7, <2>1, <3>3
                DEF Grant, Hold, TypeOK, Calls, ReserveInv, Reserving
            <4>2. Delay(c) \in Nat
                <5>1. call[c].n * Unit \in Nat
                    BY <1>0, NatProduct DEF TypeOK, Calls
                <5>. QED
                    BY <1>0, <1>2, <1>7, <5>1, Granted
            <4>3. call'[c].act \in Nat /\ call'[c].act >= now'
                BY <1>0, <2>1, <4>1, <4>2
            <4>. QED
                BY <2>1, <3>1, <4>1, <4>3, OthersReserving DEF Reserving
        <3>. QED
            BY <3>2, <3>3
    <2>4. ~unsettled' => Covered'
        <3>. SUFFICES ASSUME ~unsettled' PROVE Covered'
            OBVIOUS
        <3>1. Covered
            BY <1>7 DEF Grant, Overtake, ReserveInv
        <3>. QED
            BY <1>0, <1>7, <3>1, AllowedIsCovered, ReservedIsCovered
    <2>. QED
        BY <1>0, <2>1, <2>2, <2>3, <2>4 DEF ReserveInv
\* A denial, and a new limit or burst.
<1>8. ASSUME NEW c \in Callers, Return(c), Disturb, TakesPast(c, limit'), call[c].t = now,
             now' = now, limit' \in {1, Inf},
             Covered /\ ~unsettled' =>
                 Advance(now)' \in Int /\ level' >= 0 /\ level' >= Advance(now)'
      PROVE  ReserveInv'
    <2>1. Reserving(c)' /\ \A d \in Callers \ {c} : call'[d] = call[d]
        BY <1>0, <1>8 DEF Return, NoCall, CallOf, Reserving, TypeOK
    <2>2. \A d \in Callers : Reserving(d)'
        BY <1>8, <2>1, OthersReserving
    <2>3. waited' = 0
        BY <1>0, <1>8, NothingPast
    <2>4. ~unsettled' => Covered'
        <3>. SUFFICES ASSUME ~unsettled' PROVE Covered'
            OBVIOUS
        <3>1. Covered
            BY <1>8 DEF Disturb, ReserveInv
        <3>. QED
            BY <1>0, <1>8, <3>1, DisturbedIsCovered
    <2>. QED
        BY <1>0, <1>8, <2>2, <2>3, <2>4 DEF ReserveInv
<1>9. ASSUME NEW c \in Callers, Deny(c)
      PROVE  ReserveInv'
    <2>1. /\ call[c].t = now /\ now' = now /\ last' = now /\ tokens' = 0 /\ limit' = limit
          /\ burst' = burst /\ Return(c) /\ Disturb /\ TakesPast(c, limit')
        BY <1>9 DEF Deny, ReserveInv, Reserving
    <2>2. Advance(now)' = 0
        <3>1. Advance(now)' = Least(burst' * Unit, 0)
            BY <1>0, <2>1, AdvanceTaken
        <3>. QED
            BY <1>2, <2>1, <3>1 DEF Least
    <2>3. Covered /\ ~unsettled' => level' = 0
        BY <1>2, <1>9 DEF Deny, Fill, Least, Covered
    <2>. QED
        BY <1>0, <1>8, <2>1, <2>2, <2>3
<1>10. ASSUME NEW c \in Callers, SetLimitAt(c) \/ SetBurstAt(c)
       PROVE  ReserveInv'
    <2>1. /\ call[c].t = now /\ now' = now /\ last' = now /\ tokens' = Advance(now)
          /\ Return(c) /\ Disturb /\ TakesPast(c, limit') /\ limit' \in {1, Inf}
        BY <1>0, <1>10 DEF SetLimitAt, SetBurstAt, Update, ReserveInv, Reserving
    <2>2. Advance(now)' = Least(burst' * Unit, Advance(now)) /\ burst' * Unit \in Nat
        <3>1. burst' * Unit \in Nat
            BY <1>0, NatProduct DEF TypeOK
        <3>. QED
            BY <1>0, <1>2, <2>1, <3>1, AdvanceTaken
    <2>3. \/ burst' = burst /\ (~unsettled' => level' = level)
          \/ ~unsettled' => level' = Least(burst' * Unit, level)
        BY <1>10 DEF SetLimitAt, SetBurstAt, Fill
    <2>4. Covered => level >= 0 /\ level >= Advance(now)
        BY DEF Covered
    <2>5. Covered /\ ~unsettled' =>
              Advance(now)' \in Int /\ level' >= 0 /\ level' >= Advance(now)'
        BY <1>2, <2>2, <2>3, <2>4 DEF Least
    <2>. QED
        BY <1>8, <2>1, <2>5
<1>11. ASSUME NEW c \in Callers, Act(c)
       PROVE  ReserveInv'
    <2>1. Reserving(c)' /\ \A d \in Callers \ {c} : call'[d] = call[d]
        BY <1>0, <1>11 DEF Act, Return, NoCall, CallOf, Reserving, TypeOK
    <2>2. now' = now /\ limit' = limit /\ waited' = waited /\ unsettled' = unsettled
        BY <1>11 DEF Act
    <2>3. \A d \in Callers : Reserving(d)'
        BY <2>1, <2>2, OthersReserving
    <2>4. ~unsettled => Covered'
        BY <1>0, <1>11, ActIsCovered DEF ReserveInv
    <2>. QED
        BY <1>0, <2>2, <2>3, <2>4 DEF ReserveInv
<1>12. CASE Tick
    <2>1. Settled /\ now' = now + 1 /\ call' = call /\ limit' = limit /\ unsettled' = unsettled
        BY <1>1, <1>12 DEF Tick
    <2>2. \A d \in Callers : Reserving(d)'
        <3>. SUFFICES ASSUME NEW d \in Callers PROVE Reserving(d)'
            OBVIOUS
        <3>1. \/ call[d].at = "idle"
              \/ /\ call[d].at = "hold" /\ call[d].method = "reserve"
                 /\ call[d].act \in Nat /\ call[d].act > now
            BY <2>1 DEF Settled, ReserveInv, Reserving
        <3>2. call[d].act \in Nat /\ call[d].act > now => call[d].act >= now + 1
            BY <1>0
        <3>. QED
            BY <2>1, <3>1, <3>2 DEF Reserving
    <2>3. waited' = 0
        BY <1>12 DEF Tick, ReserveInv
    <2>4. ~unsettled => Covered'
        BY <1>0, <1>12, <2>1, TickIsCovered DEF ReserveInv
    <2>. QED
        BY <1>0, <2>1, <2>2, <2>3, <2>4 DEF ReserveInv
<1>13. CASE UNCHANGED vars
    <2>1. \A d \in Callers : Reserving(d)'
        BY <1>13 DEF vars, ReserveInv, Reserving
    <2>2. Covered => Covered'
        BY <1>0, <1>13, SameIsCovered DEF vars
    <2>. QED
        BY <1>0, <1>13, <2>1, <2>2 DEF vars, ReserveInv
<1>14. ASSUME NEW c \in Callers
       PROVE  /\ ~(Check(c) \/ CancelNothing(c) \/ CancelAt(c))
              /\ \A n \in Sizes, wait \in Waits : ~Wait(c, n, wait)
    BY <1>1 DEF ReserveInv, Reserving, Wait, Check, CancelNothing, CancelAt
<1>15. ASSUME NEW c \in Callers, Cancel(c)
       PROVE  FALSE
    BY <1>1, <1>15 DEF Cancel, ReserveInv, Reserving
<1>. QED
    BY <1>4, <1>5, <1>6, <1>7, <1>9, <1>10, <1>11, <1>12, <1>13, <1>14, <1>15
    DEF Next, Locked

\* The inductive invariant holds of every state of this use.
LEMMA ReserveAlways ==
    ASSUME ReserveOnly PROVE Spec => []ReserveInv
<1>1. Init => ReserveInv
    <2>. SUFFICES ASSUME Init PROVE ReserveInv
        OBVIOUS
    <2>1. TypeOK
        BY TypeInit
    <2>2. \A c \in Callers : call[c].at = "idle" /\ call[c].n = 0
        BY DEF Init, NoCall, CallOf
    <2>3. /\ level = burst * Unit /\ level \in Nat /\ now = 0 /\ waited = 0
          /\ Advance(now) \in Int /\ Advance(now) <= burst * Unit
        BY <2>1, NatProduct, AdvanceNow DEF Init
    <2>4. \A T : Owed(call, T) = 0
        <3>1. \A T : Held(call, T) = {}
            BY <2>2 DEF Held
        <3>. QED
            BY <2>2, <3>1, OwedBounds DEF ReserveOnly
    <2>5. Covered
        BY <2>2, <2>3, <2>4 DEF Covered
    <2>6. \A c \in Callers : Reserving(c)
        BY <2>2 DEF Reserving
    <2>. QED
        BY <2>1, <2>3, <2>5, <2>6 DEF Init, ReserveInv, ReserveOnly
<1>. QED
    BY <1>1, ReserveStep, PTL DEF Spec

\* Any number of callers may also reserve tokens ahead, sleep and act when due: every
\* event still finds its tokens in the bucket of the documentation (rate.go:34), unless a
\* denial or a new limit falls on reservations that are held.
THEOREM ReservationsAreKept ==
    ASSUME ReserveOnly PROVE Spec => []RateRespected
<1>1. ReserveInv => RateRespected
    BY DEF ReserveInv, Covered, RateRespected, TypeOK
<1>. QED
    BY <1>1, ReserveAlways, PTL

\* Reservations are due in the order in which they are granted, as long as none is
\* cancelled: lastEvent is the latest of those held, as CancelAt takes it to be.
OrderKept == [][\A c \in Callers : Grant(c) => unsettled' = unsettled]_vars

THEOREM NoneIsOvertaken ==
    ASSUME ReserveOnly PROVE Spec => OrderKept
<1>1. ASSUME ReserveInv, [Next]_vars
      PROVE  [\A c \in Callers : Grant(c) => unsettled' = unsettled]_vars
    <2>. SUFFICES ASSUME NEW c \in Callers, Grant(c) PROVE unsettled' = unsettled
        OBVIOUS
    <2>a. CASE unsettled
        <3>1. unsettled = TRUE
            BY <1>1, <2>a DEF ReserveInv, TypeOK
        <3>. QED
            BY <3>1 DEF Grant, Overtake
    <2>b. CASE ~unsettled
        <3>0. TypeOK' /\ Covered
            BY <1>1, <2>b, TypeStep DEF ReserveInv
        <3> DEFINE nU == call[c].n * Unit
                   A == Advance(now)
        <3>1. /\ limit # Inf /\ call[c].t = now /\ now \in Nat /\ nU \in Nat /\ A \in Int
              /\ Delay(c) = IF A < nU THEN nU - A ELSE 0
            BY <1>1, <3>0, Granted, AdvanceNow DEF ReserveInv
        <3>2. lastEvent' = now + Delay(c)
            BY <3>1 DEF Grant
        <3> HIDE DEF nU, A
        <3>3. ASSUME NEW d \in Callers, call[d].at = "hold" PROVE ~(call[d].act > lastEvent')
            <4>1. call[d].act \in Int /\ (call[d].act <= now \/ call[d].act <= now - A)
                BY <1>1, <3>0, <3>1, <3>3 DEF Covered, ReserveInv, TypeOK, Calls, A
            <4>. QED
                BY <3>1, <3>2, <4>1
        <3>4. \A d \in Callers : call[d].at # "cancel"
            BY <1>1 DEF ReserveInv, Reserving
        <3>5. ~\E d \in Holding \ {c} : call[d].act > lastEvent'
            BY <3>3, <3>4 DEF Holding
        <3>6. unsettled = FALSE
            BY <1>1, <2>b DEF ReserveInv, TypeOK
        <3>. QED
            BY <3>5, <3>6 DEF Grant, Overtake
    <2>. QED
        BY <2>a, <2>b
<1>. QED
    BY <1>1, ReserveAlways, PTL DEF OrderKept, Spec

=============================================================================
