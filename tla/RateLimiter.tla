----------------------------- MODULE RateLimiter -----------------------------
(***************************************************************************)
(* internal/rate: a token bucket that punishes the calls it denies.  The   *)
(* limiter's state is behind one mutex, but a caller reads the clock       *)
(* before it takes the lock: a call is therefore a step that reads the     *)
(* clock and a step under the lock, and time may pass between the two.     *)
(*                                                                         *)
(* Tokens are counted in units, Unit of them to a token, and a limit is    *)
(* the units that come in per unit of time, so that every number is whole. *)
(* level is a history variable: the bucket that the documentation promises,*)
(* refilled by the time that really passes and emptied by every denial.    *)
(***************************************************************************)
EXTENDS Integers

CONSTANTS
    Callers,        \* goroutines that use the limiter, one call at a time
    Usages,         \* sets of methods that one limiter's callers may use
    Sizes,          \* how many events a call may ask for
    Unit,           \* units of a token
    Interval,       \* the interval and the burst the limiter is made with
    Burst,
    Limits,         \* what SetLimit and SetBurst may be given
    Bursts,
    Waits,          \* how far away the deadline of a context may be
    Inf,            \* the infinite limit: a unit of time fills any bucket
    InfDuration,    \* the longest duration
    Late,           \* usages whose callers may be kept waiting; in the others calls
                    \* take no time and events happen when due
    MaxTime,        \* bounds: the last moment, ...
    MaxDebt         \* ... and how far below zero the tokens may be when a
                    \* reservation is asked for

ASSUME RateLimiterAssumption ==
    /\ Usages \subseteq SUBSET {"allow", "reserve", "wait", "cancel", "setlimit", "setburst"}
    /\ Sizes \subseteq Nat /\ Limits \subseteq Nat /\ Bursts \subseteq Nat
    /\ Waits \subseteq Nat
    /\ Unit \in Nat /\ Interval \in Nat /\ Burst \in Nat
    /\ Inf \in Nat /\ InfDuration \in Nat \ {0}
    /\ MaxTime \in Nat /\ MaxDebt \in Nat
    /\ Late \subseteq Usages

VARIABLES
    now,        \* the clock
    limit, burst, tokens, last, lastEvent,  \* the Limiter
    methods,    \* the methods this limiter's callers use
    call,       \* call[c]: the call of c, with what it was given and got
    unsettled,  \* history: a denial or a new limit fell on a held reservation, or the
                \* latest event is earlier than one still to happen
    level,      \* history: units in the promised bucket, until unsettled
    waited      \* history: units that came in while calls waited for the lock, since
                \* the promised bucket was last full

limiter == <<limit, burst, tokens, last, lastEvent>>
vars == <<now, methods, limiter, call, unsettled, level, waited>>

-----------------------------------------------------------------------------
Least(a, b) == IF a <= b THEN a ELSE b

Every(interval) == IF interval <= 0 THEN Inf ELSE Unit \div interval

\* What a limit makes of a duration, and how long it takes to make some units.
tokensFromDuration(lim, d) == IF lim <= 0 THEN 0 ELSE d * lim

durationFromTokens(lim, units) ==
    IF lim <= 0 THEN InfDuration
    ELSE IF units < 0 THEN -((-units) \div lim) ELSE units \div lim

\* A call: where it is, the method, the events, the time it read, how long it
\* accepts to wait; and of a reservation, timeToAct and the limit it was made at.
CallOf(at, method, n, t, wait) ==
    [at |-> at, method |-> method, n |-> n, t |-> t, wait |-> wait,
     act |-> 0, limit |-> 0]

NoCall == CallOf("idle", "allow", 0, 0, 0)

\* Calls that may have been made up to a time.
Calls(time) ==
    [at : {"idle", "check", "reserve", "hold", "cancel", "setlimit", "setburst"},
     method : {"allow", "reserve", "wait"}, n : Nat, t : 0 .. time,
     wait : Nat, act : Int, limit : Nat]

Holding == {c \in Callers : call[c].at \in {"hold", "cancel"}}

Init ==
    /\ now = 0
    /\ limit = Every(Interval)
    /\ burst = Burst
    /\ tokens = Burst * Unit
    /\ last = 0
    /\ lastEvent = 0
    /\ methods \in Usages
    /\ call = [c \in Callers |-> NoCall]
    /\ unsettled = FALSE
    /\ level = Burst * Unit
    /\ waited = 0

\* Mutant: only whole tokens come in, and the rest of the time is lost.
AdvanceWhole(t) ==
    Least(burst * Unit,
          tokens + Unit * (tokensFromDuration(limit, t - Least(t, last)) \div Unit))

\* advance: the tokens there would be at t.
Advance(t) ==
    Least(burst * Unit, tokens + tokensFromDuration(limit, t - Least(t, last)))

\* The call of c goes on to a place, or is over.
Goto(c, place) == call' = [call EXCEPT ![c].at = place]
Return(c) == call' = [call EXCEPT ![c] = NoCall]

\* The promised bucket is filled to a level; an unsettled one is not followed.
Fill(units) == level' = IF unsettled' THEN 0 ELSE units

\* Events happen: their units leave the promised bucket.
Happen(n) == Fill(IF limit = Inf THEN level ELSE level - n * Unit)

\* Whoever holds a reservation is not told of what is done to the limiter.
Disturb == unsettled' = (unsettled \/ Holding # {})

\* Nor is it when the latest event becomes one before its own, from which CancelAt
\* would take that nothing was reserved since, and less than nothing.
Overtake(c) == unsettled' = (unsettled \/ \E d \in Holding \ {c} : call[d].act > lastEvent')

\* The call of c is under the lock only now, and takes its time for the present one.
TakesPast(c, lim) == waited' = waited + tokensFromDuration(lim, now - call[c].t)

-----------------------------------------------------------------------------
\* Allow, Reserve and Wait read the clock.
Start(c, method, n, wait) ==
    /\ call[c].at = "idle"
    /\ method # "allow" => tokens >= -MaxDebt
    /\ call' = [call EXCEPT ![c] = CallOf(
            IF method = "wait" THEN "check" ELSE "reserve", method, n, now, wait)]
    /\ UNCHANGED <<now, methods, limiter, level, unsettled, waited>>

Allow(c, n) == "allow" \in methods /\ Start(c, "allow", n, 0)
Reserve(c, n) == "reserve" \in methods /\ Start(c, "reserve", n, InfDuration)
Wait(c, n, wait) == "wait" \in methods /\ Start(c, "wait", n, wait)

\* wait reads burst and limit under a lock of its own; it gives up when the
\* burst is too small, or when the context is over already.
Check(c) ==
    /\ call[c].at = "check"
    /\ \/ (call[c].n <= burst \/ limit = Inf) /\ Goto(c, "reserve")
       \/ Return(c)
    /\ UNCHANGED <<now, methods, limiter, level, unsettled, waited>>

-----------------------------------------------------------------------------
\* reserveN.  Asked(c): what would be left; Delay(c): how long until it is repaid.
Asked(c) == Advance(call[c].t) - call[c].n * Unit

Delay(c) == IF Asked(c) < 0 THEN durationFromTokens(limit, -Asked(c)) ELSE 0

Fits(c) == call[c].n <= burst /\ Delay(c) <= call[c].wait

\* What a reservation becomes: Allow's events happen at once.
Hold(c, act, lim) ==
    IF call[c].method = "allow"
    THEN Return(c) /\ Happen(call[c].n)
    ELSE /\ call' = [call EXCEPT ![c].at = "hold", ![c].act = act, ![c].limit = lim]
         /\ UNCHANGED level

\* No limit: the limiter is left alone, and the reservation has no limit.
GrantInf(c) ==
    /\ call[c].at = "reserve"
    /\ limit = Inf
    /\ UNCHANGED <<now, methods, limiter, unsettled, waited>>
    /\ Hold(c, call[c].t, 0)

\* Mutant: the limiter's clock is set to when the events will happen.
GrantAhead(c) ==
    /\ call[c].at = "reserve"
    /\ limit # Inf
    /\ Fits(c)
    /\ tokens' = Asked(c)
    /\ last' = call[c].t + Delay(c)
    /\ lastEvent' = call[c].t + Delay(c)
    /\ Overtake(c)
    /\ TakesPast(c, limit)
    /\ UNCHANGED <<now, methods, limit, burst>>
    /\ Hold(c, call[c].t + Delay(c), limit)

Grant(c) ==
    /\ call[c].at = "reserve"
    /\ limit # Inf
    /\ Fits(c)
    /\ tokens' = Asked(c)
    /\ last' = call[c].t
    /\ lastEvent' = call[c].t + Delay(c)
    /\ Overtake(c)
    /\ TakesPast(c, limit)
    /\ UNCHANGED <<now, methods, limit, burst>>
    /\ Hold(c, call[c].t + Delay(c), limit)

\* Mutant: a denied call goes unpunished, as in the package this one is from.
DenyOnly(c) ==
    /\ call[c].at = "reserve"
    /\ limit # Inf
    /\ ~Fits(c)
    /\ Disturb
    /\ Fill(Least(level, 0))
    /\ Return(c)
    /\ UNCHANGED <<now, methods, limiter, waited>>

\* The penalty: a denied call leaves the bucket empty, of debts as of tokens.
Deny(c) ==
    /\ call[c].at = "reserve"
    /\ limit # Inf
    /\ ~Fits(c)
    /\ tokens' = 0
    /\ last' = call[c].t
    /\ lastEvent' = call[c].t + Delay(c)
    /\ Disturb
    /\ TakesPast(c, limit)
    /\ Fill(Least(level, 0))
    /\ Return(c)
    /\ UNCHANGED <<now, methods, limit, burst>>

-----------------------------------------------------------------------------
\* The holder of a reservation waits until timeToAct, and acts.
Act(c) ==
    /\ call[c].at = "hold"
    /\ call[c].act <= now
    /\ UNCHANGED <<now, methods, limiter, unsettled, waited>>
    /\ Happen(call[c].n)
    /\ Return(c)

\* Or it cancels: Cancel reads the clock.  Wait does so when its context ends, unless
\* it did not have to wait at all.
Cancel(c) ==
    /\ call[c].at = "hold"
    /\ \/ call[c].method = "reserve" /\ "cancel" \in methods
       \/ call[c].method = "wait" /\ call[c].act > call[c].t
    /\ call' = [call EXCEPT ![c].at = "cancel", ![c].t = now]
    /\ UNCHANGED <<now, methods, limiter, level, unsettled, waited>>

\* CancelAt.  What was reserved after it, by lastEvent, is not given back.
Restore(c) == call[c].n * Unit - tokensFromDuration(call[c].limit, lastEvent - call[c].act)

GivesBack(c) ==
    /\ limit # Inf
    /\ call[c].n # 0
    /\ call[c].act >= call[c].t
    /\ Restore(c) > 0

PreviousEvent(c) == call[c].act + durationFromTokens(call[c].limit, -(call[c].n * Unit))

CancelNothing(c) ==
    /\ call[c].at = "cancel"
    /\ ~GivesBack(c)
    /\ Return(c)
    /\ UNCHANGED <<now, methods, limiter, level, unsettled, waited>>

CancelAt(c) ==
    /\ call[c].at = "cancel"
    /\ GivesBack(c)
    /\ tokens' = Least(burst * Unit, Advance(call[c].t) + Restore(c))
    /\ last' = call[c].t
    /\ lastEvent' = IF call[c].act = lastEvent /\ PreviousEvent(c) >= call[c].t
                    THEN PreviousEvent(c) ELSE lastEvent
    /\ Overtake(c)
    /\ TakesPast(c, limit)
    /\ Return(c)
    /\ UNCHANGED <<now, methods, limit, burst>>
    /\ Fill(level)

-----------------------------------------------------------------------------
\* SetLimit and SetBurst, also after the clock was read.
SetStart(c, method, value) ==
    /\ call[c].at = "idle"
    /\ method \in methods
    /\ call' = [call EXCEPT ![c] = CallOf(method, "allow", value, now, 0)]
    /\ UNCHANGED <<now, methods, limiter, level, unsettled, waited>>

Update(c) ==
    /\ last' = call[c].t
    /\ tokens' = Advance(call[c].t)
    /\ Disturb
    /\ Return(c)
    /\ UNCHANGED <<now, methods, lastEvent>>

SetLimitAt(c) ==
    /\ call[c].at = "setlimit"
    /\ Update(c)
    /\ limit' = call[c].n
    /\ TakesPast(c, limit')
    /\ Fill(level)
    /\ UNCHANGED burst

SetBurstAt(c) ==
    /\ call[c].at = "setburst"
    /\ Update(c)
    /\ burst' = call[c].n
    /\ TakesPast(c, limit)
    /\ Fill(Least(burst' * Unit, level))
    /\ UNCHANGED limit

-----------------------------------------------------------------------------
\* Everybody is done with what there is to do now.
Settled ==
    \A c \in Callers :
        \/ call[c].at = "idle"
        \/ call[c].at = "hold" /\ call[c].act > now

Tick ==
    /\ now < MaxTime
    /\ methods \in Late \/ Settled
    /\ now' = now + 1
    /\ UNCHANGED <<methods, limiter, call, unsettled>>
    /\ Fill(Least(burst * Unit, level + limit))
    /\ waited' = IF level' = burst * Unit THEN 0 ELSE waited

Locked(c) ==
    \/ Check(c) \/ GrantInf(c) \/ Grant(c) \/ Deny(c)
    \/ CancelNothing(c) \/ CancelAt(c)
    \/ SetLimitAt(c) \/ SetBurstAt(c)

Next ==
    \/ \E c \in Callers :
        \/ \E n \in Sizes :
            \/ Allow(c, n)
            \/ Reserve(c, n)
            \/ \E wait \in Waits : Wait(c, n, wait)
        \/ \E value \in Limits : SetStart(c, "setlimit", value)
        \/ \E value \in Bursts : SetStart(c, "setburst", value)
        \/ Act(c)
        \/ Cancel(c)
        \/ Locked(c)
    \/ Tick

Spec == Init /\ [][Next]_vars

-----------------------------------------------------------------------------
\* Properties.

\* Types; the limiter's clock and the calls' are moments that have been.
TypeOK ==
    /\ now \in 0 .. MaxTime
    /\ limit \in Nat
    /\ burst \in Nat
    /\ tokens \in Int
    /\ last \in 0 .. now
    /\ lastEvent \in Int
    /\ call \in [Callers -> Calls(now)]
    /\ methods \in Usages
    /\ unsettled \in BOOLEAN
    /\ level \in Int
    /\ waited \in Nat

\* "A token bucket of size b, initially full and refilled at rate r" (rate.go:34): an
\* event that happens finds its tokens there, although every denied call empties the
\* bucket.  Callers read the clock before they wait for the lock, so that a late one
\* sets the limiter's clock back and the same time refills it twice: the bucket is
\* overdrawn by what came in during such waits, and by no more.  Nothing is promised of
\* reservations on which a denial or SetLimit falls, nor of those that are overtaken.
RateRespected == unsettled \/ level >= -waited

\* And nobody is denied tokens that are there: where events are only allowed or
\* dropped, and no call is late, a denied call asked for more than the promised bucket holds.
DeniedOnlyWhenShort ==
    [][methods \cap {"reserve", "wait"} = {} /\ methods \notin Late =>
        \A c \in Callers :
            Deny(c) => call[c].n > burst \/ level < call[c].n * Unit]_vars

=============================================================================
