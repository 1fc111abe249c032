------------------------------- MODULE MapExp -------------------------------
(***************************************************************************)
(* internal/mapexp: a map whose items expire.  The items and the queue of  *)
(* expirations are behind two mutexes that are never held together, so Set *)
(* and Get are two steps each, and the purging goroutine's round is three: *)
(* receive a tick, purge the queue, delete from the items.                 *)
(*                                                                         *)
(* Time is relative: an entry of the queue carries what is left of its     *)
(* time to live, the ticker what is left of its period, which is the same  *)
(* TTL.  Nothing therefore grows with time.  Values are left out: which    *)
(* keys are present, and for how long, is all the map decides.             *)
(***************************************************************************)
EXTENDS Naturals, Sequences

CONSTANTS
    Keys,
    Callers,    \* goroutines that use the map, one call at a time
    TTL         \* the time to live, in units of time

ASSUME MapExpAssumption == TTL \in Nat \ {0}

VARIABLES
    items,      \* keys present in the map
    queue,      \* expirationQueue: entries [key, left], left = 0 once expired
    pc,         \* pc[c]: "idle", or the queue operation c's call ends with
    arg,        \* arg[c]: the key of c's call
    timer,      \* time left until the ticker's next tick
    fired,      \* a tick waits in the ticker's channel, which holds one
    purger,     \* where the purging goroutine is: "select", "purge" or "delete"
    expiredKeys,\* what purge returned and the goroutine has not deleted yet
    age,        \* history: age[k], time since k was set or renewed, up to MaxAge
    late        \* history: time has passed during a call or before a purge was over

vars == <<items, queue, pc, arg, timer, fired, purger, expiredKeys, age, late>>

-----------------------------------------------------------------------------
\* Ages beyond twice the TTL are all alike.
MaxAge == 2 * TTL

\* expirationQueueItem: the key, and what is left until its expiration.
QueueEntries == [key : Keys, left : 0 .. TTL]

Entry(k) == [key |-> k, left |-> TTL]

Queued(k) == \E i \in 1 .. Len(queue) : queue[i].key = k

\* The entry the loops of add and renew stop at.
First(i, k) ==
    /\ queue[i].key = k
    /\ \A j \in 1 .. i - 1 : queue[j].key # k

Without(q, i) == [j \in 1 .. Len(q) - 1 |-> IF j < i THEN q[j] ELSE q[j + 1]]

Init ==
    /\ items = {}
    /\ queue = << >>
    /\ pc = [c \in Callers |-> "idle"]
    /\ arg \in [Callers -> Keys]
    /\ timer = TTL
    /\ fired = FALSE
    /\ purger = "select"
    /\ expiredKeys = {}
    /\ age = [k \in Keys |-> 0]
    /\ late = FALSE

Call(c, k, label) ==
    /\ pc[c] = "idle"
    /\ pc' = [pc EXCEPT ![c] = label]
    /\ arg' = [arg EXCEPT ![c] = k]

Touch(k) == age' = [age EXCEPT ![k] = 0]

-----------------------------------------------------------------------------
\* Set: the item first, its expiration after it.
Set(c, k) ==
    /\ Call(c, k, "add")
    /\ items' = items \cup {k}
    /\ Touch(k)
    /\ UNCHANGED <<queue, timer, fired, purger, expiredKeys>>

\* Mutant: the old entry is not taken out.
AddKeepsOldEntry(c) ==
    /\ pc[c] = "add"
    /\ queue' = Append(queue, Entry(arg[c]))
    /\ Touch(arg[c])
    /\ pc' = [pc EXCEPT ![c] = "idle"]
    /\ UNCHANGED <<items, arg, timer, fired, purger, expiredKeys>>

\* Mutant: the entry is appended inside the loop, so only a known key is queued.
AddForgetsNew(c) ==
    /\ pc[c] = "add"
    /\ \/ \E i \in 1 .. Len(queue) :
            First(i, arg[c]) /\ queue' = Append(Without(queue, i), Entry(arg[c]))
       \/ ~Queued(arg[c]) /\ UNCHANGED queue
    /\ Touch(arg[c])
    /\ pc' = [pc EXCEPT ![c] = "idle"]
    /\ UNCHANGED <<items, arg, timer, fired, purger, expiredKeys>>

\* Mutant: a key that is queued already keeps its entry.
AddOnlyNew(c) ==
    /\ pc[c] = "add"
    /\ \/ Queued(arg[c]) /\ UNCHANGED queue
       \/ ~Queued(arg[c]) /\ queue' = Append(queue, Entry(arg[c]))
    /\ Touch(arg[c])
    /\ pc' = [pc EXCEPT ![c] = "idle"]
    /\ UNCHANGED <<items, arg, timer, fired, purger, expiredKeys>>

\* expirationQueue.add moves the key to the end of the queue.
Add(c) ==
    /\ pc[c] = "add"
    /\ \/ \E i \in 1 .. Len(queue) :
            First(i, arg[c]) /\ queue' = Append(Without(queue, i), Entry(arg[c]))
       \/ ~Queued(arg[c]) /\ queue' = Append(queue, Entry(arg[c]))
    /\ Touch(arg[c])
    /\ pc' = [pc EXCEPT ![c] = "idle"]
    /\ UNCHANGED <<items, arg, timer, fired, purger, expiredKeys>>

\* Get goes on to renew the key, present or not.
Get(c, k) ==
    /\ Call(c, k, "renew")
    /\ UNCHANGED <<items, queue, timer, fired, purger, expiredKeys, age>>

\* Mutant: the TTL is added to the old expiration and not to the present time.
RenewExtends(c) ==
    /\ pc[c] = "renew"
    /\ \/ \E i \in 1 .. Len(queue) :
            /\ First(i, arg[c])
            /\ queue' = [queue EXCEPT ![i].left = @ + TTL]
            /\ Touch(arg[c])
       \/ ~Queued(arg[c]) /\ UNCHANGED <<queue, age>>
    /\ pc' = [pc EXCEPT ![c] = "idle"]
    /\ UNCHANGED <<items, arg, timer, fired, purger, expiredKeys>>

\* expirationQueue.renew gives the key a new expiration where it stands.
Renew(c) ==
    /\ pc[c] = "renew"
    /\ \/ \E i \in 1 .. Len(queue) :
            /\ First(i, arg[c])
            /\ queue' = [queue EXCEPT ![i] = Entry(arg[c])]
            /\ Touch(arg[c])
       \/ ~Queued(arg[c]) /\ UNCHANGED <<queue, age>>
    /\ pc' = [pc EXCEPT ![c] = "idle"]
    /\ UNCHANGED <<items, arg, timer, fired, purger, expiredKeys>>

\* Delete leaves the queue alone.
Delete(c, k) ==
    /\ pc[c] = "idle"
    /\ k \in items
    /\ items' = items \ {k}
    /\ UNCHANGED <<queue, pc, arg, timer, fired, purger, expiredKeys, age>>

-----------------------------------------------------------------------------
\* The purging goroutine.  Its other case, a receive from stop, is never ready:
\* New leaves that channel nil.

Receive ==
    /\ purger = "select"
    /\ fired
    /\ fired' = FALSE
    /\ purger' = "purge"
    /\ UNCHANGED <<items, queue, pc, arg, timer, expiredKeys, age>>

\* Mutant: the entry the loop stopped at is dropped with the expired ones.
PurgeDropsOneMore ==
    /\ purger = "purge"
    /\ \E n \in 0 .. Len(queue) :
        /\ \A i \in 1 .. n : queue[i].left = 0
        /\ n < Len(queue) => queue[n + 1].left > 0
        /\ expiredKeys' = {queue[i].key : i \in 1 .. n}
        /\ queue' = SubSeq(queue, n + 2, Len(queue))
    /\ purger' = "delete"
    /\ UNCHANGED <<items, pc, arg, timer, fired, age>>

\* expirationQueue.purge takes the n entries ahead of the first unexpired one.
Purge ==
    /\ purger = "purge"
    /\ \E n \in 0 .. Len(queue) :
        /\ \A i \in 1 .. n : queue[i].left = 0
        /\ n < Len(queue) => queue[n + 1].left > 0
        /\ expiredKeys' = {queue[i].key : i \in 1 .. n}
        /\ queue' = [i \in 1 .. Len(queue) - n |-> queue[i + n]]
    /\ purger' = "delete"
    /\ UNCHANGED <<items, pc, arg, timer, fired, age>>

\* Mutant: the goroutine hangs after its first round.
DeleteExpiredOnce ==
    /\ purger = "delete"
    /\ items' = items \ expiredKeys
    /\ expiredKeys' = {}
    /\ purger' = "delete"
    /\ UNCHANGED <<queue, pc, arg, timer, fired, age>>

DeleteExpired ==
    /\ purger = "delete"
    /\ items' = items \ expiredKeys
    /\ expiredKeys' = {}
    /\ purger' = "select"
    /\ UNCHANGED <<queue, pc, arg, timer, fired, age>>

-----------------------------------------------------------------------------
\* No call and no purge is under way.
Quiet == purger = "select" /\ ~fired /\ \A c \in Callers : pc[c] = "idle"

\* A unit of time passes.  The ticker drops a tick that finds its channel full.
Tick ==
    /\ queue' = [i \in 1 .. Len(queue) |->
            [queue[i] EXCEPT !.left = IF @ = 0 THEN 0 ELSE @ - 1]]
    /\ timer' = IF timer = 1 THEN TTL ELSE timer - 1
    /\ fired' = (fired \/ timer = 1)
    /\ age' = [k \in Keys |-> IF age[k] = MaxAge THEN MaxAge ELSE age[k] + 1]
    /\ late' = (late \/ ~Quiet)
    /\ UNCHANGED <<items, pc, arg, purger, expiredKeys>>

Purger == Receive \/ Purge \/ DeleteExpired

Next ==
    \/ /\ \/ \E c \in Callers :
                \/ Add(c)
                \/ Renew(c)
                \/ \E k \in Keys : Set(c, k) \/ Get(c, k) \/ Delete(c, k)
          \/ Purger
       /\ UNCHANGED late
    \/ Tick

\* Goroutines run, calls end and time passes; nobody has to call the map.
Fairness ==
    /\ \A c \in Callers : WF_vars((Add(c) \/ Renew(c)) /\ UNCHANGED late)
    /\ WF_vars(Purger /\ UNCHANGED late)
    /\ WF_vars(Tick)

Spec == Init /\ [][Next]_vars /\ Fairness

-----------------------------------------------------------------------------
\* Properties.

\* The map's own state; an entry's time left never exceeds the TTL.
TypeOK ==
    /\ items \subseteq Keys
    /\ queue \in Seq(QueueEntries)
    /\ pc \in [Callers -> {"idle", "add", "renew"}]
    /\ arg \in [Callers -> Keys]
    /\ timer \in 1 .. TTL
    /\ fired \in BOOLEAN
    /\ purger \in {"select", "purge", "delete"}
    /\ expiredKeys \subseteq Keys
    /\ age \in [Keys -> 0 .. MaxAge]
    /\ late \in BOOLEAN

\* No item is left behind for ever: whatever the order in which Set's two steps
\* and the purging goroutine's two steps fall, a key in the items is also in the
\* queue, or about to be deleted, or about to be queued by the Set that put it in.
NoLeak ==
    \A k \in items :
        \/ Queued(k)
        \/ k \in expiredKeys
        \/ \E c \in Callers : pc[c] = "add" /\ arg[c] = k

\* add removes the old entry before it appends the new one, so no key is queued
\* twice and an old entry cannot expire an item that was set again.
QueueKeysUnique ==
    \A i, j \in 1 .. Len(queue) : queue[i].key = queue[j].key => i = j

\* "A generic map with items that expire after a certain duration" (doc.go): an
\* item nobody has set or renewed for twice the TTL is gone, as long as no call and no
\* purge has taken time itself.  The ticker's period is the TTL, so an item may miss one
\* tick by a moment, but not two.  What is renewed keeps its place in the queue, and
\* purge stops there: only another key that has been in use since can keep the item
\* longer.
ExpiresInTime ==
    late \/ \A k \in items : age[k] < 2 * TTL \/ \E h \in Keys \ {k} : age[h] < 2 * TTL

\* Nor is anything taken for expired before its time: a key that the goroutine purges
\* was neither set nor renewed for a whole TTL, whatever came between the two halves of
\* Set and of Get, unless a Set of it is about to give it a new expiration.
ExpiresNotEarly ==
    [][Purge => \A k \in expiredKeys' :
        \/ age[k] >= TTL
        \/ \E c \in Callers : pc[c] = "add" /\ arg[c] = k]_vars

\* Once nobody calls the map any more, all of it is forgotten.
MapEmpties == <>[](\A c \in Callers : pc[c] = "idle") => <>[](items = {})

=============================================================================
