---------------------------- MODULE MapExpProofs ----------------------------
(***************************************************************************)
(* What module MapExp guarantees for every set of keys, any number of      *)
(* concurrent callers and any time to live.                                *)
(***************************************************************************)
EXTENDS MapExp, TLAPS

-----------------------------------------------------------------------------
\* What the loops of the queue's operations do to a sequence of entries.

\* Taking the i-th entry out keeps the others.
LEMMA WithoutType ==
    ASSUME NEW S, NEW q \in Seq(S), NEW i \in 1 .. Len(q)
    PROVE  Without(q, i) \in Seq(S) /\ Len(Without(q, i)) = Len(q) - 1
BY DEF Without

\* A purge is a suffix of the queue.
LEMMA SuffixType ==
    ASSUME NEW S, NEW q \in Seq(S), NEW n \in 0 .. Len(q)
    PROVE  [i \in 1 .. Len(q) - n |-> q[i + n]] \in Seq(S)
OBVIOUS

\* A unit of time makes entries of entries.
LEMMA TickType ==
    ASSUME queue \in Seq(QueueEntries)
    PROVE  [i \in 1 .. Len(queue) |->
              [queue[i] EXCEPT !.left = IF @ = 0 THEN 0 ELSE @ - 1]] \in Seq(QueueEntries)
<1>1. ASSUME NEW e \in QueueEntries
      PROVE  [e EXCEPT !.left = IF @ = 0 THEN 0 ELSE @ - 1] \in QueueEntries
  BY MapExpAssumption DEF QueueEntries
<1> QED
  BY <1>1

LEMMA EntryType == \A k \in Keys : Entry(k) \in QueueEntries
BY MapExpAssumption DEF Entry, QueueEntries

LEMMA MaxAgeType == MaxAge \in Nat \ {0}
BY MapExpAssumption DEF MaxAge

-----------------------------------------------------------------------------
\* One step keeps the types.
LEMMA TypeStep ==
    ASSUME TypeOK, [Next]_vars
    PROVE  TypeOK'
<1> USE MapExpAssumption, MaxAgeType
<1> USE DEF TypeOK, Touch, Call
<1>0. queue \in Seq(QueueEntries)
  OBVIOUS
<1>1. ASSUME NEW c \in Callers, NEW k \in Keys, Set(c, k) \/ Get(c, k) \/ Delete(c, k),
             UNCHANGED late
      PROVE  TypeOK'
  <2>0. 0 \in 0 .. MaxAge
    OBVIOUS
  <2>1. items' \subseteq Keys /\ age' \in [Keys -> 0 .. MaxAge]
    <3>1. CASE Set(c, k)
      BY <2>0, <3>1 DEF Set
    <3>2. CASE Get(c, k)
      BY <3>2 DEF Get
    <3>3. CASE Delete(c, k)
      BY <3>3 DEF Delete
    <3> QED
      BY <1>1, <3>1, <3>2, <3>3
  <2>2. pc' \in [Callers -> {"idle", "add", "renew"}] /\ arg' \in [Callers -> Keys]
    BY <1>1 DEF Set, Get, Delete
  <2> QED
    BY <1>1, <2>1, <2>2 DEF Set, Get, Delete
<1>2. ASSUME NEW c \in Callers, Add(c), UNCHANGED late
      PROVE  TypeOK'
  <2>1. queue' \in Seq(QueueEntries)
    <3>1. CASE \E i \in 1 .. Len(queue) :
                 queue' = Append(Without(queue, i), Entry(arg[c]))
      BY <3>1, <1>0, WithoutType, EntryType
    <3>2. CASE queue' = Append(queue, Entry(arg[c]))
      BY <3>2, <1>0, EntryType
    <3> QED
      BY <1>2, <3>1, <3>2 DEF Add
  <2> QED
    BY <1>2, <2>1 DEF Add
<1>3. ASSUME NEW c \in Callers, Renew(c), UNCHANGED late
      PROVE  TypeOK'
  <2>1. queue' \in Seq(QueueEntries)
    <3>1. CASE \E i \in 1 .. Len(queue) : queue' = [queue EXCEPT ![i] = Entry(arg[c])]
      BY <3>1, <1>0, EntryType
    <3>2. CASE queue' = queue
      BY <3>2
    <3> QED
      BY <1>3, <3>1, <3>2 DEF Renew
  <2>2. 0 \in 0 .. MaxAge
    OBVIOUS
  <2>3. age' \in [Keys -> 0 .. MaxAge]
    <3>1. CASE age' = [age EXCEPT ![arg[c]] = 0]
      BY <2>2, <3>1
    <3>2. CASE age' = age
      BY <3>2
    <3> QED
      BY <1>3, <3>1, <3>2 DEF Renew
  <2>4. pc' \in [Callers -> {"idle", "add", "renew"}]
    BY <1>3 DEF Renew
  <2>5. UNCHANGED <<items, arg, timer, fired, purger, expiredKeys>>
    BY <1>3 DEF Renew
  <2> QED
    BY <1>3, <2>1, <2>3, <2>4, <2>5
<1>4. CASE Receive /\ UNCHANGED late
  BY <1>4 DEF Receive
<1>5. CASE Purge /\ UNCHANGED late
  <2> PICK n \in 0 .. Len(queue) :
             /\ expiredKeys' = {queue[i].key : i \in 1 .. n}
             /\ queue' = [i \in 1 .. Len(queue) - n |-> queue[i + n]]
    BY <1>5 DEF Purge
  <2>1. queue' \in Seq(QueueEntries)
    BY <1>0, SuffixType
  <2>2. expiredKeys' \subseteq Keys
    <3>1. \A i \in 1 .. n : queue[i] \in QueueEntries
      BY <1>0
    <3>2. \A e \in QueueEntries : e.key \in Keys
      BY DEF QueueEntries
    <3> QED
      BY <3>1, <3>2
  <2> QED
    BY <1>5, <2>1, <2>2 DEF Purge
<1>6. CASE DeleteExpired /\ UNCHANGED late
  BY <1>6 DEF DeleteExpired
<1>7. CASE Tick
  <2>1. queue' \in Seq(QueueEntries)
    BY <1>0, <1>7, TickType DEF Tick
  <2>2. age' \in [Keys -> 0 .. MaxAge]
    BY <1>7 DEF Tick
  <2>3. timer' \in 1 .. TTL /\ fired' \in BOOLEAN
    BY <1>7 DEF Tick
  <2> QED
    BY <1>7, <2>1, <2>2, <2>3 DEF Tick
<1>8. CASE UNCHANGED vars
  BY <1>8 DEF vars
<1> QED
  BY <1>1, <1>2, <1>3, <1>4, <1>5, <1>6, <1>7, <1>8 DEF Next, Purger

LEMMA TypeInit == Init => TypeOK
<1> USE MapExpAssumption, MaxAgeType
<1> SUFFICES ASSUME Init
             PROVE  TypeOK
  OBVIOUS
<1>1. items \subseteq Keys /\ expiredKeys \subseteq Keys
  BY DEF Init
<1>2. queue \in Seq(QueueEntries)
  BY DEF Init
<1>3. pc \in [Callers -> {"idle", "add", "renew"}] /\ arg \in [Callers -> Keys]
  BY DEF Init
<1>4. timer \in 1 .. TTL
  BY DEF Init
<1>5. fired \in BOOLEAN
  BY DEF Init
<1>6. age \in [Keys -> 0 .. MaxAge]
  BY DEF Init
<1> QED
  BY <1>1, <1>2, <1>3, <1>4, <1>5, <1>6 DEF Init, TypeOK

\* The map keeps its types: no interleaving of calls, ticks and purges leaves the
\* queue malformed, and no expiration is further away than the time to live.
THEOREM TypeCorrect == Spec => []TypeOK
BY TypeInit, TypeStep, PTL DEF Spec

-----------------------------------------------------------------------------
\* Where the entries of the queue are after add, as seen from the key it queues.
LEMMA AddQueue ==
    ASSUME TypeOK, NEW c \in Callers, Add(c)
    PROVE  /\ Queued(arg[c])'
           /\ \A k \in Keys : Queued(k) => Queued(k)'
<1> DEFINE e == Entry(arg[c])
<1>0. queue \in Seq(QueueEntries) /\ arg[c] \in Keys /\ e \in QueueEntries /\ e.key = arg[c]
  BY EntryType DEF TypeOK, Entry
<1>1. ASSUME NEW i \in 1 .. Len(queue), First(i, arg[c]), queue' = Append(Without(queue, i), e)
      PROVE  /\ Queued(arg[c])'
             /\ \A k \in Keys : Queued(k) => Queued(k)'
  <2> DEFINE w == Without(queue, i)
  <2>1. w \in Seq(QueueEntries) /\ Len(w) = Len(queue) - 1
    BY <1>0, WithoutType
  <2>2. Len(queue') = Len(queue) /\ queue'[Len(queue)] = e
    BY <1>0, <1>1, <2>1
  <2>3. \A m \in 1 .. Len(queue) - 1 : queue'[m] = w[m]
    BY <1>0, <1>1, <2>1
  <2>4. \A m \in 1 .. Len(queue) - 1 : w[m] = IF m < i THEN queue[m] ELSE queue[m + 1]
    BY <1>0 DEF Without
  <2>5. Queued(arg[c])'
    BY <1>0, <2>2 DEF Queued, Add, TypeOK
  <2>6. ASSUME NEW k \in Keys, Queued(k)
        PROVE  Queued(k)'
    <3> PICK j \in 1 .. Len(queue) : queue[j].key = k
      BY <2>6 DEF Queued
    <3>1. CASE j < i
      BY <1>0, <2>2, <2>3, <2>4, <3>1 DEF Queued
    <3>2. CASE j = i
      BY <1>0, <1>1, <2>2, <3>2 DEF Queued, First
    <3>3. CASE j > i
      <4>1. j - 1 \in 1 .. Len(queue) - 1 /\ queue'[j - 1] = queue[j]
        BY <1>0, <2>3, <2>4, <3>3
      <4> QED
        BY <1>0, <2>2, <4>1 DEF Queued
    <3> QED
      BY <1>0, <3>1, <3>2, <3>3
  <2> QED
    BY <2>5, <2>6
<1>2. CASE queue' = Append(queue, e)
  <2>1. Len(queue') = Len(queue) + 1 /\ queue'[Len(queue) + 1] = e
    BY <1>0, <1>2
  <2>2. \A m \in 1 .. Len(queue) : queue'[m] = queue[m]
    BY <1>0, <1>2
  <2>3. Len(queue) \in Nat
    BY <1>0
  <2> QED
    BY <1>0, <2>1, <2>2, <2>3 DEF Queued, Add
<1>3. arg' = arg
  BY DEF Add
<1> QED
  BY <1>1, <1>2, <1>3 DEF Add

\* A purge hands over what it takes and keeps the rest.
LEMMA PurgeQueue ==
    ASSUME TypeOK, Purge
    PROVE  \A k \in Keys : Queued(k) => Queued(k)' \/ k \in expiredKeys'
<1> SUFFICES ASSUME NEW k \in Keys, NEW j \in 1 .. Len(queue), queue[j].key = k
             PROVE  Queued(k)' \/ k \in expiredKeys'
  BY DEF Queued
<1> PICK n \in 0 .. Len(queue) :
           /\ expiredKeys' = {queue[i].key : i \in 1 .. n}
           /\ queue' = [i \in 1 .. Len(queue) - n |-> queue[i + n]]
  BY DEF Purge
<1>0. Len(queue) \in Nat
  BY DEF TypeOK
<1>1. CASE j <= n
  BY <1>0, <1>1
<1>2. CASE j > n
  <2>1. Len(queue') = Len(queue) - n
    BY <1>0
  <2>2. j - n \in 1 .. Len(queue') /\ queue'[j - n] = queue[j]
    BY <1>0, <1>2, <2>1
  <2> QED
    BY <2>2 DEF Queued
<1> QED
  BY <1>0, <1>1, <1>2

\* A renewal and the passing of time change no key of the queue.
LEMMA SameKeys ==
    ASSUME TypeOK, (\E c \in Callers : Renew(c)) \/ Tick
    PROVE  /\ Len(queue') = Len(queue)
           /\ \A i \in 1 .. Len(queue) : queue'[i].key = queue[i].key
<1>0. queue \in Seq(QueueEntries)
  BY DEF TypeOK
<1>1. ASSUME NEW c \in Callers, Renew(c)
      PROVE  /\ Len(queue') = Len(queue)
             /\ \A i \in 1 .. Len(queue) : queue'[i].key = queue[i].key
  <2>1. Entry(arg[c]).key = arg[c]
    BY DEF Entry
  <2>2. CASE \E i \in 1 .. Len(queue) :
               First(i, arg[c]) /\ queue' = [queue EXCEPT ![i] = Entry(arg[c])]
    BY <1>0, <2>1, <2>2 DEF First
  <2>3. CASE queue' = queue
    BY <2>3
  <2> QED
    BY <1>1, <2>2, <2>3 DEF Renew
<1>2. CASE Tick
  <2>1. Len(queue') = Len(queue)
    BY <1>0, <1>2 DEF Tick
  <2>2. \A e \in QueueEntries : [e EXCEPT !.left = IF @ = 0 THEN 0 ELSE @ - 1].key = e.key
    BY DEF QueueEntries
  <2>3. \A i \in 1 .. Len(queue) : queue[i] \in QueueEntries
    BY <1>0
  <2> QED
    BY <1>0, <1>2, <2>1, <2>2, <2>3 DEF Tick
<1> QED
  BY <1>1, <1>2

-----------------------------------------------------------------------------
\* What the goroutine took from the queue it deletes before it takes anything else.
ExpiredKeysInHand == purger # "delete" => expiredKeys = {}

LEMMA InHandStep ==
    ASSUME ExpiredKeysInHand, [Next]_vars
    PROVE  ExpiredKeysInHand'
BY DEF ExpiredKeysInHand, Next, Purger, Add, Renew, Set, Get, Delete, Call, Receive, Purge,
   DeleteExpired, Tick, vars

\* An item's entry is in the queue, or with the purging goroutine, or with a caller.
LEMMA LeakStep ==
    ASSUME TypeOK, NoLeak, ExpiredKeysInHand, [Next]_vars
    PROVE  NoLeak'
<1> SUFFICES ASSUME NEW k \in Keys, k \in items'
             PROVE  \/ Queued(k)'
                    \/ k \in expiredKeys'
                    \/ \E c \in Callers : pc'[c] = "add" /\ arg'[c] = k
  <2>1. TypeOK'
    BY TypeStep
  <2> QED
    BY <2>1 DEF NoLeak, TypeOK
<1>1. ASSUME NEW c \in Callers, NEW l \in Keys, Set(c, l)
      PROVE  \/ Queued(k)' \/ k \in expiredKeys'
             \/ \E d \in Callers : pc'[d] = "add" /\ arg'[d] = k
  <2>1. CASE k = l
    BY <1>1, <2>1 DEF Set, Call, TypeOK
  <2>2. CASE k # l
    BY <1>1, <2>2 DEF Set, Call, TypeOK, NoLeak, Queued
  <2> QED
    BY <2>1, <2>2
<1>2. ASSUME NEW c \in Callers, NEW l \in Keys, Get(c, l) \/ Delete(c, l)
      PROVE  \/ Queued(k)' \/ k \in expiredKeys'
             \/ \E d \in Callers : pc'[d] = "add" /\ arg'[d] = k
  <2>1. Queued(k) => Queued(k)'
    BY <1>2 DEF Get, Delete, Queued
  <2>2. k \in items /\ expiredKeys' = expiredKeys
    BY <1>2 DEF Get, Delete
  <2>3. ASSUME NEW d \in Callers, pc[d] = "add", arg[d] = k
        PROVE  pc'[d] = "add" /\ arg'[d] = k
    BY <1>2, <2>3 DEF Get, Delete, Call, TypeOK
  <2> QED
    BY <2>1, <2>2, <2>3 DEF NoLeak
<1>3. ASSUME NEW c \in Callers, Add(c)
      PROVE  \/ Queued(k)' \/ k \in expiredKeys'
             \/ \E d \in Callers : pc'[d] = "add" /\ arg'[d] = k
  <2>1. CASE k = arg[c]
    BY <1>3, <2>1, AddQueue DEF Queued, Add
  <2>2. CASE Queued(k)
    BY <1>3, <2>2, AddQueue
  <2>3. CASE k \in expiredKeys
    BY <1>3, <2>3 DEF Add
  <2>4. CASE \E d \in Callers \ {c} : pc[d] = "add" /\ arg[d] = k
    BY <1>3, <2>4 DEF Add, TypeOK
  <2>5. k \in items
    BY <1>3 DEF Add
  <2> QED
    BY <2>1, <2>2, <2>3, <2>4, <2>5 DEF NoLeak
<1>4. ASSUME NEW c \in Callers, Renew(c)
      PROVE  \/ Queued(k)' \/ k \in expiredKeys'
             \/ \E d \in Callers : pc'[d] = "add" /\ arg'[d] = k
  <2>1. Queued(k) => Queued(k)'
    BY <1>4, SameKeys DEF Queued
  <2> QED
    BY <1>4, <2>1 DEF Renew, TypeOK, NoLeak
<1>5. CASE Receive
  BY <1>5 DEF Receive, NoLeak, Queued
<1>6. CASE Purge
  <2>1. Queued(k) => Queued(k)' \/ k \in expiredKeys'
    BY <1>6, PurgeQueue
  <2>2. expiredKeys = {}
    BY <1>6 DEF Purge, ExpiredKeysInHand
  <2> QED
    BY <1>6, <2>1, <2>2 DEF Purge, NoLeak
<1>7. CASE DeleteExpired
  BY <1>7 DEF DeleteExpired, NoLeak, Queued
<1>8. CASE Tick
  <2>1. Queued(k) => Queued(k)'
    BY <1>8, SameKeys DEF Queued
  <2> QED
    BY <1>8, <2>1 DEF Tick, NoLeak
<1>9. CASE UNCHANGED vars
  BY <1>9 DEF vars, NoLeak, Queued
<1> QED
  BY <1>1, <1>2, <1>3, <1>4, <1>5, <1>6, <1>7, <1>8, <1>9 DEF Next, Purger

LEMMA LeakInit == Init => NoLeak /\ ExpiredKeysInHand
BY DEF Init, NoLeak, ExpiredKeysInHand

\* No item is ever left behind, whatever the interleaving of calls and purges.
THEOREM NothingLeaks == Spec => []NoLeak
BY LeakInit, LeakStep, InHandStep, TypeCorrect, PTL DEF Spec

\* No step queues a key a second time.
LEMMA UniqueStep ==
    ASSUME TypeOK, QueueKeysUnique, [Next]_vars
    PROVE  QueueKeysUnique'
<1>0. queue \in Seq(QueueEntries) /\ Len(queue) \in Nat
  BY DEF TypeOK
<1>1. ASSUME NEW c \in Callers, Add(c)
      PROVE  QueueKeysUnique'
  <2> DEFINE e == Entry(arg[c])
  <2>0. e \in QueueEntries /\ e.key = arg[c]
    BY EntryType DEF TypeOK, Entry
  <2>1. ASSUME NEW i \in 1 .. Len(queue), First(i, arg[c]),
               queue' = Append(Without(queue, i), e)
        PROVE  QueueKeysUnique'
    <3> DEFINE w == Without(queue, i)
               old(m) == IF m < i THEN m ELSE m + 1
    <3>1. w \in Seq(QueueEntries) /\ Len(w) = Len(queue) - 1
      BY <1>0, WithoutType
    <3>2. Len(queue') = Len(queue) /\ queue'[Len(queue)] = e
      BY <1>0, <2>0, <2>1, <3>1
    <3>3. \A m \in 1 .. Len(queue) - 1 :
             queue'[m] = queue[old(m)] /\ old(m) \in 1 .. Len(queue) /\ old(m) # i
      BY <1>0, <2>0, <2>1, <3>1 DEF Without
    <3>4. \A m, p \in 1 .. Len(queue) - 1 : old(m) = old(p) => m = p
      BY <1>0
    <3>5. queue[i].key = arg[c]
      BY <2>1 DEF First
    <3>6. \A m \in 1 .. Len(queue) - 1 : queue'[m].key # arg[c]
      BY <3>3, <3>5 DEF QueueKeysUnique
    <3>7. \A m, p \in 1 .. Len(queue) - 1 : queue'[m].key = queue'[p].key => m = p
      BY <3>3, <3>4 DEF QueueKeysUnique
    <3>8. \A m \in 1 .. Len(queue) : m \in 1 .. Len(queue) - 1 \/ m = Len(queue)
      BY <1>0
    <3> QED
      BY <2>0, <3>2, <3>6, <3>7, <3>8 DEF QueueKeysUnique
  <2>2. ASSUME ~Queued(arg[c]), queue' = Append(queue, e)
        PROVE  QueueKeysUnique'
    <3>1. Len(queue') = Len(queue) + 1 /\ queue'[Len(queue) + 1] = e
      BY <1>0, <2>0, <2>2
    <3>2. \A m \in 1 .. Len(queue) : queue'[m] = queue[m] /\ queue[m].key # arg[c]
      BY <1>0, <2>0, <2>2 DEF Queued
    <3>3. \A m \in 1 .. Len(queue) + 1 : m \in 1 .. Len(queue) \/ m = Len(queue) + 1
      BY <1>0
    <3> QED
      BY <2>0, <3>1, <3>2, <3>3 DEF QueueKeysUnique
  <2> QED
    BY <1>1, <2>1, <2>2 DEF Add
<1>2. CASE (\E c \in Callers : Renew(c)) \/ Tick
  BY <1>2, SameKeys DEF QueueKeysUnique
<1>3. CASE Purge
  <2> PICK n \in 0 .. Len(queue) : queue' = [i \in 1 .. Len(queue) - n |-> queue[i + n]]
    BY <1>3 DEF Purge
  <2>1. Len(queue') = Len(queue) - n
    BY <1>0
  <2>2. \A i \in 1 .. Len(queue') : i + n \in 1 .. Len(queue) /\ queue'[i] = queue[i + n]
    BY <1>0, <2>1
  <2> QED
    BY <1>0, <2>1, <2>2 DEF QueueKeysUnique
<1>4. CASE UNCHANGED queue
  BY <1>4 DEF QueueKeysUnique
<1> QED
  BY <1>1, <1>2, <1>3, <1>4 DEF Next, Purger, Set, Get, Delete, Receive, DeleteExpired, vars

\* No key is ever queued twice, so an old entry cannot expire an item set again.
THEOREM QueueHasNoDuplicates == Spec => []QueueKeysUnique
<1>1. Init => QueueKeysUnique
  BY DEF Init, QueueKeysUnique
<1> QED
  BY <1>1, UniqueStep, TypeCorrect, PTL DEF Spec

-----------------------------------------------------------------------------
\* Where the entries of the queue come from.

\* After add and after renew the caller's key, if it is queued, has all of its time to
\* live before it, and the other entries are old ones.
LEMMA NewestEntry ==
    ASSUME TypeOK, QueueKeysUnique, NEW c \in Callers, Add(c) \/ Renew(c),
           NEW i \in 1 .. Len(queue')
    PROVE  \/ queue'[i] = Entry(arg[c])
           \/ /\ queue'[i].key # arg[c]
              /\ \E j \in 1 .. Len(queue) : queue'[i] = queue[j]
<1> DEFINE e == Entry(arg[c])
<1>0. queue \in Seq(QueueEntries) /\ Len(queue) \in Nat /\ e \in QueueEntries
      /\ arg[c] \in Keys
  BY EntryType DEF TypeOK
<1>1. ASSUME NEW k \in 1 .. Len(queue), First(k, arg[c]), queue' = Append(Without(queue, k), e)
      PROVE  \/ queue'[i] = e
             \/ queue'[i].key # arg[c] /\ \E j \in 1 .. Len(queue) : queue'[i] = queue[j]
  <2> DEFINE w == Without(queue, k)
             j == IF i < k THEN i ELSE i + 1
  <2>1. w \in Seq(QueueEntries) /\ Len(w) = Len(queue) - 1
    BY <1>0, WithoutType
  <2>2. Len(queue') = Len(queue) /\ queue'[Len(queue)] = e
    BY <1>0, <1>1, <2>1
  <2>3. CASE i # Len(queue)
    <3>1. queue'[i] = w[i] /\ j \in 1 .. Len(queue) /\ j # k
      BY <1>0, <1>1, <2>1, <2>2, <2>3
    <3>2. w[i] = queue[j]
      BY <1>0, <2>2, <2>3 DEF Without
    <3>3. queue[j].key # arg[c]
      BY <1>1, <3>1 DEF First, QueueKeysUnique
    <3> QED
      BY <3>1, <3>2, <3>3
  <2> QED
    BY <2>2, <2>3
<1>2. ASSUME ~Queued(arg[c]), queue' = Append(queue, e) \/ queue' = queue
      PROVE  \/ queue'[i] = e
             \/ queue'[i].key # arg[c] /\ \E j \in 1 .. Len(queue) : queue'[i] = queue[j]
  BY <1>0, <1>2 DEF Queued
<1>3. ASSUME NEW k \in 1 .. Len(queue), First(k, arg[c]), queue' = [queue EXCEPT ![k] = e]
      PROVE  \/ queue'[i] = e
             \/ queue'[i].key # arg[c] /\ \E j \in 1 .. Len(queue) : queue'[i] = queue[j]
  <2>1. Len(queue') = Len(queue)
    BY <1>0, <1>3
  <2>2. CASE i = k
    BY <1>0, <1>3, <2>1, <2>2
  <2>3. CASE i # k
    <3>1. queue'[i] = queue[i] /\ queue[i].key # arg[c]
      BY <1>0, <1>3, <2>1, <2>3 DEF First, QueueKeysUnique
    <3> QED
      BY <2>1, <3>1
  <2> QED
    BY <2>2, <2>3
<1> QED
  BY <1>1, <1>2, <1>3 DEF Add, Renew

\* A purge leaves old entries in the queue, and takes keys whose time is over.
LEMMA PurgedEntries ==
    ASSUME TypeOK, Purge
    PROVE  /\ \A i \in 1 .. Len(queue') : \E j \in 1 .. Len(queue) : queue'[i] = queue[j]
           /\ \A k \in expiredKeys' :
                \E j \in 1 .. Len(queue) : queue[j].key = k /\ queue[j].left = 0
           /\ QueueKeysUnique => \A i \in 1 .. Len(queue') : queue'[i].key \notin expiredKeys'
<1> PICK n \in 0 .. Len(queue) :
           /\ \A i \in 1 .. n : queue[i].left = 0
           /\ expiredKeys' = {queue[i].key : i \in 1 .. n}
           /\ queue' = [i \in 1 .. Len(queue) - n |-> queue[i + n]]
  BY DEF Purge
<1>0. Len(queue) \in Nat
  BY DEF TypeOK
<1>1. Len(queue') = Len(queue) - n
  BY <1>0
<1>2. ASSUME NEW i \in 1 .. Len(queue')
      PROVE  \E j \in 1 .. Len(queue) : queue'[i] = queue[j]
  <2>1. i + n \in 1 .. Len(queue) /\ queue'[i] = queue[i + n]
    BY <1>0, <1>1
  <2> QED
    BY <2>1
<1>3. \A i \in 1 .. n : i \in 1 .. Len(queue)
  BY <1>0
<1>4. ASSUME QueueKeysUnique, NEW i \in 1 .. Len(queue'), queue'[i].key \in expiredKeys'
      PROVE  FALSE
  <2>1. i + n \in 1 .. Len(queue) /\ queue'[i] = queue[i + n]
    BY <1>0, <1>1
  <2>2. PICK j \in 1 .. n : queue[j].key = queue'[i].key
    BY <1>4
  <2>3. j = i + n
    BY <1>3, <1>4, <2>1, <2>2 DEF QueueKeysUnique
  <2> QED
    BY <1>0, <1>1, <2>3
<1> QED
  BY <1>2, <1>3, <1>4

\* A renewal adds no key to the queue.
LEMMA RenewedKeys ==
    ASSUME TypeOK, NEW c \in Callers, Renew(c)
    PROVE  \A i \in 1 .. Len(queue') : i \in 1 .. Len(queue) /\ queue'[i].key = queue[i].key
<1>0. queue \in Seq(QueueEntries) /\ arg[c] \in Keys
  BY DEF TypeOK
<1>1. CASE UNCHANGED queue
  BY <1>1
<1>2. ASSUME NEW i \in 1 .. Len(queue), First(i, arg[c]),
             queue' = [queue EXCEPT ![i] = Entry(arg[c])]
      PROVE  \A j \in 1 .. Len(queue') :
                 j \in 1 .. Len(queue) /\ queue'[j].key = queue[j].key
  BY <1>0, <1>2 DEF First, Entry
<1> QED
  BY <1>1, <1>2 DEF Renew

\* A unit of time is taken from every entry that has one left.
LEMMA TickedEntries ==
    ASSUME TypeOK, Tick
    PROVE  /\ Len(queue') = Len(queue)
           /\ \A i \in 1 .. Len(queue) :
                /\ queue'[i].key = queue[i].key
                /\ queue'[i].left = IF queue[i].left = 0 THEN 0 ELSE queue[i].left - 1
<1>0. queue \in Seq(QueueEntries)
  BY DEF TypeOK
<1>1. Len(queue') = Len(queue)
  BY <1>0 DEF Tick
<1>2. ASSUME NEW e \in QueueEntries
      PROVE  LET d == [e EXCEPT !.left = IF @ = 0 THEN 0 ELSE @ - 1]
             IN  d.key = e.key /\ d.left = IF e.left = 0 THEN 0 ELSE e.left - 1
  BY DEF QueueEntries
<1>3. \A i \in 1 .. Len(queue) : queue[i] \in QueueEntries
  BY <1>0
<1> QED
  BY <1>0, <1>1, <1>2, <1>3 DEF Tick

-----------------------------------------------------------------------------
\* When an item may go, at the earliest.

\* A Set has put the key into the items and not yet into the queue.
BeingSet(k) == \E c \in Callers : pc[c] = "add" /\ arg[c] = k

\* An entry has as much time left as is missing to its key's time to live, or more.
EntriesLast ==
    \A i \in 1 .. Len(queue) :
        BeingSet(queue[i].key) \/ queue[i].left + age[queue[i].key] >= TTL

\* What an entry is made of.
LEMMA EntryTypes ==
    ASSUME TypeOK
    PROVE  /\ TTL \in Nat \ {0} /\ MaxAge = 2 * TTL /\ arg \in [Callers -> Keys]
           /\ pc \in [Callers -> {"idle", "add", "renew"}]
           /\ age \in [Keys -> 0 .. MaxAge] /\ Len(queue) \in Nat
           /\ \A i \in 1 .. Len(queue) :
                queue[i].key \in Keys /\ queue[i].left \in Nat /\ age[queue[i].key] \in Nat
<1>1. \A e \in QueueEntries : e.key \in Keys /\ e.left \in Nat
  BY MapExpAssumption DEF QueueEntries
<1>2. \A i \in 1 .. Len(queue) : queue[i] \in QueueEntries
  BY DEF TypeOK
<1>3. \A k \in Keys : age[k] \in Nat
  BY MaxAgeType DEF TypeOK
<1> QED
  BY <1>1, <1>2, <1>3, MapExpAssumption DEF TypeOK, MaxAge

\* One step keeps it: an entry's key is only made younger by the Set that will replace the
\* entry, or together with the entry, of which there is no second.
LEMMA LastStep ==
    ASSUME TypeOK, QueueKeysUnique, EntriesLast, [Next]_vars
    PROVE  EntriesLast'
<1> SUFFICES ASSUME NEW i \in 1 .. Len(queue')
             PROVE  BeingSet(queue[i].key)' \/ queue'[i].left + age'[queue'[i].key] >= TTL
  BY DEF EntriesLast
<1>1. ASSUME NEW c \in Callers, NEW k \in Keys, Set(c, k)
      PROVE  BeingSet(queue[i].key)' \/ queue[i].left + age'[queue[i].key] >= TTL
  <2>1. i \in 1 .. Len(queue) /\ queue' = queue
    BY <1>1 DEF Set
  <2>2. BeingSet(k)'
    BY <1>1, EntryTypes DEF Set, Call, BeingSet
  <2>3. \A h \in Keys : BeingSet(h) => BeingSet(h)'
    BY <1>1, EntryTypes DEF Set, Call, BeingSet
  <2>4. \A h \in Keys \ {k} : age'[h] = age[h]
    BY <1>1, EntryTypes DEF Set, Touch
  <2>5. BeingSet(queue[i].key) \/ queue[i].key = k => BeingSet(queue[i].key)'
    BY <2>1, <2>2, <2>3, EntryTypes DEF BeingSet
  <2> QED
    BY <2>1, <2>4, <2>5, EntryTypes DEF EntriesLast
<1>2. ASSUME NEW c \in Callers, Add(c) \/ Renew(c)
      PROVE  BeingSet(queue[i].key)' \/ queue'[i].left + age'[queue'[i].key] >= TTL
  <2>0. arg[c] \in Keys /\ (age' = age \/ age' = [age EXCEPT ![arg[c]] = 0])
    BY <1>2, EntryTypes DEF Add, Renew, Touch
  <2>1. CASE queue'[i] = Entry(arg[c])
    <3>1. age'[arg[c]] \in Nat
      <4>1. age[arg[c]] \in Nat
        BY <2>0, EntryTypes, MaxAgeType
      <4> QED
        BY <2>0, <4>1, EntryTypes
    <3> QED
      BY <2>1, <3>1, EntryTypes DEF Entry
  <2>2. CASE /\ queue'[i].key # arg[c]
             /\ \E j \in 1 .. Len(queue) : queue'[i] = queue[j]
    <3> PICK j \in 1 .. Len(queue) : queue'[i] = queue[j]
      BY <2>2
    <3>1. queue[j].key \in Keys /\ age'[queue[j].key] = age[queue[j].key]
      BY <2>0, <2>2, EntryTypes
    <3>2. \A h \in Keys \ {arg[c]} : BeingSet(h) => BeingSet(h)'
      BY <1>2, EntryTypes DEF Add, Renew, BeingSet
    <3>3. BeingSet(queue[j].key) => BeingSet(queue[i].key)'
      BY <2>2, <3>1, <3>2 DEF BeingSet
    <3> QED
      BY <3>1, <3>3 DEF EntriesLast
  <2> QED
    BY <1>2, <2>1, <2>2, NewestEntry
<1>3. ASSUME NEW c \in Callers, NEW k \in Keys, Get(c, k) \/ Delete(c, k)
      PROVE  BeingSet(queue[i].key)' \/ queue[i].left + age[queue[i].key] >= TTL
  <2>1. \A h \in Keys : BeingSet(h) => BeingSet(h)'
    BY <1>3, EntryTypes DEF Get, Delete, Call, BeingSet
  <2>2. i \in 1 .. Len(queue) /\ queue' = queue
    BY <1>3 DEF Get, Delete
  <2>3. BeingSet(queue[i].key) => BeingSet(queue[i].key)'
    BY <2>1, <2>2, EntryTypes DEF BeingSet
  <2> QED
    BY <2>2, <2>3 DEF EntriesLast
<1>4. CASE Purger
  <2>1. PICK j \in 1 .. Len(queue) : queue'[i] = queue[j]
    BY <1>4, PurgedEntries DEF Purger, Receive, DeleteExpired
  <2>2. UNCHANGED <<pc, arg, age>>
    BY <1>4 DEF Purger, Receive, Purge, DeleteExpired
  <2> QED
    BY <2>1, <2>2 DEF EntriesLast, BeingSet
<1>5. CASE Tick
  <2>1. /\ i \in 1 .. Len(queue) /\ queue'[i].key = queue[i].key
        /\ queue'[i].left = IF queue[i].left = 0 THEN 0 ELSE queue[i].left - 1
    BY <1>5, TickedEntries
  <2>2. BeingSet(queue[i].key)' <=> BeingSet(queue[i].key)
    BY <1>5, <2>1 DEF Tick, BeingSet
  <2>3. \/ age'[queue[i].key] = age[queue[i].key] + 1
        \/ age'[queue[i].key] = 2 * TTL
    BY <1>5, <2>1, EntryTypes DEF Tick
  <2> QED
    BY <2>1, <2>2, <2>3, EntryTypes DEF EntriesLast
<1>6. CASE UNCHANGED vars
  BY <1>6 DEF vars, EntriesLast, BeingSet
<1>7. ASSUME NEW c \in Callers, NEW k \in Keys, Set(c, k) \/ Get(c, k) \/ Delete(c, k)
      PROVE  queue' = queue /\ (Get(c, k) \/ Delete(c, k) => age' = age)
  BY <1>7 DEF Set, Get, Delete
<1> QED
  BY <1>1, <1>2, <1>3, <1>4, <1>5, <1>6, <1>7 DEF Next

\* Whatever the delays, and however calls and purges interleave, no key is taken for
\* expired before its time.
THEOREM NothingExpiresEarly == Spec => ExpiresNotEarly
<1>1. Init => EntriesLast /\ QueueKeysUnique
  BY DEF Init, EntriesLast, QueueKeysUnique
<1>2. TypeOK /\ QueueKeysUnique /\ EntriesLast /\ [Next]_vars =>
          EntriesLast' /\ QueueKeysUnique'
  BY LastStep, UniqueStep
<1>3. ASSUME TypeOK, EntriesLast
      PROVE  [Purge => \A k \in expiredKeys' :
                  \/ age[k] >= TTL
                  \/ \E c \in Callers : pc[c] = "add" /\ arg[c] = k]_vars
  <2> SUFFICES ASSUME Purge, NEW k \in expiredKeys'
               PROVE  age[k] >= TTL \/ \E c \in Callers : pc[c] = "add" /\ arg[c] = k
    OBVIOUS
  <2>1. PICK j \in 1 .. Len(queue) : queue[j].key = k /\ queue[j].left = 0
    BY <1>3, PurgedEntries
  <2>2. BeingSet(k) \/ 0 + age[k] >= TTL
    BY <1>3, <2>1 DEF EntriesLast
  <2>3. age[k] \in Nat
    BY <1>3, <2>1, EntryTypes
  <2> QED
    BY <2>2, <2>3, EntryTypes DEF BeingSet
<1> QED
  BY <1>1, <1>2, <1>3, TypeCorrect, PTL DEF Spec, ExpiresNotEarly

-----------------------------------------------------------------------------
\* How long an item may stay, when calls and purges take no time.

\* A key that nobody has touched for t units is only there while another one is in use.
Kept(k, t) == age[k] >= t => \E h \in Keys \ {k} : age[h] < t

\* A tick waits, or is being dealt with, at the moment it came; ...
PurgedAtOnce ==
    /\ fired => purger = "select"
    /\ fired \/ purger # "select" => timer = TTL

\* ... an entry has no more time left than its key's age leaves it; ...
EntriesAge ==
    /\ \A i \in 1 .. Len(queue) : queue[i].left = 0 \/ queue[i].left + age[queue[i].key] <= TTL
    /\ \A c \in Callers : pc[c] = "add" => age[arg[c]] = 0

\* ... and what the last purge left behind had an entry ahead of it whose time to live
\* was not over then.
ItemsKept ==
    \A k \in items :
        /\ Kept(k, 2 * TTL)
        /\ ~fired /\ purger # "purge" /\ k \notin expiredKeys => Kept(k, TTL + (TTL - timer))

ForgetInv == TypeOK /\ NoLeak /\ ExpiredKeysInHand /\ PurgedAtOnce /\ EntriesAge /\ ItemsKept

\* A step that makes no key older, but the time of the ticker pass.
LEMMA KeptYounger ==
    ASSUME NEW k \in Keys, NEW t \in Nat, Kept(k, t),
           age \in [Keys -> Nat], age' \in [Keys -> Nat], \A h \in Keys : age'[h] <= age[h]
    PROVE  Kept(k, t)'
BY DEF Kept

\* What holds for less time holds for more.
LEMMA KeptLonger ==
    ASSUME NEW k \in Keys, NEW s \in Nat, NEW t \in Nat, s <= t, Kept(k, s), age \in [Keys -> Nat]
    PROVE  Kept(k, t)
BY DEF Kept

LEMMA ForgetTypes ==
    ASSUME TypeOK
    PROVE  /\ TTL \in Nat \ {0} /\ timer \in 1 .. TTL /\ age \in [Keys -> Nat]
           /\ items \subseteq Keys /\ arg \in [Callers -> Keys] /\ Len(queue) \in Nat
           /\ pc \in [Callers -> {"idle", "add", "renew"}]
           /\ \A i \in 1 .. Len(queue) : queue[i].key \in Keys /\ queue[i].left \in 0 .. TTL
           /\ MaxAge = 2 * TTL
<1>1. \A e \in QueueEntries : e.key \in Keys /\ e.left \in 0 .. TTL
  BY DEF QueueEntries
<1>2. \A i \in 1 .. Len(queue) : queue[i] \in QueueEntries
  BY DEF TypeOK
<1>3. \A k \in Keys : age[k] \in Nat
  BY MaxAgeType DEF TypeOK
<1> QED
  BY <1>1, <1>2, <1>3, MapExpAssumption, MaxAgeType DEF TypeOK, MaxAge

\* Calls make keys younger and leave the purging goroutine alone.
LEMMA ForgetCallStep ==
    ASSUME ForgetInv, QueueKeysUnique, NEW c \in Callers,
           Add(c) \/ Renew(c) \/ \E k \in Keys : Set(c, k) \/ Get(c, k) \/ Delete(c, k)
    PROVE  PurgedAtOnce' /\ EntriesAge' /\ ItemsKept'
<1>0. TypeOK /\ PurgedAtOnce /\ EntriesAge /\ ItemsKept
  BY DEF ForgetInv
<1>1. UNCHANGED <<timer, fired, purger, expiredKeys>>
  BY DEF Add, Renew, Set, Get, Delete
<1>2. age' = age \/ (\E k \in Keys : age' = [age EXCEPT ![k] = 0])
  BY <1>0, ForgetTypes DEF Add, Renew, Set, Get, Delete, Touch
<1>3. age' \in [Keys -> Nat] /\ \A h \in Keys : age'[h] <= age[h]
  <2>1. age \in [Keys -> Nat] /\ \A n \in Nat : n <= n /\ 0 <= n
    BY <1>0, ForgetTypes
  <2>2. ASSUME NEW k \in Keys, age' = [age EXCEPT ![k] = 0]
        PROVE  age' \in [Keys -> Nat] /\ \A h \in Keys : age'[h] <= age[h]
    BY <2>1, <2>2
  <2> QED
    BY <1>2, <2>1, <2>2
<1>4. \A k \in items' : k \in items \/ age'[k] = 0
  BY <1>0, ForgetTypes DEF Add, Renew, Set, Get, Delete, Touch
<1>5. ItemsKept'
  <2> SUFFICES ASSUME NEW k \in items'
               PROVE  /\ Kept(k, 2 * TTL)'
                      /\ ~fired /\ purger # "purge" /\ k \notin expiredKeys =>
                             Kept(k, TTL + (TTL - timer))'
    BY <1>1 DEF ItemsKept
  <2>1. 2 * TTL \in Nat \ {0} /\ TTL + (TTL - timer) \in Nat \ {0}
    BY <1>0, ForgetTypes
  <2>2. CASE k \in items
    <3>1. k \in Keys /\ age \in [Keys -> Nat]
      BY <1>0, <2>2, ForgetTypes
    <3>2. Kept(k, 2 * TTL)'
      BY <1>0, <1>3, <2>1, <2>2, <3>1, KeptYounger DEF ItemsKept
    <3>3. ASSUME ~fired, purger # "purge", k \notin expiredKeys
          PROVE  Kept(k, TTL + (TTL - timer))'
      <4> DEFINE t == TTL + (TTL - timer)
      <4>1. Kept(k, t) /\ t \in Nat /\ t' = t
        BY <1>0, <1>1, <2>1, <2>2, <3>3 DEF ItemsKept
      <4> HIDE DEF t
      <4>2. \A s \in Nat : Kept(k, s) => Kept(k, s)'
        BY <1>3, <3>1, KeptYounger
      <4> QED
        BY <4>1, <4>2 DEF t, Kept
    <3> QED
      BY <3>2, <3>3
  <2>3. CASE age'[k] = 0
    BY <1>1, <2>1, <2>3 DEF Kept
  <2> QED
    BY <1>4, <2>2, <2>3
<1>6. ASSUME NEW i \in 1 .. Len(queue')
      PROVE  queue'[i].left = 0 \/ queue'[i].left + age'[queue'[i].key] <= TTL
  <2>1. CASE \E j \in 1 .. Len(queue) : queue'[i] = queue[j]
    <3> PICK j \in 1 .. Len(queue) : queue'[i] = queue[j]
      BY <2>1
    <3>1. /\ queue[j].key \in Keys /\ queue[j].left \in 0 .. TTL
          /\ queue[j].left = 0 \/ queue[j].left + age[queue[j].key] <= TTL
      BY <1>0, ForgetTypes DEF EntriesAge
    <3>2. age'[queue[j].key] <= age[queue[j].key] /\ age'[queue[j].key] \in Nat
          /\ age[queue[j].key] \in Nat
      BY <1>0, <1>3, <3>1, ForgetTypes
    <3>3. \A l, m, n \in Nat : m <= n /\ l + n <= TTL => l + m <= TTL
      BY MapExpAssumption
    <3>4. queue[j].left \in Nat
      BY <1>0, <3>1, ForgetTypes
    <3> QED
      BY <3>1, <3>2, <3>3, <3>4, Zenon
  <2>2. CASE (Add(c) \/ Renew(c)) /\ queue'[i] = Entry(arg[c])
    <3>1. arg[c] \in Keys
      BY <1>0, ForgetTypes
    <3>2. age'[arg[c]] = 0
      <4>1. CASE age' = [age EXCEPT ![arg[c]] = 0]
        BY <1>0, <3>1, <4>1, ForgetTypes
      <4>2. CASE Renew(c) /\ ~Queued(arg[c]) /\ queue' = queue
        BY <2>2, <4>2 DEF Queued, Entry
      <4> QED
        BY <2>2, <4>1, <4>2 DEF Add, Renew, Touch
    <3> QED
      BY <1>0, <2>2, <3>2, ForgetTypes DEF Entry
  <2>3. CASE queue' = queue
    BY <2>1, <2>3
  <2>4. Add(c) \/ Renew(c) \/ queue' = queue
    BY DEF Set, Get, Delete
  <2> QED
    BY <1>0, <2>1, <2>2, <2>3, <2>4, NewestEntry
<1>7. ASSUME NEW d \in Callers, pc'[d] = "add"
      PROVE  age'[arg'[d]] = 0
  <2>1. CASE pc[d] = "add" /\ arg'[d] = arg[d]
    <3>1. age[arg[d]] = 0 /\ arg[d] \in Keys
      BY <1>0, <2>1, ForgetTypes DEF EntriesAge
    <3> QED
      BY <1>0, <1>2, <2>1, <3>1, ForgetTypes
  <2>2. ASSUME NEW k \in Keys, Set(c, k), d = c
        PROVE  age'[arg'[d]] = 0
    BY <1>0, <2>2, ForgetTypes DEF Set, Call, Touch
  <2>3. ASSUME NEW k \in Keys, Set(c, k), d # c
        PROVE  pc[d] = "add" /\ arg'[d] = arg[d]
    BY <1>0, <1>7, <2>3, ForgetTypes DEF Set, Call
  <2>4. ASSUME Add(c) \/ Renew(c) \/ \E k \in Keys : Get(c, k) \/ Delete(c, k)
        PROVE  pc[d] = "add" /\ arg'[d] = arg[d]
    BY <1>0, <1>7, <2>4, ForgetTypes DEF Add, Renew, Get, Delete, Call
  <2> QED
    BY <2>1, <2>2, <2>3, <2>4
<1>8. PurgedAtOnce'
  BY <1>0, <1>1 DEF PurgedAtOnce
<1> QED
  BY <1>5, <1>6, <1>7, <1>8 DEF EntriesAge

\* A purge takes every entry whose time is over, or stops at one that has time left.
LEMMA ForgetPurgeStep ==
    ASSUME ForgetInv, Purger
    PROVE  PurgedAtOnce' /\ EntriesAge' /\ ItemsKept'
<1>0. TypeOK /\ NoLeak /\ ExpiredKeysInHand /\ PurgedAtOnce /\ EntriesAge /\ ItemsKept
  BY DEF ForgetInv
<1>1. UNCHANGED <<timer, pc, arg, age>> /\ items' \subseteq items
  BY DEF Purger, Receive, Purge, DeleteExpired
<1>2. PurgedAtOnce'
  BY <1>0 DEF Purger, Receive, Purge, DeleteExpired, PurgedAtOnce
<1>3. EntriesAge'
  <2>1. \A i \in 1 .. Len(queue') : \E j \in 1 .. Len(queue) : queue'[i] = queue[j]
    BY <1>0, PurgedEntries DEF Purger, Receive, DeleteExpired
  <2> QED
    BY <1>0, <1>1, <2>1 DEF EntriesAge
<1>4. \A k \in items' : Kept(k, 2 * TTL)'
  BY <1>0, <1>1 DEF ItemsKept, Kept
<1>5. CASE Receive
  <2>1. ~(purger' # "purge")
    BY <1>5 DEF Receive
  <2> QED
    BY <1>2, <1>3, <1>4, <2>1 DEF ItemsKept
<1>6. CASE DeleteExpired
  <2>1. /\ purger # "purge" /\ fired' = fired
        /\ \A k \in items' : k \in items /\ k \notin expiredKeys
    BY <1>6 DEF DeleteExpired
  <2>2. ASSUME NEW k \in items', ~fired'
        PROVE  Kept(k, TTL + (TTL - timer))'
    <3>1. Kept(k, TTL + (TTL - timer))
      BY <1>0, <2>1, <2>2 DEF ItemsKept
    <3> QED
      BY <1>1, <3>1 DEF Kept
  <2> QED
    BY <1>2, <1>3, <1>4, <2>2 DEF ItemsKept
<1>7. CASE Purge
  <2> SUFFICES ASSUME NEW k \in items', k \notin expiredKeys', age[k] >= TTL
               PROVE  \E h \in Keys \ {k} : age[h] < TTL
    <3>1. timer' = TTL /\ TTL + (TTL - TTL) = TTL /\ TTL \in Nat
      BY <1>0, <1>1, <1>7, ForgetTypes DEF Purge, PurgedAtOnce
    <3>2. ASSUME NEW k \in items', k \notin expiredKeys'
          PROVE  Kept(k, TTL + (TTL - timer))'
      BY <1>1, <3>1, <3>2 DEF Kept
    <3> QED
      BY <1>2, <1>3, <1>4, <3>2 DEF ItemsKept
  <2> PICK n \in 0 .. Len(queue) :
             /\ n < Len(queue) => queue[n + 1].left > 0
             /\ expiredKeys' = {queue[i].key : i \in 1 .. n}
    BY <1>7 DEF Purge
  <2>1. k \in items /\ k \in Keys /\ expiredKeys = {}
    BY <1>0, <1>1, <1>7, ForgetTypes DEF Purge, ExpiredKeysInHand
  <2>2. ~\E c \in Callers : pc[c] = "add" /\ arg[c] = k
    BY <1>0, ForgetTypes DEF EntriesAge
  <2>3. PICK j \in 1 .. Len(queue) : queue[j].key = k
    BY <1>0, <2>1, <2>2 DEF NoLeak, Queued
  <2>4. ~(j <= n)
    BY <1>0, <2>3, ForgetTypes
  <2>5. n + 1 \in 1 .. Len(queue) /\ queue[n + 1].left > 0
    BY <1>0, <2>4, ForgetTypes
  <2> DEFINE h == queue[n + 1].key
  <2>6. h \in Keys /\ age[h] \in Nat /\ queue[n + 1].left \in Nat /\ age[h] < TTL
    BY <1>0, <2>5, ForgetTypes DEF EntriesAge
  <2>7. h # k
    BY <1>0, <2>1, <2>6, ForgetTypes
  <2> QED
    BY <2>6, <2>7
<1> QED
  BY <1>2, <1>3, <1>5, <1>6, <1>7 DEF Purger

\* Every tick of the ticker finds what the previous one was for done.
LEMMA ForgetTickStep ==
    ASSUME ForgetInv, ~late', Tick
    PROVE  PurgedAtOnce' /\ EntriesAge' /\ ItemsKept'
<1>0. TypeOK /\ ExpiredKeysInHand /\ PurgedAtOnce /\ EntriesAge /\ ItemsKept
  BY DEF ForgetInv
<1>1. /\ purger = "select" /\ ~fired /\ expiredKeys = {} /\ \A c \in Callers : pc[c] = "idle"
      /\ UNCHANGED <<items, pc, arg, purger, expiredKeys>>
      /\ timer' = IF timer = 1 THEN TTL ELSE timer - 1
      /\ fired' = (fired \/ timer = 1)
  BY <1>0 DEF Tick, Quiet, ExpiredKeysInHand
<1>2. PurgedAtOnce'
  BY <1>1 DEF PurgedAtOnce
<1>3. \A k \in Keys : /\ age[k] \in Nat /\ age'[k] \in Nat /\ age'[k] <= age[k] + 1
                     /\ age[k] <= age'[k]
  BY <1>0, ForgetTypes DEF Tick
<1>4. EntriesAge'
  <2>1. /\ Len(queue') = Len(queue)
        /\ \A i \in 1 .. Len(queue) :
             /\ queue'[i].key = queue[i].key
             /\ queue'[i].left = IF queue[i].left = 0 THEN 0 ELSE queue[i].left - 1
    BY <1>0, TickedEntries
  <2>2. ASSUME NEW i \in 1 .. Len(queue)
        PROVE  queue'[i].left = 0 \/ queue'[i].left + age'[queue'[i].key] <= TTL
    <3>1. queue[i].key \in Keys /\ queue[i].left \in Nat /\ TTL \in Nat
          /\ (queue[i].left = 0 \/ queue[i].left + age[queue[i].key] <= TTL)
      BY <1>0, ForgetTypes DEF EntriesAge
    <3>2. /\ age[queue[i].key] \in Nat /\ age'[queue[i].key] \in Nat
          /\ age'[queue[i].key] <= age[queue[i].key] + 1
      BY <1>3, <3>1
    <3>3. \A l, m, n, u \in Nat : l # 0 /\ m <= n + 1 /\ l + n <= u => (l - 1) + m <= u
      OBVIOUS
    <3>4. CASE queue[i].left = 0
      BY <2>1, <3>4
    <3>5. CASE queue[i].left # 0
      <4>1. queue'[i].left = queue[i].left - 1 /\ queue'[i].key = queue[i].key
        BY <2>1, <3>5
      <4>2. (queue[i].left - 1) + age'[queue[i].key] <= TTL
        BY <3>1, <3>2, <3>3, <3>5
      <4> QED
        BY <4>1, <4>2
    <3> QED
      BY <3>4, <3>5
  <2> QED
    BY <1>1, <2>1, <2>2 DEF EntriesAge
<1>5. ASSUME NEW k \in items, NEW t \in Nat, Kept(k, t), k \in Keys
      PROVE  age'[k] >= t + 1 => \E h \in Keys \ {k} : age'[h] < t + 1
  BY <1>3, <1>5 DEF Kept
<1>6. ItemsKept'
  <2> SUFFICES ASSUME NEW k \in items
               PROVE  /\ Kept(k, 2 * TTL)'
                      /\ ~fired' => Kept(k, TTL + (TTL - timer))'
    BY <1>1 DEF ItemsKept
  <2> DEFINE t == TTL + (TTL - timer)
  <2>1. k \in Keys /\ t \in Nat /\ Kept(k, t) /\ t + 1 <= 2 * TTL
    BY <1>0, <1>1, ForgetTypes DEF ItemsKept
  <2>2. age'[k] >= t + 1 => \E h \in Keys \ {k} : age'[h] < t + 1
    BY <1>5, <2>1
  <2>3. Kept(k, 2 * TTL)'
    BY <1>0, <1>3, <2>1, <2>2, ForgetTypes DEF Kept
  <2>4. ~fired' => t' = t + 1
    <3>1. ~fired' => timer' = timer - 1
      BY <1>1
    <3>2. \A m, n \in Nat : n + (n - (m - 1)) = (n + (n - m)) + 1
      OBVIOUS
    <3>3. timer \in Nat /\ TTL \in Nat
      BY <1>0, ForgetTypes
    <3> QED
      BY <3>1, <3>2, <3>3
  <2> QED
    BY <2>2, <2>3, <2>4 DEF Kept
<1> QED
  BY <1>2, <1>4, <1>6

\* Until a call or a purge takes time, every step keeps what there is in time.
LEMMA ForgetStep ==
    ASSUME ForgetInv, QueueKeysUnique, ~late', [Next]_vars
    PROVE  ForgetInv'
<1>1. TypeOK' /\ NoLeak' /\ ExpiredKeysInHand'
  BY TypeStep, LeakStep, InHandStep DEF ForgetInv
<1>2. CASE UNCHANGED vars
  BY <1>1, <1>2 DEF vars, ForgetInv, PurgedAtOnce, EntriesAge, ItemsKept, Kept
<1> QED
  BY <1>1, <1>2, ForgetCallStep, ForgetPurgeStep, ForgetTickStep DEF Next, ForgetInv

\* What has been late once is late for good.
LEMMA LateStep ==
    ASSUME late, [Next]_vars
    PROVE  late'
BY DEF Next, Set, Add, Get, Renew, Delete, Purger, Receive, Purge, DeleteExpired, Tick, vars

LEMMA ForgetInit == Init => ForgetInv
<1> SUFFICES ASSUME Init
             PROVE  ForgetInv
  OBVIOUS
<1>1. PurgedAtOnce /\ EntriesAge /\ ItemsKept
  BY DEF Init, PurgedAtOnce, EntriesAge, ItemsKept
<1> QED
  BY <1>1, TypeInit, LeakInit DEF ForgetInv

LEMMA ForgottenInTime == ForgetInv => ExpiresInTime
<1> SUFFICES ASSUME ForgetInv
             PROVE  ExpiresInTime
  OBVIOUS
<1>1. \A k \in items : age[k] \in Nat /\ TTL \in Nat
  BY ForgetTypes DEF ForgetInv
<1> QED
  BY <1>1 DEF ForgetInv, ItemsKept, Kept, ExpiresInTime

\* As long as no call and no purge has taken time, an item that nobody has set or renewed
\* for twice the time to live is gone, unless another key has been in use since: an
\* expired item can be kept back, but only for as long as the map is used.
THEOREM ItemsExpireInTime == Spec => []ExpiresInTime
<1> DEFINE InTime == late \/ ForgetInv
<1>1. Init => InTime
  BY ForgetInit
<1>2. TypeOK /\ QueueKeysUnique /\ InTime /\ [Next]_vars => InTime'
  BY ForgetStep, LateStep
<1>3. InTime => ExpiresInTime
  BY ForgottenInTime DEF ExpiresInTime
<1> HIDE DEF InTime
<1> QED
  BY <1>1, <1>2, <1>3, TypeCorrect, QueueHasNoDuplicates, PTL DEF Spec

=============================================================================
