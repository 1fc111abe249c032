# Anicetus in TLA+

Anicetus detects a thundering herd, a burst of requests considered the same, and
lets one of them through to a backend while it blocks the others. This directory
models the library and the HTTP proxy built on it, model-checks small instances
with TLC, and proves the results that hold for every instance with TLAPS.

Paths below are relative to the repository.

## 1. Inventory

| Part | State | Operations | Talks to |
| --- | --- | --- | --- |
| Core, `anicetus.go` | none | `Evaluate`, `RequestDone`, `Cleanup` | detector and gatekeeper, by calls |
| Gatekeeper, `gatekeeper.go` | none | `analyze`, `Store`, `Remove` | its storage, by calls |
| In-memory storage, `storage/inmemory.go` | a `sync.Map` of fingerprint to bool | `Exists`, `Processed`, `Store`, `Remove` | shared by all requests |
| Redis storage, `storage/redigo/redis.go` | one Redis key per fingerprint, without expiration | the same, a command each | shared by all instances |
| In-memory detector, `detector/tokenbucket_inmemory.go` | two expiring maps: cooldowns, limiters | `CoolDown`, `IsCoolDown`, `IsThunderingHerd` | expiring map, limiter |
| Redis detector, `detector/redigo` | two Redis keys per fingerprint | the same, one a Lua script | Redis |
| Expiring map, `internal/mapexp` | items, expiration queue, two mutexes, ticker, goroutine | `Set`, `Get`, `Delete`, `Stop`, the purging round | detector's goroutines |
| Limiter, `internal/rate` | tokens, last, lastEvent, under a mutex | `Allow`, `Reserve`, `Cancel`, `Wait`, `SetLimit`, `SetBurst` | detector's goroutines |
| Fingerprint, `fingerprint/http_request.go` | a pointer to the request | `Fingerprint` | the request it hashes |
| Proxy, `internal/http` | one handler per request | `anicetusHandler`, `forwardRequest` | core, backend, client |
| Process, `cmd/anicetus-http` | listener, signal | start, shutdown after 5 seconds | proxy |
| Options, configuration, example backend, Helm chart | none of interest | - | - |

A request's handler computes the fingerprint and calls `Evaluate`, which asks the
detector whether the fingerprint cools down and whether it is a herd. In a herd the
gatekeeper looks the fingerprint up: no entry makes this request the chosen one
(`StatusProcess`) and stores `false`; `false` blocks (`StatusWait`); `true` lets
through (`StatusOpenGates`). The chosen request is forwarded; when the backend
answers, `RequestDone` stores `true` and starts the cooldown; when anything fails,
`Cleanup` removes the entry.

What is hard here. No lock spans two calls, so every call of every request may
interleave with every other. Blocked requests depend on one request to come back on
every path. The detector may change its verdict while a request is being processed. Writes
may fail, or fail and have taken effect. The expiring map has two mutexes that are
never held together. The fingerprint is computed several times from a request that
changes. Time enters through a ticker, a time to live and the limiter's clock.

What makes each part correct:

- core and gatekeeper: one request is processed per herd at a time; requests are
  blocked only while it is; the block is lifted; a released gate is not closed again;
- proxy: every request is answered, with what happened to it; only GETs are analysed;
- expiring map: nothing leaks, nothing expires early or much too late;
- limiter and detectors: no more than the burst and the refill are let through; a
  herd is detected; a cooldown begins and ends.

`PROJECT.json` lists the components, and under `hazards` each of these difficulties
at its line with the properties that watch it.

## 2. Modules

| Module | What it is |
| --- | --- |
| `HerdGate` | abstract specification: per fingerprint a gate and its leaders, changed by atomic elections, completions and removals |
| `Anicetus` | the core over the gatekeeper, its storage and a detector, one action per call |
| `AnicetusProofs` | theorems about `Anicetus`, and that it implements `HerdGate` |
| `AnicetusHTTP` | the proxy's handlers; extends `Anicetus`, whose actions are their library calls |
| `AnicetusHTTPProofs` | theorems about the proxy, and that it uses the core as `Anicetus` has it |
| `HTTPRequest` | what is hashed of a request, and what forwarding it changes |
| `HTTPRequestProofs` | the configurations under which a request keeps its fingerprint |
| `HerdBucket` | abstract specification of a detector: a token bucket per fingerprint, drained by a denial |
| `TokenBucketRedis` | the Redis detector: the script over expiring keys |
| `TokenBucketRedisProofs` | theorems about it, and that it implements `HerdBucket` |
| `AnicetusRedis` | the core over the Redis detector, with calls that fail and instances that die |
| `AnicetusRedisProofs` | the composition implements both of its parts, and so keeps what is proved of them |
| `TokenBucketInMemory` | the in-memory detector, over two instances of `MapExp` |
| `TokenBucketInMemoryProofs` | theorems about it, and that it uses the maps as `MapExp` has them |
| `MapExp` | the expiring map |
| `MapExpProofs` | theorems about `MapExp` |
| `RateLimiter` | the token bucket with its penalty |
| `RateLimiterProofs` | theorems about `RateLimiter` |
| `MCAnicetus`, `MCAnicetusHTTP`, `MCAnicetusRedis`, `MCTokenBucketInMemory`, `MCMapExp`, `MCRateLimiter` | symmetry sets, sample requests and fingerprint functions for TLC |

### `Anicetus`

`storage[f]` is the gatekeeper's entry: absent, `pending` (stored `false`) or
`processed` (stored `true`). `pc[r]` is the next call of request `r` or the status it
was given, so an action is what happens from one call on a shared component to the
next. `IsCoolDown`, `IsThunderingHerd`, `Remove` are `Evaluate`; `Exists`,
`Processed`, `Store` are `Gatekeeper.analyze`; `RequestDoneStore` and
`RequestDoneCoolDown` are `RequestDone`. `Return` is a caller with nothing more to
ask. A request slot is used again and again.

Both storages make each call atomic: `sync.Map` operations, or one Redis command. The
in-memory one never fails. The Redis one may: `PutFails` is a write that returns an
error and may have been carried out, because a reply can be lost. `Crash` ends a request wherever
it is and leaves the shared storage as it is: this happens to handlers still running
when the server's five seconds of shutdown are over. `faulted` is a history variable:
the fingerprints on which a write failed or a crash fell.

The detector is the interface of `anicetus.go`. Its verdict is any of `HerdVerdicts`
at any moment, and any of its cooldowns end at any moment, several at once if they do.
The two implementations have modules of their own.

`Serialized` states an assumption about callers, that no two `Evaluate` calls of one
fingerprint overlap. The proxy does not ensure it; it delimits what is provable.

### `AnicetusHTTP`

`handler[r]` is where `anicetusHandler` stands, `forwards[r]` how often the backend
was asked, `response[r]` the first status line written. A method other than GET is
forwarded and, as in the code, then evaluated. `Fingerprint(r)` is the hash of the
request as it is now: `forwardRequest` writes the backend's scheme and host into its
URL and `X-Forwarded-For`, `Anicetus-Status` and `Anicetus-Fingerprint` into its
headers, and `RewrittenAs` says what that does to the hash. `Serve` is what a handler does
by itself, up to the status line (`Deliver`); from there it is `copying`, and `CopyEnds` and
`CopyFails` are the copy of the body, which takes as long as the client reads. What
the body and the copied headers say is left out.

### `HTTPRequest`

`FingerprintOf` is `Fingerprint`: the selected fields in their order, then headers, then
cookies, with nothing between them, or the empty fingerprint if the body cannot be read or a
cookie is missing. A string is a sequence of parts and a hash the sequence of what was
written. `Rewritten` is the handler's request after `forwardRequest`, which shares its URL,
header map and body. `Fingerprinted` is what `Fingerprint` itself changes: the body becomes a
copy, which can be read to its end and then is empty, where the connection's would be
closed and fail.

`Unwritten`, in `HTTPRequestProofs`, lists what changes a fingerprint on the way: `scheme`
(received without one), the host of a request without a Host header, a body, the two
`Anicetus-` headers, and `X-Forwarded-For` unless the request came with one. The default fields
avoid all of these, so that `RewrittenAs` is the identity. `MCAnicetusHTTP` has TLC evaluate this
for a few requests under the configuration it runs, as an assumption.

### `HerdBucket` and `TokenBucketRedis`

A bucket is counted in units of which one comes in per unit of time; a token is
`LimitersInterval` of them. `stored`, `tokens`, `since`, `ttl` are the hash of a fingerprint: whether
it exists, its two fields (the time since `last_refreshed`) and its expiration. The script is
atomic in Redis, so its two branches are `Grant` and `Drain`. HMSET keeps the expiration a
key has, hence `Drain` leaves `ttl` alone. That branch creates a key only if the burst is 0,
which nothing in the options or the configuration rejects: then nothing is ever granted, no
key expires, and every request is a herd (`EveryBucketExpires` says when keys do).
A negative burst would do the same. `cooling` is the key of a cooldown.
`Tick` is Redis: time passes, keys expire.

`HerdBucket` is what the README of the repository promises, a bucket drained while
in a herd, and lets a store forget a bucket that would be full had nobody been
punished. `undrained` is that bucket without penalties, a history variable.

### `AnicetusRedis`

`Anicetus` is instantiated with `cooldowns` the keys that exist and no fixed verdicts;
every step is one of `Anicetus`, and `Verdict` joins the script's branch with the core's step.
`Fault` is any call that fails, or a crash, at most `MaxFaults` times; the script may have
run before its reply was lost. `FinishCoolDown` is why no cooldown succeeds: `CoolDown` reads
the reply of SET, `OK`, with `redis.Int` (`tokenbucket_redis.go:104`), which returns an
error; the same reply is read with `redis.String` at `storage/redigo/redis.go:92`.
That `redis.Int` fails on a string that is no number is a fact about the client
library, which is not in the repository.

### `TokenBucketInMemory`

`Cooldowns` and `Limiters` are instances of `MapExp`, so that each step of `Get`, `Set` and of
the purging goroutines interleaves with everything else. `limiter[f]` is the pointer in the
map, `units` the bucket behind a pointer, `held[c]` the pointer a caller has read or created:
it may be one that the map no longer has. A limiter here is the bucket that `RateIsRespected` and
`DenialsAreJust` show `RateLimiter` to be when it is only asked to `Allow`, a
step of its own. `level` is the one bucket that the fingerprint should have,
`used` the ages of its latest tokens and `sinceCoolDown` the time since `CoolDown`: history
variables. Time passes between calls and purges only, so that neither map is ever `late`.

### `MapExp`

`items` and `queue` are the two halves of the map, behind their own mutexes; hence `Set` is
`Set` then `Add`, `Get` is `Get` then `Renew`, and the goroutine's round is `Receive`,
`Purge`, `DeleteExpired`. Time is relative: a queue entry carries what is left of
its TTL, the ticker what is left of its period, which the code makes equal to the TTL. Only
the presence of keys is kept. `age` and `late` are history variables; from the moment time
passes during a call or before a purge is over the map is `late`, and `ExpiresInTime` is not
promised any more. `Stop`
is left out: nothing in the repository calls it, and it would panic, because it closes
a channel `New` never makes (`map.go:78`).

### `RateLimiter`

`limit`, `burst`, `tokens`, `last`, `lastEvent` are the fields of `Limiter`. Every
method reads the clock, then takes the lock: `Allow`, `Reserve`, `Wait`, `Cancel`,
`SetStart` are the first step, the actions of `Locked` the second; `Check` is the lock
`wait` takes to compare with the burst. `reserveN` is `GrantInf`, `Grant` or `Deny`,
by its three outcomes; `Asked`, `Delay`, `Fits` are its intermediate values. `Act` is
the holder of a reservation using it once it is due.

Tokens are floating-point numbers in the code. Here they are whole units, `Unit` to a
token, and a limit is the units that come in per unit of time. `time.Duration`
truncates; so does `durationFromTokens`. `Inf` is, as in the code, only a very
large limit, to which `reserveN` and `CancelAt` make an exception.

`level` is a history variable, the bucket of the documentation (`rate.go:34`):
refilled by the time that really passes, up to the burst, emptied by a denial, and drawn from when an
event happens, which for `Allow` is the grant and for a reservation is `Act`. From the moment
`unsettled` holds the bucket is not followed. Two things set it, and both spoil what `CancelAt`
computes from `lastEvent` (`rate.go:184`), the latest reservation as it supposes:

- a denial or a setting that falls while a reservation is held (`Disturb`), the price of the
  penalty: it sets the tokens to zero even when they are negative, so the debt of those who
  reserved is forgotten, and it moves `lastEvent`. Two denials in a row make `CancelAt` give back
  more than the reservation took;
- a reservation that is overtaken (`Overtake`). When one that is not the
  latest is cancelled, it gives tokens back at once, so that a small new one may be granted for
  a moment before the latest. `lastEvent` goes back to it, and when the latest is cancelled, the time from
  its own moment to `lastEvent` is negative: it gives back more than it took. TLC refutes
  `RateRespected` without this exception.

The program never reserves; both are hazards of the package's interface.

`Usages` are the sets of methods that the callers of one limiter use together, and
`methods` is the one of this behaviour. Where `methods` is not in `Late`, a call takes no
time and a reservation is used when it is due. Where it is, calls may wait for the lock, and
one that does sets the limiter's clock back to the time it read (`rate.go:391`): the time in between refills
the bucket twice. `waited` is a history variable, the units that came in during such waits
since the promised bucket was last full.

## 3. Runs

Passing:

| Run | Instance | Shows |
| --- | --- | --- |
| `core_faults` | 3 requests, 2 fingerprints, all verdicts, all failures | `TypeOK`; `PendingHasLeader`: a fingerprint is blocked only while one of its requests is processed, unless a write of it failed or its instance died |
| `core_serialized` | 3 requests, 2 fingerprints, unbroken herd, detector failures | `SingleLeader`, `NeverReclosed`, the inductive `EntryFollowsOwner`, and refinement of `HerdGate` (`KeepsPromise`) |
| `http_proxy` | 2 handlers, 2 fingerprints, GET and POST, default fields, detector and backend failures, working storage | `BlockedOnlyWhileProcessing`; `WaitsForProcessing`: a request is told to wait only while one is processed, or if the entry it saw was removed before it read the flag (`gatekeeper.go:23-34`); `GateReopens`: no block is for ever; `EveryRequestAnswered`: every request gets a status line whatever clients do, and its handler ends if clients read on or go away; `GetAnsweredFaithfully`: a backend answer means one forward, a 503 none |
| `redis_herd` | 2 requests, 1 fingerprint, burst 2, a token in 2 units of time, 2 faults | `KeepsBucket`: the script implements `HerdBucket`; `NeverMoreThanOrdinary`, `OutlivesDebt`: a key that expires in a herd forgets a penalty and no grant; `EveryBucketExpires`; `BlockLifted`: an entry that lost its request blocks only until the herd's bucket expires, which takes a burst of at least 1 |
| `inmemory_detector` | 2 callers, 1 fingerprint, burst 2, a token in 2 units, cooldown 2 | `HerdOnlyWhenShort`: duplicated, replaced, evicted limiters never make a herd of what is none; `BoundedBursts`: they let through a burst per caller and one more at one moment; `EvictionLosesNothing`: at the moment a limiter leaves the map it is full; `CoolDownLasts`: a cooldown is not over early, but for one set at the moment an earlier one is deleted |
| `mapexp_concurrent` | 2 keys, 2 callers, TTL 2, any delay | `NoLeak`, `QueueKeysUnique`; `ExpiresNotEarly`: what is purged is due; `ExpiresInTime`: what is not used is gone after two TTLs, but for what another key in use holds back, until the map is late; and `MapEmpties` once calls stop |
| `limiter_prompt` | 2 callers, burst 3, a token in a unit of time, 5 units; allow with settings, allow with reservations, waits with settings, all prompt; allow with `SetBurst`, however late | `RateRespected`: what happens fits the promised bucket, which late callers overdraw by no more than came in while they waited; `DeniedOnlyWhenShort`: without reservations and late callers, a denied call asked for more than it holds |

Violations, each a disagreement of the code with its own words:

| Run | Property | What happens |
| --- | --- | --- |
| `core_overlap` | `SingleLeader` | two requests pass `Exists` before either calls `Store` (`gatekeeper.go:23`); both are told to process |
| `http_post` | `OnlyGetAnalyzed` | no `return` after a non-GET was forwarded (`handlers.go:30`) |
| `inmemory_window` | `HerdOnlyAboveLimit` | the requests per minute are the burst, and a minute the time for one token (`resources.go:30`): after a burst, the second request of any later minute is a herd |
| `inmemory_cooldown` | `CoolDownEnds` | `IsCoolDown` renews what it reads (`tokenbucket_inmemory.go:48`): under traffic the cooldown never ends |
| `redis_cooldown` | `RequestDoneSucceeds` | the reply of SET is read as an integer (`tokenbucket_redis.go:104`): every `RequestDone` of an elected request fails, after the cooldown was set; a handler over this detector would answer 500 and remove the entry (the shipped proxy configures the in-memory one) |

Five more things these models show when an instance is changed, and which the hazards'
notes record: `SingleLeader` fails with `HerdVerdicts = {TRUE, FALSE}` even when callers do not
overlap, because a request that is no herd removes the entry of the one being
processed (`anicetus.go:41`); `BlockedOnlyWhileProcessing` fails when `RewrittenAs` is not the
identity; `ExpiresInTime` fails without its exception for other keys, because one that is
renewed at the head of the queue holds back all behind it (`expiration_queue.go:64`); and
an item set between purge and deletion is deleted with what was purged (`map.go:65`), hence the
exceptions in `ExpiresNotEarly` and `CoolDownLasts`; and `RateRespected` fails without
`Overtake`, as told above (`rate.go:192`).

The exception in `PendingHasLeader` is needed. An error of `Cleanup` is only logged,
a failed `Store` may have stored `false`, and Redis entries have no expiration, so
after a lost write or a crash a fingerprint stays blocked until a request comes that
the detector does not take for a herd, whose `Remove` lifts the block.

Every property of a passing run has a mutant, a plausible bug written as an operator
above the definition it would replace, under which TLC finds the property violated.

### Bounds

Nothing in the models but the limiter's clock and the number of faults grows without bound,
and both are bounded in guards, so no state constraint is used.

- Requests: three in `Anicetus`. The interactions are pairwise (check and store,
  removal under a leader), and a third lets a herd form while two collide. Two
  in `AnicetusHTTP`, whose handlers have many more states; slots are reused, so an unbounded
  sequence of requests passes through.
- Fingerprints: two, the fewest in which a step on one could disturb another.
- Keys and callers: two of each in `MapExp`; the queue's order matters from two keys on.
- TTL: 2 units, and 4 for limiters. One would make every tick an expiration; from two on an
  item can miss a tick. `MaxAge` = 2 TTL: ages beyond it are alike for the property.
- `inmemory_detector`: one fingerprint, because fingerprints share only the maps' queues,
  and what keys do to each other there is `MapExp`'s subject, checked with two keys (the queue's
  order, and one key holding back another). Two callers can create
  two limiters while a third waits for deletion: `BoundedBursts` is tight, 6 is
  reached. The times that history variables count stop where the properties no longer
  tell them apart.
- `redis_herd`: `MaxFaults` 2, so that an entry loses its request and a later
  call fails too. A burst of 2 lets grants and penalties alternate; `Second` 3 does not
  divide the 4 units of a full bucket, so that rounding matters. One fingerprint,
  because keys of different fingerprints do not meet.
- Limiter: `MaxTime` 5, time to refill the whole bucket of three tokens and more; `MaxDebt` 1: a
  reservation is asked for only while the tokens are not further below zero. A cancelled
  reservation is not given back in full when another was made after it, so that at one
  moment the tokens could fall for ever. Two callers: a cancellation depends on what was
  reserved after it, one holder is enough for that; a caller's slot is reused, so that two are also
  enough for an overtaken reservation, with sizes 1 and 3. Limits zero, one unit, two, which
  the limiter starts with, and infinite; a token is two units, so that there are parts of a
  token. Late callers are checked with `SetBurst`,
  whose cap makes the bound delicate; late callers of `SetLimit` are left to the theorem.
- `forwards` never exceeds 2 by itself, and `HTTPTypeOK` states it.

Symmetry is used in `core_faults`, `limiter_prompt` and `inmemory_detector`, which have no
liveness property; the action properties of the latter two name no particular caller.

### Fairness

- `Anicetus`: weak fairness of each request's own steps. Goroutines are scheduled and
  every call returns. No client is obliged to send or retry, no verdict or cooldown to
  come, no crash to happen.
- `AnicetusHTTP`: weak fairness of `Serve`, a handler's own steps up to the status line. The
  backend's answer counts as one, because the client that asks it has a timeout
  (`ANICETUS_BACKEND_TIMEOUT`, a minute by default); with a timeout of zero there is none and the
  liveness results do not hold. The copy of the body (`request.go:95`) is not fair: the server has no
  WriteTimeout (`cmd/anicetus-http/main.go:55`), so a client that stops reading holds its handler
  for ever. By then it has written its status line and released the gate it closed, so `GateReopens`
  and the first half of `EveryRequestAnswered` need nothing of clients; the second half, that the
  handler ends, assumes in the property that they read on or go away. Nor is there a ReadTimeout:
  to hash a body waits for the client to send it (`http_request.go:171`), but the default fields,
  with which the liveness results are checked, leave the body out.
- `MapExp`: weak fairness of a call's second step, of the goroutine and of time.
- `AnicetusRedis`: weak fairness of each request's own steps when they succeed, and of time.
  Faults are never obliged. `BlockLifted` supposes, in the property itself, that requests of the
  fingerprint keep reaching the detector: clients of a herd retry.
- `RateLimiter` and `TokenBucketInMemory` have no liveness property and no fairness.

Deadlock is checked in every run.

## 4. Proofs

All theorems hold for any set of requests, fingerprints, keys and callers, finite or
not, except that the in-memory detector's callers and fingerprints are finite, for its limiters are
numbered.

`AnicetusProofs`:

- `TypeCorrect` and `PendingAlwaysHasLeader` need no assumption: every interleaving and
  every failure is covered. `PendingHasLeader` is inductive together with `TypeOK`: only `Store` makes an
  entry pending, and makes its request `StatusProcess` in the same step; that
  status is left by `RequestDone`, `Cleanup` or a crash, which change the entry or set
  `faulted`.
- `HerdHasSingleLeader`, `GateNeverReclosed` and `AnicetusKeepsPromise` assume
  `UnbrokenHerd`: callers of one fingerprint do not overlap in `Evaluate`, the verdict stays
  TRUE, storage and instances do not fail (the detector may). None can be
  dropped: `core_overlap` refutes `SingleLeader` without the first, TLC does without the
  second, and a `Store` that fails and has taken effect leaves an entry without its owner.
  `SingleLeader` is not inductive: it says nothing of a request that has seen no
  entry and is about to store one. `EntryFollowsOwner` adds this: a
  request at `Store` has an absent entry, one at `StatusProcess` a pending one, one
  inside or after `RequestDone` a processed one, and each fingerprint has one such
  request at most. `OwnerStep` proves it inductive, action by action.
- The refinement maps `gate` to `storage` and `leaders` to the requests at
  `StatusProcess`. `PromiseStep`: `Store` elects, `RequestDoneStore` serves, `Cleanup`
  aborts before and forgets after it, everything else stutters.

- `NobodyBlockedInVain`: where no write fails and no instance dies, `faulted` stays empty and
  the exception of `PendingHasLeader` with it (`BlockedOnlyWhileProcessing`). That speaks of entries;
  `WaitsForProcessing` speaks of the answer: only `Processed` gives StatusWait, and if it still
  finds an entry, one that is pending, then a request is processing it (`WaitStep`). The
  exception, an entry removed between `Exists` and `Processed`, is real.

`AnicetusHTTPProofs`:

- `HTTPTypeCorrect` and `GetAlwaysAnsweredFaithfully` need no assumption.
  `HandlerFollowsCall` ties where the handler is to where the library is, and `Counts` how often a
  request was forwarded to both; the answers follow from the two.
- `ProxyUsesLibrary`: under `KeepsFingerprint` every step of a handler is one of `Next`
  or a stutter, because a request in the library's hands is known there by the fingerprint
  it came with. `ProxyBlocksOnlyWhileProcessing` carries both halves of
  `NobodyBlockedInVain` along it. The results that assume `UnbrokenHerd` are not: the proxy
  holds no lock around `Evaluate` and does not meet it.

`HTTPRequestProofs`:

- `ForwardingKeepsFingerprint`: a request that is `Unwritten` has the same
  fingerprint before and after. Each part that is written to the hash is shown to be unchanged.
- `DefaultProxyBlocksOnlyWhileProcessing` discharges `KeepsFingerprint` for the default
  fields and any requests that name a host, and so has the same two statements of the
  proxy as it is configured by default.

`TokenBucketRedisProofs`:

- The invariant is the conjunction of the four invariants of `redis_herd` and that an absent key
  has no expiration (`AbsentHasNoTTL`). The one that carries the others is `OutlivesDebt`,
  `ttl + undrained >= Capacity`: a grant takes a token
  from `undrained` and sets `ttl` to at least the time of a whole bucket (`RoundUp`); a unit
  of time takes one from `ttl` and adds one to `undrained`; a penalty changes neither. So a
  key that expires has a bucket that would be full.
- `RedisKeepsBucket`: `Grant` and `Drain` are `HerdBucket`'s, and `Tick` is its `Pass`, whose
  forgotten buckets are the keys that expire.
- `BucketsExpire`, for every burst: every key has an expiration if the burst is at least 1, and
  none if it is 0.

`AnicetusRedisProofs`:

- `HerdUsesDetector` and `HerdUsesLibrary`: a behaviour of the composition is one of
  `TokenBucketRedis` and one of `Anicetus`, faults included. `HerdKeepsBucket`,
  `HerdRateOfOrdinaryBucket` and `HerdPendingHasLeader` follow from the theorems of the two. So
  does `HerdBlocksOnlyWhileProcessing`, with `faults` counted: `FinishCoolDown` fails and leaves
  `faulted` alone. It has both halves too, of entries and of answers.

`TokenBucketInMemoryProofs`:

- `MapsAreUsedAsGiven`: each map sees only steps of `MapExp`, so the theorems of
  `MapExpProofs`, instantiated, hold of both.
- `HerdsAreShort`: `Covered` says that every limiter that serves a fingerprint, as the one
  in the map or in the hands of a caller, holds at least the units of the fingerprint's one
  bucket. New limiters are full, time refills all of them alike, and a grant
  takes as much from the bucket as from the limiter in hand and from the others nothing.
- `BurstsAreBounded`: at one moment a fingerprint has had what one bucket holds, until a
  caller creates a limiter (`FirstBurst`); then the map does not lose the limiter before time passes
  (`Fresh`), so that only callers that had found none can replace it, each once (`MoreBursts`).
- `UnusedItemsAreForgotten`: `ExpiresInTime` of both maps, from the lemmas of `MapExpProofs`; the
  detector's time passes only between calls and purges, so that they are never late.
- `CoolDownsLast`: `EntriesLast` of the map of cooldowns, with `FollowsCoolDown`: its ages
  are those of the cooldowns at most, and what it has purged is over or was set again just now.
- `EvictionsLoseNothing`: `Refilled` says that the time left to a limiter's entry in the queue
  and the units it holds make up a full bucket, so that it is full when its time is over;
  `Renewed`, that a caller about to take a token has renewed the entry first.

`MapExpProofs`:

- `TypeCorrect`, for any TTL greater than zero (`MapExpAssumption`: `time.NewTicker` panics otherwise).
- `NothingLeaks`: `NoLeak` is inductive with `ExpiredKeysInHand`, that the goroutine
  holds purged keys only until it has deleted them. Lemmas say what `add`, `renew` and `purge` do to
  the keys of the queue.
- `QueueHasNoDuplicates`: `add` removes the first entry of a key, which is enough
  because there is never a second.
- `NothingExpiresEarly`, with no assumption on delays: `EntriesLast` says that the time left to a
  key's entry and the time since its last use make up a TTL at least, unless a `Set` of it is
  under way.
- `ItemsExpireInTime`: the invariant holds until the map is `late`. `Kept` bounds what an
  unused item can have missed: at a tick at which it is due, it is purged, or an entry before it in the queue is not due and so belongs to a key
  in use. The bound is two TTLs because the ticker does not know when items are set.

`RateLimiterProofs`:

- `TypeCorrect`, for every use and any delays: `last` and the times calls have read are
  never ahead of `now`.
- `RateIsRespected` and `DenialsAreJust` assume `DropOnly`, the use the program makes of a limiter
  (`detector/tokenbucket_inmemory.go:56-61`): only `Allow` asks for tokens, the settings may
  change, and a unit is what the finite limit brings in per unit of time. Callers may be late.
  The inductive `Bucket` says that the tokens are never a debt and, brought up to the present
  (`Advance(now)`), exceed the promised bucket by no more than `waited`: a call that took its time
  `d` ago makes the limiter bring in the last `d` again, which is what it adds to
  `waited` (`TakenPast`), and a full bucket forgets all excess. TLC finds that no smaller bound holds.
  Where callers are prompt, `Exact`, the two are equal, hence `DenialsAreJust`.
  `OneMore` (a unit of time brings in the limit) carries `Tick`; `GrantedIsCovered` and
  `DeniedIsShort` carry `Grant` and `Deny`.
- `ReservationsAreKept` and `NoneIsOvertaken` assume `ReserveOnly`: any finite number of callers
  allow, reserve ahead for as long as they like, act when due, and change the settings; they are prompt
  and do not cancel. `RateRespected` says only that the bucket is not overdrawn by now, so
  `Covered` must also speak of what is still to happen. `Owed(call, T)` is what is reserved to
  happen at the moments `T`, counted as a set of units so that no induction over the callers is
  needed (`OwedMore`: a reservation more is its units more). With `A` what the
  limiter believes to have at present, `Covered` says that nothing is due after the debt `-A` is
  repaid; that the promised bucket holds `A` and all that is owed; that at every later moment
  it will have what is owed up to then; and, because a full bucket loses what comes in, that
  what is owed from any future moment to another is within a full bucket and what comes in
  between. `ReservedIsCovered` and `TickIsCovered` are the two steps that need all four. TLC checked
  `ReserveInv` on two callers up to 9 units of time and on three up to 4 before it was proved.

Only model-checked: `GateReopens`, `EveryRequestAnswered`, `MapEmpties` and `BlockLifted`
(liveness is out of the prover's reach); reservations that are cancelled, by their holders or
because the context of `Wait` ends, and reservations across limits other than one unit and none.

## 5. Plan

Done: 1. `HerdGate`, `Anicetus`; 2. `AnicetusHTTP`; 3. `MapExp`; 4. `RateLimiter`;
5. `TokenBucketInMemory`; 6. `HerdBucket`, `TokenBucketRedis`, `AnicetusRedis`; 7. `HTTPRequest`;
the proofs above.

Next, in this order:

8. Core and in-memory detector together: a fingerprint left at `true` after its
   cooldown is let through by every later herd until a request that is none removes it.
9. A proof of `RateRespected` for reservations that are cancelled and not overtaken.

## 6. Not modelled

- The bytes of a fingerprint, and the parsing of its fields' names.
- Configuration but for the default fields, options, resources: straight-line code. Intervals
  whose product overflows make `time.NewTicker` panic at start; a cooldown that is no
  whole number of seconds makes Redis reject SET. The assumptions on constants exclude both.
- The script's branches for an HMSET that returns nothing: `redis.call` raises an error
  instead. Redis's clock going backwards.
- The example backend, the Helm chart and the container files.
- Logging, the response's headers and body, HTTP keep-alive and the connection pool.
- Panics inside a handler, which `net/http` recovers.
