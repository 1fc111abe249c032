------------------------------ MODULE Anicetus ------------------------------
(***************************************************************************)
(* The library's core: Anicetus.Evaluate, RequestDone and Cleanup over the *)
(* Gatekeeper, its storage and a Detector.  Every call on the storage or   *)
(* on the detector is one atomic step (sync.Map, a mutex or one Redis      *)
(* command makes it so); between two calls any other request may run.      *)
(*                                                                         *)
(* The detector is the interface of anicetus.go: a cooldown set that       *)
(* CoolDown fills and time empties, and a verdict that may be any of       *)
(* HerdVerdicts at any moment.  The storage is the interface of            *)
(* gatekeeper.go as both implementations provide it.                       *)
(*                                                                         *)
(* The caller is the proxy's handler: a request told StatusProcess is      *)
(* processed and then either RequestDone is called or, when processing,    *)
(* RequestDone or the delivery of the response failed, Cleanup.            *)
(***************************************************************************)
CONSTANTS
    Requests,       \* slots for requests in flight; a slot is used again and again
    Fingerprints,   \* groups of requests considered the same
    HerdVerdicts,   \* what IsThunderingHerd may answer, a subset of BOOLEAN
    Serialized,     \* TRUE when callers never overlap two Evaluates of one fingerprint
    Failures        \* which of "detector", "storage", "crash" may happen

ASSUME AnicetusAssumption ==
    /\ HerdVerdicts \subseteq BOOLEAN
    /\ Serialized \in BOOLEAN
    /\ Failures \subseteq {"detector", "storage", "crash"}

VARIABLES
    storage,        \* GatekeeperStorage: "absent", "pending" (false), "processed" (true)
    cooldowns,      \* fingerprints the detector holds in cooldown
    fingerprint,    \* fingerprint[r]: the one Evaluate computed for r
    pc,             \* pc[r]: the call r makes next, or the status it was given
    faulted         \* history: fingerprints a storage write failed on, or a crash hit

vars == <<storage, cooldowns, fingerprint, pc, faulted>>

-----------------------------------------------------------------------------
Entries == {"absent", "pending", "processed"}

\* Inside Evaluate, before its result is known.
Evaluating == {"IsThunderingHerd", "Remove", "Exists", "Processed", "Store"}

\* What Evaluate returns: never StatusNone.
Statuses == {"StatusFailed", "StatusProcess", "StatusWait", "StatusOpenGates"}

\* Inside RequestDone after its first call, and the two ways it returns.
Finishing == {"CoolDown", "DoneFailed", "Done"}

Init ==
    /\ storage = [f \in Fingerprints |-> "absent"]
    /\ cooldowns = {}
    /\ fingerprint \in [Requests -> Fingerprints]
    /\ pc = [r \in Requests |-> "idle"]
    /\ faulted = {}

Goto(r, label) == pc' = [pc EXCEPT ![r] = label]

\* The storage's Exists and Processed.
HasEntry(f) == storage[f] # "absent"
IsProcessed(f) == storage[f] = "processed"

Put(f, entry) == storage' = [storage EXCEPT ![f] = entry]

\* A failed write: the error says nothing about whether the entry was written
\* (a Redis reply may be lost after the command ran).
PutFails(f, entry) ==
    /\ "storage" \in Failures
    /\ faulted' = faulted \cup {f}
    /\ storage' = storage \/ Put(f, entry)

-----------------------------------------------------------------------------
\* Evaluate, one action per call.

Admitted(r, f) ==
    Serialized => \A q \in Requests \ {r} : fingerprint[q] = f => pc[q] \notin Evaluating

IsCoolDown(r, f) ==
    /\ pc[r] = "idle"
    /\ Admitted(r, f)
    /\ fingerprint' = [fingerprint EXCEPT ![r] = f]
    /\ \/ "detector" \in Failures /\ Goto(r, "StatusFailed")
       \/ f \in cooldowns /\ Goto(r, "StatusOpenGates")
       \/ f \notin cooldowns /\ Goto(r, "IsThunderingHerd")
    /\ UNCHANGED <<storage, cooldowns, faulted>>

IsThunderingHerd(r) ==
    /\ pc[r] = "IsThunderingHerd"
    /\ \/ "detector" \in Failures /\ Goto(r, "StatusFailed")
       \/ TRUE \in HerdVerdicts /\ Goto(r, "Exists")
       \/ FALSE \in HerdVerdicts /\ Goto(r, "Remove")
    /\ UNCHANGED <<storage, cooldowns, fingerprint, faulted>>

Remove(r) ==
    /\ pc[r] = "Remove"
    /\ \/ Put(fingerprint[r], "absent") /\ Goto(r, "StatusOpenGates") /\ UNCHANGED faulted
       \/ PutFails(fingerprint[r], "absent") /\ Goto(r, "StatusFailed")
    /\ UNCHANGED <<cooldowns, fingerprint>>

\* Mutant: the flag is read where existence is meant, so a blocked key looks new.
ExistsIgnoresPending(r) ==
    /\ pc[r] = "Exists"
    /\ \/ storage[fingerprint[r]] = "processed" /\ Goto(r, "Processed")
       \/ storage[fingerprint[r]] # "processed" /\ Goto(r, "Store")
    /\ UNCHANGED <<storage, cooldowns, fingerprint, faulted>>

\* Mutant: a key that holds true looks new.
ExistsIgnoresProcessed(r) ==
    /\ pc[r] = "Exists"
    /\ \/ storage[fingerprint[r]] = "pending" /\ Goto(r, "Processed")
       \/ storage[fingerprint[r]] # "pending" /\ Goto(r, "Store")
    /\ UNCHANGED <<storage, cooldowns, fingerprint, faulted>>

Exists(r) ==
    /\ pc[r] = "Exists"
    /\ \/ "storage" \in Failures /\ Goto(r, "StatusFailed")
       \/ HasEntry(fingerprint[r]) /\ Goto(r, "Processed")
       \/ ~HasEntry(fingerprint[r]) /\ Goto(r, "Store")
    /\ UNCHANGED <<storage, cooldowns, fingerprint, faulted>>

\* Mutant: analyze falls off its end for a key not yet processed.
ProcessedReturnsNone(r) ==
    /\ pc[r] = "Processed"
    /\ \/ storage[fingerprint[r]] = "processed" /\ Goto(r, "StatusOpenGates")
       \/ storage[fingerprint[r]] # "processed" /\ Goto(r, "StatusNone")
    /\ UNCHANGED <<storage, cooldowns, fingerprint, faulted>>

\* A key that vanished since Exists reads as not processed.
Processed(r) ==
    /\ pc[r] = "Processed"
    /\ \/ "storage" \in Failures /\ Goto(r, "StatusFailed")
       \/ IsProcessed(fingerprint[r]) /\ Goto(r, "StatusOpenGates")
       \/ ~IsProcessed(fingerprint[r]) /\ Goto(r, "StatusWait")
    /\ UNCHANGED <<storage, cooldowns, fingerprint, faulted>>

\* Mutant: the request that stored the key is not told to process it.
StoreOpensGates(r) ==
    /\ pc[r] = "Store"
    /\ Put(fingerprint[r], "pending")
    /\ Goto(r, "StatusOpenGates")
    /\ UNCHANGED <<cooldowns, fingerprint, faulted>>

Store(r) ==
    /\ pc[r] = "Store"
    /\ \/ Put(fingerprint[r], "pending") /\ Goto(r, "StatusProcess") /\ UNCHANGED faulted
       \/ PutFails(fingerprint[r], "pending") /\ Goto(r, "StatusFailed")
    /\ UNCHANGED <<cooldowns, fingerprint>>

-----------------------------------------------------------------------------
\* RequestDone and Cleanup.  f is the fingerprint computed anew by the call.

\* Mutant: RequestDone stores false.
RequestDoneStoresFalse(r, f) ==
    /\ pc[r] = "StatusProcess"
    /\ Put(f, "pending")
    /\ Goto(r, "CoolDown")
    /\ UNCHANGED <<cooldowns, fingerprint, faulted>>

RequestDoneStore(r, f) ==
    /\ pc[r] = "StatusProcess"
    /\ \/ Put(f, "processed") /\ Goto(r, "CoolDown") /\ UNCHANGED faulted
       \/ PutFails(f, "processed") /\ Goto(r, "DoneFailed")
    /\ UNCHANGED <<cooldowns, fingerprint>>

RequestDoneCoolDown(r, f) ==
    /\ pc[r] = "CoolDown"
    /\ \/ cooldowns' = cooldowns \cup {f} /\ Goto(r, "Done")
       \/ /\ "detector" \in Failures
          /\ cooldowns' \in {cooldowns, cooldowns \cup {f}}
          /\ Goto(r, "DoneFailed")
    /\ UNCHANGED <<storage, fingerprint, faulted>>

\* Mutant: the entry of a request that failed is not removed.
CleanupKeepsEntry(r, f) ==
    /\ pc[r] \in {"StatusProcess", "DoneFailed", "Done"}
    /\ Goto(r, "idle")
    /\ UNCHANGED <<storage, cooldowns, fingerprint, faulted>>

\* Processing failed, RequestDone failed, or the response could not be delivered.
\* An error of Cleanup itself is logged and the request ends all the same.
Cleanup(r, f) ==
    /\ pc[r] \in {"StatusProcess", "DoneFailed", "Done"}
    /\ \/ Put(f, "absent") /\ UNCHANGED faulted
       \/ PutFails(f, "absent")
    /\ Goto(r, "idle")
    /\ UNCHANGED <<cooldowns, fingerprint>>

\* The caller acts on a status that asks for nothing more of the library.
Return(r) ==
    /\ pc[r] \in {"StatusFailed", "StatusWait", "StatusOpenGates", "Done"}
    /\ Goto(r, "idle")
    /\ UNCHANGED <<storage, cooldowns, fingerprint, faulted>>

-----------------------------------------------------------------------------
\* The environment.

\* Time passes, and several cooldowns may end at once.
CoolDownExpires(ended) ==
    /\ ended # {}
    /\ cooldowns' = cooldowns \ ended
    /\ UNCHANGED <<storage, fingerprint, pc, faulted>>

\* The instance serving r dies; a storage it shares with others lives on.
Crash(r) ==
    /\ "crash" \in Failures
    /\ pc[r] # "idle"
    /\ Goto(r, "idle")
    /\ faulted' = faulted \cup {fingerprint[r]}
    /\ UNCHANGED <<storage, cooldowns, fingerprint>>

\* A step of a request that is already in the program's hands.
Progress(r) ==
    \/ IsThunderingHerd(r)
    \/ Remove(r)
    \/ Exists(r)
    \/ Processed(r)
    \/ Store(r)
    \/ RequestDoneStore(r, fingerprint[r])
    \/ RequestDoneCoolDown(r, fingerprint[r])
    \/ Cleanup(r, fingerprint[r])
    \/ Return(r)

Next ==
    \/ \E r \in Requests :
        \/ \E f \in Fingerprints : IsCoolDown(r, f)
        \/ Progress(r)
        \/ Crash(r)
    \/ \E ended \in SUBSET cooldowns : CoolDownExpires(ended)

\* Goroutines are scheduled and the backend client has a timeout, so a request
\* in flight goes on.  Nothing obliges a client to send or to retry one.
Fairness == \A r \in Requests : WF_vars(Progress(r))

Spec == Init /\ [][Next]_vars /\ Fairness

-----------------------------------------------------------------------------
\* Properties.

\* Evaluate answers with one of four statuses, StatusNone never being one, and
\* the gatekeeper's storage holds nothing, false or true for each fingerprint.
TypeOK ==
    /\ storage \in [Fingerprints -> Entries]
    /\ cooldowns \subseteq Fingerprints
    /\ fingerprint \in [Requests -> Fingerprints]
    /\ pc \in [Requests -> {"idle"} \cup Evaluating \cup Statuses \cup Finishing]
    /\ faulted \subseteq Fingerprints

Processing(r, f) == pc[r] = "StatusProcess" /\ fingerprint[r] = f

\* A fingerprint is blocked only on behalf of a request that is being processed right
\* now and will call RequestDone or Cleanup: an entry stored as false never outlives
\* all the requests that stored it, unless a write of that same fingerprint failed or
\* its instance crashed.
PendingHasLeader ==
    \A f \in Fingerprints :
        storage[f] = "pending" /\ f \notin faulted => \E r \in Requests : Processing(r, f)

\* The same without the exception, as the README has it: "The blocked requests
\* will be allowed to hit the backend once the first request execution is done".
BlockedOnlyWhileProcessing ==
    \A f \in Fingerprints :
        storage[f] = "pending" => \E r \in Requests : Processing(r, f)

\* r is being told to wait, for its entry and yet for no request.
WaitsInVain(r) ==
    /\ pc[r] # "StatusWait" /\ pc'[r] = "StatusWait"
    /\ HasEntry(fingerprint[r])
    /\ ~\E q \in Requests : Processing(q, fingerprint[r])

\* "This request should wait or be blocked until the initial request is done"
\* (anicetus.go:107): a request is told StatusWait only while one of its fingerprint is
\* being processed, or if the entry that Exists saw was removed before Processed read
\* it (gatekeeper.go:23-34).  In that case alone it is turned away on nobody's behalf.
WaitsForProcessing == [][\A r \in Requests : ~WaitsInVain(r)]_vars

\* A herd lets "a single request" through to the backend at a time (README;
\* gatekeeper.analyze's Exists and Store).
SingleLeader ==
    \A f \in Fingerprints : \A q, r \in Requests :
        Processing(q, f) /\ Processing(r, f) => q = r

\* The gate of a herd that was served is never closed on it again without having
\* been removed first: no request passes Exists before RequestDone's Store(true)
\* and then stores false over it.
NeverReclosed ==
    [][\A f \in Fingerprints : storage[f] = "processed" => storage'[f] # "pending"]_vars

\* A fingerprint that is blocked does not stay blocked: the request processed on
\* behalf of the others ends, and RequestDone or Cleanup reopens the gate.
GateReopens ==
    \A f \in Fingerprints : storage[f] = "pending" ~> storage[f] # "pending"

\* Told to process and not back at the caller for good.
Leading == {"StatusProcess"} \cup Finishing

\* A storage entry belongs to one request from analyze's Exists on until RequestDone
\* or Cleanup is over, and says at each point how far that request is.
EntryFollowsOwner ==
    /\ \A r \in Requests :
        /\ pc[r] # "Remove"
        /\ pc[r] = "Store" => storage[fingerprint[r]] = "absent"
        /\ pc[r] = "StatusProcess" => storage[fingerprint[r]] = "pending"
        /\ pc[r] \in Finishing => storage[fingerprint[r]] = "processed"
    /\ \A q, r \in Requests : fingerprint[q] = fingerprint[r] =>
        /\ pc[q] \in Evaluating /\ pc[r] \in Evaluating => q = r
        /\ pc[q] \in Leading /\ pc[r] \in Leading => q = r

Leaders == [f \in Fingerprints |-> {r \in Requests : Processing(r, f)}]

\* The README's promise, refined: one leader, the gate closed exactly while it runs.
Promise == INSTANCE HerdGate WITH gate <- storage, leaders <- Leaders

\* Evaluate's and RequestDone's separate calls amount to the atomic elections,
\* completions and removals of HerdGate.
KeepsPromise == Promise!Spec

=============================================================================
