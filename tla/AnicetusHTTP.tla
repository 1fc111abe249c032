---------------------------- MODULE AnicetusHTTP ----------------------------
(***************************************************************************)
(* The proxy: anicetusHandler and forwardRequest of internal/http, driving *)
(* the library of module Anicetus.  One handler per request slot; handlers *)
(* run concurrently, the library's calls being the shared steps.           *)
(*                                                                         *)
(* fingerprint.HTTPRequest keeps a pointer to the *http.Request and hashes *)
(* it anew whenever it is asked.  forwardRequest writes the backend's host *)
(* and scheme into that request's URL, and headers into its header map, so *)
(* the hash may change under the handler: RewrittenAs says how.  It is the *)
(* identity as long as the configured fields are not among those written.  *)
(***************************************************************************)
EXTENDS Anicetus, Naturals

CONSTANTS
    Methods,        \* HTTP methods of the requests received
    Origins,        \* fingerprints of requests as they are received
    RewrittenAs     \* RewrittenAs[f]: fingerprint of a request of f once forwarded

ASSUME HTTPAssumption ==
    /\ Origins \subseteq Fingerprints
    /\ RewrittenAs \in [Fingerprints -> Fingerprints]

VARIABLES
    method,         \* method[r]
    origin,         \* origin[r]: fingerprint of r as received
    rewritten,      \* requests whose URL and headers forwardRequest has written to
    handler,        \* handler[r]: where anicetusHandler is
    forwards,       \* forwards[r]: how often r was sent to the backend
    response        \* response[r]: the status line written first, which is the one sent

httpVars == <<method, origin, rewritten, handler, forwards, response>>
allVars == <<vars, httpVars>>

-----------------------------------------------------------------------------
HandlerStates == {"idle", "bypass", "evaluate", "evaluating", "sent", "replied",
                  "copying"}
Responses == {"none", "backend", "500", "503"}

HTTPInit ==
    /\ Init
    /\ fingerprint \in [Requests -> Origins]
    /\ method \in [Requests -> Methods]
    /\ origin = fingerprint
    /\ rewritten = {}
    /\ handler = [r \in Requests |-> "idle"]
    /\ forwards = [r \in Requests |-> 0]
    /\ response = [r \in Requests |-> "none"]

\* HTTPRequest.Fingerprint() as of now.
Fingerprint(r) == IF r \in rewritten THEN RewrittenAs[origin[r]] ELSE origin[r]

At(r, h) == handler' = [handler EXCEPT ![r] = h]

\* net/http ignores every WriteHeader but the first.
WriteHeader(r, code) ==
    response' = [response EXCEPT ![r] = IF @ = "none" THEN code ELSE @]

-----------------------------------------------------------------------------
\* Mutant: the comparison with MethodGet is inverted.
ReceiveBypassesGet(r, m, f) ==
    /\ handler[r] = "idle"
    /\ At(r, IF m = "GET" THEN "bypass" ELSE "evaluate")
    /\ method' = [method EXCEPT ![r] = m]
    /\ origin' = [origin EXCEPT ![r] = f]
    /\ rewritten' = rewritten \ {r}
    /\ forwards' = [forwards EXCEPT ![r] = 0]
    /\ response' = [response EXCEPT ![r] = "none"]
    /\ UNCHANGED vars

\* A request comes in.  What is not a GET is forwarded at once.
Receive(r, m, f) ==
    /\ handler[r] = "idle"
    /\ At(r, IF m = "GET" THEN "evaluate" ELSE "bypass")
    /\ method' = [method EXCEPT ![r] = m]
    /\ origin' = [origin EXCEPT ![r] = f]
    /\ rewritten' = rewritten \ {r}
    /\ forwards' = [forwards EXCEPT ![r] = 0]
    /\ response' = [response EXCEPT ![r] = "none"]
    /\ UNCHANGED vars

Evaluate(r) ==
    /\ handler[r] = "evaluate"
    /\ IsCoolDown(r, Fingerprint(r))
    /\ At(r, "evaluating")
    /\ UNCHANGED <<method, origin, rewritten, forwards, response>>

\* The rest of Evaluate, inside the library.
EvaluateStep(r) ==
    /\ handler[r] = "evaluating"
    /\ IsThunderingHerd(r) \/ Remove(r) \/ Exists(r) \/ Processed(r) \/ Store(r)
    /\ UNCHANGED httpVars

\* Mutant: the switch has no case for StatusWait.
RefuseSilently(r) ==
    /\ handler[r] = "evaluating"
    /\ \/ pc[r] = "StatusFailed" /\ WriteHeader(r, "500")
       \/ pc[r] = "StatusWait" /\ UNCHANGED response
    /\ Return(r)
    /\ At(r, "idle")
    /\ UNCHANGED <<method, origin, rewritten, forwards>>

\* StatusFailed and StatusWait are answered without the backend.
Refuse(r) ==
    /\ handler[r] = "evaluating"
    /\ \/ pc[r] = "StatusFailed" /\ WriteHeader(r, "500")
       \/ pc[r] = "StatusWait" /\ WriteHeader(r, "503")
    /\ Return(r)
    /\ At(r, "idle")
    /\ UNCHANGED <<method, origin, rewritten, forwards>>

-----------------------------------------------------------------------------
\* forwardRequest.  A bypassing request (pc "idle") carries no status.

Send(r) ==
    /\ \/ handler[r] = "bypass"
       \/ handler[r] = "evaluating" /\ pc[r] \in {"StatusProcess", "StatusOpenGates"}
    /\ rewritten' = rewritten \cup {r}
    /\ forwards' = [forwards EXCEPT ![r] = @ + 1]
    /\ At(r, "sent")
    /\ UNCHANGED <<method, origin, response, vars>>

\* Mutant: a bypassing request is forwarded over and over.
ForwardedRetries(r) ==
    \/ pc[r] = "idle" /\ At(r, "bypass") /\ UNCHANGED vars
    \/ pc[r] \in {"StatusOpenGates", "Done"} /\ At(r, "idle") /\ Return(r)

\* Where the handler goes once forwardRequest has returned.  After a bypass it
\* does not return: it goes on to Evaluate.
Forwarded(r) ==
    \/ pc[r] = "idle" /\ At(r, "evaluate") /\ UNCHANGED vars
    \/ pc[r] \in {"StatusOpenGates", "Done"} /\ At(r, "idle") /\ Return(r)

\* Mutant: the elected request returns without Cleanup.
ForwardFailsKeepsEntry(r) ==
    /\ WriteHeader(r, "500")
    /\ \/ pc[r] \in {"idle", "StatusOpenGates"} /\ Forwarded(r)
       \/ pc[r] \in {"StatusProcess", "DoneFailed", "Done"} /\ At(r, "idle")
          /\ Goto(r, "idle") /\ UNCHANGED <<storage, cooldowns, fingerprint, faulted>>
    /\ UNCHANGED <<method, origin, rewritten, forwards>>

\* An error of forwardRequest is answered with 500; the request elected to be
\* processed also removes the entry it stored.
ForwardFails(r) ==
    /\ WriteHeader(r, "500")
    /\ \/ pc[r] \in {"idle", "StatusOpenGates"} /\ Forwarded(r)
       \/ At(r, "idle") /\ Cleanup(r, Fingerprint(r))
    /\ UNCHANGED <<method, origin, rewritten, forwards>>

\* No answer within the timeout, no connection, or a client that went away.
BackendFails(r) == handler[r] = "sent" /\ ForwardFails(r)

\* The backend's response headers arrive; the elected request's response handler
\* starts RequestDone, whatever the status code is.
BackendReplies(r) ==
    /\ handler[r] = "sent"
    /\ At(r, "replied")
    /\ \/ pc[r] = "StatusProcess" /\ RequestDoneStore(r, Fingerprint(r))
       \/ pc[r] # "StatusProcess" /\ UNCHANGED vars
    /\ UNCHANGED <<method, origin, rewritten, forwards, response>>

RequestDoneStep(r) ==
    /\ handler[r] = "replied"
    /\ RequestDoneCoolDown(r, Fingerprint(r))
    /\ UNCHANGED httpVars

\* RequestDone returned an error: nothing of the response is delivered.
RequestDoneFails(r) ==
    /\ handler[r] = "replied"
    /\ pc[r] = "DoneFailed"
    /\ ForwardFails(r)

\* The response handler is done: headers and status line are the backend's ...
Deliver(r) ==
    /\ handler[r] = "replied"
    /\ pc[r] \notin {"CoolDown", "DoneFailed"}
    /\ WriteHeader(r, "backend")
    /\ At(r, "copying")
    /\ UNCHANGED <<method, origin, rewritten, forwards, vars>>

\* ... and the body is copied, as fast as the client reads, or the copy breaks off.
CopyEnds(r) ==
    /\ handler[r] = "copying"
    /\ Forwarded(r)
    /\ UNCHANGED <<method, origin, rewritten, forwards, response>>

CopyFails(r) == handler[r] = "copying" /\ ForwardFails(r)

-----------------------------------------------------------------------------
\* What the handler does by itself: nothing here waits for a client without a limit.
Serve(r) ==
    \/ Evaluate(r)
    \/ EvaluateStep(r)
    \/ Refuse(r)
    \/ Send(r)
    \/ BackendFails(r)
    \/ BackendReplies(r)
    \/ RequestDoneStep(r)
    \/ RequestDoneFails(r)
    \/ Deliver(r)

\* What takes a client that reads, or that goes away.
Copy(r) == CopyEnds(r) \/ CopyFails(r)

Handle(r) == Serve(r) \/ Copy(r)

HTTPNext ==
    \/ \E r \in Requests :
        \/ \E m \in Methods, f \in Origins : Receive(r, m, f)
        \/ Handle(r)
    \/ \E ended \in SUBSET cooldowns : CoolDownExpires(ended) /\ UNCHANGED httpVars

\* A handler in progress goes on, for the backend client has a timeout, until it copies
\* the body: the server has no WriteTimeout, so a client that stops reading holds it.
HTTPSpec ==
    HTTPInit /\ [][HTTPNext]_allVars /\ \A r \in Requests : WF_allVars(Serve(r))

-----------------------------------------------------------------------------
\* Properties.

\* The handler's own state; a request never reaches the backend more than twice.
HTTPTypeOK ==
    /\ TypeOK
    /\ method \in [Requests -> Methods]
    /\ origin \in [Requests -> Origins]
    /\ rewritten \subseteq Requests
    /\ handler \in [Requests -> HandlerStates]
    /\ forwards \in [Requests -> 0 .. 2]
    /\ response \in [Requests -> Responses]

\* A GET that has been answered was sent to the backend once if the answer is the
\* backend's, and not at all if it was blocked with 503, along every path of
\* anicetusHandler and forwardRequest, failures of delivery and Cleanup included.
GetAnsweredFaithfully ==
    \A r \in Requests : handler[r] = "idle" /\ method[r] = "GET" =>
        /\ response[r] = "backend" => forwards[r] = 1
        /\ response[r] = "503" => forwards[r] = 0

\* Every request the handler took is given a status line, whatever clients do.  The
\* handler also ends, if the clients it copies a body to read on or go away.
EveryRequestAnswered ==
    \A r \in Requests :
        /\ handler[r] # "idle" ~> response[r] # "none"
        /\ WF_allVars(Copy(r)) => (handler[r] # "idle" ~> handler[r] = "idle")

\* "For now only GET HTTP requests are analyzed" (cmd/anicetus-http/README.md).
OnlyGetAnalyzed ==
    \A r \in Requests : handler[r] = "evaluating" => method[r] = "GET"

=============================================================================
