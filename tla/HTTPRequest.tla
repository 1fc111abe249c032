----------------------------- MODULE HTTPRequest -----------------------------
(***************************************************************************)
(* fingerprint.HTTPRequest: what is hashed of a request, and what          *)
(* forwardRequest writes into that request afterwards.                     *)
(*                                                                         *)
(* A string is the sequence of its parts, "" the empty one; a hash is told *)
(* from another by what was written to it.  Names of headers stand for     *)
(* their canonical forms.                                                  *)
(***************************************************************************)
EXTENDS Naturals, Sequences

LOCAL INSTANCE SequencesExt

CONSTANTS
    Fields,             \* the fields configured, or {} if the option is not used
    Headers, Cookies,   \* sequences of the names configured
    BackendScheme,
    BackendHost

\* The order in which Fingerprint writes them.
FieldOrder == <<"proto", "method", "scheme", "host", "path", "query", "body">>

\* Headers that forwardRequest adds to, and sets.
ForwardedFor == "X-Forwarded-For"
AnicetusHeaders == {"Anicetus-Status", "Anicetus-Fingerprint"}

ASSUME ConfigAssumption ==
    /\ Fields \subseteq {FieldOrder[i] : i \in DOMAIN FieldOrder}
    /\ Headers \in Seq(STRING)
    /\ Cookies \in Seq(STRING)

\* The proxy's fields where the environment names none.
DefaultFields == {"proto", "method", "host", "path", "query"}

\* WithHTTPRequestFields ignores an empty list and leaves NewHTTPRequest's own fields.
Selected == IF Fields = {} THEN {"method", "scheme", "host", "path", "query"} ELSE Fields

-----------------------------------------------------------------------------
\* A request is a record: the fields by their names; urlHost, the host in its URL;
\* header, a function from names to sequences of values; cookie, a function from the
\* names of its cookies; stream, whether the body is the connection's, which is closed
\* once it was sent; broken, whether reading the body fails.

\* http.Header.Get: the first value, or "".
HeaderGet(req, name) ==
    IF name \in DOMAIN req.header /\ req.header[name] # <<>> THEN Head(req.header[name])
    ELSE <<>>

\* What a field writes to the hash.
Written(req, field) ==
    IF field \notin Selected THEN <<>>
    ELSE IF field = "host" /\ req.host = <<>> THEN req.urlHost
    ELSE req[field]

\* The empty fingerprint, and the one that hashes what was written.
NoFingerprint == <<>>
Hash(parts) == <<"sha256">> \o FlattenSeq(parts)

\* Nothing separates what is written.
FingerprintOf(req) ==
    IF \/ "body" \in Selected /\ req.broken
       \/ \E i \in DOMAIN Cookies : Cookies[i] \notin DOMAIN req.cookie
    THEN NoFingerprint
    ELSE Hash([i \in DOMAIN FieldOrder |-> Written(req, FieldOrder[i])]
              \o [i \in DOMAIN Headers |-> HeaderGet(req, Headers[i])]
              \o [i \in DOMAIN Cookies |-> req.cookie[Cookies[i]]])

\* Fingerprint leaves a copy of the body it has read.
Fingerprinted(req) ==
    [req EXCEPT !.stream = @ /\ ("body" \notin Selected \/ req.broken)]

-----------------------------------------------------------------------------
\* The header map once forwardRequest has added the client's address to it and, unless
\* status is "", set the two headers of the proxy.
ForwardedHeader(header, peer, status, hash) ==
    [name \in DOMAIN header \cup {ForwardedFor}
              \cup (IF status = <<>> THEN {} ELSE AnicetusHeaders) |->
        IF name = ForwardedFor
        THEN Append(IF name \in DOMAIN header THEN header[name] ELSE <<>>, peer)
        ELSE IF status # <<>> /\ name \in AnicetusHeaders
        THEN IF name = "Anicetus-Status" THEN <<status>> ELSE <<hash>>
        ELSE header[name]]

\* The handler's request after forwardRequest, whose copy of it shares header and
\* body; left is what the backend's client has not read of the body.
Rewritten(req, peer, status, hash, left) ==
    [req EXCEPT !.urlHost = BackendHost,
                !.scheme = BackendScheme,
                !.header = ForwardedHeader(@, peer, status, hash),
                !.body = left,
                !.broken = @ \/ req.stream]

=============================================================================
