-------------------------- MODULE HTTPRequestProofs --------------------------
(***************************************************************************)
(* Which configurations make forwardRequest safe for the fingerprint, and  *)
(* what the proxy then promises about the requests it receives.            *)
(***************************************************************************)
EXTENDS AnicetusHTTPProofs, HTTPRequest

String == Seq(STRING)

HTTPRequests ==
    [proto : String, method : String, scheme : String, host : String, urlHost : String,
     path : String, query : String, body : String, stream : BOOLEAN, broken : BOOLEAN,
     header : UNION {[names -> Seq(String)] : names \in SUBSET STRING},
     cookie : UNION {[names -> String] : names \in SUBSET STRING}]

\* Two requests that differ only in what is not configured.
Alike(req1, req2) ==
    /\ "body" \in Selected => req1.broken = req2.broken
    /\ \A i \in DOMAIN FieldOrder :
        Written(req1, FieldOrder[i]) = Written(req2, FieldOrder[i])
    /\ \A i \in DOMAIN Headers :
        HeaderGet(req1, Headers[i]) = HeaderGet(req2, Headers[i])
    /\ req1.cookie = req2.cookie

\* Requests that differ only in what is not configured are considered the same.
LEMMA AlikeConsideredSame ==
    ASSUME NEW req1, NEW req2, Alike(req1, req2)
    PROVE  FingerprintOf(req1) = FingerprintOf(req2)
<1>1. [i \in DOMAIN FieldOrder |-> Written(req1, FieldOrder[i])]
        = [i \in DOMAIN FieldOrder |-> Written(req2, FieldOrder[i])]
  BY DEF Alike
<1>2. [i \in DOMAIN Headers |-> HeaderGet(req1, Headers[i])]
        = [i \in DOMAIN Headers |-> HeaderGet(req2, Headers[i])]
  BY DEF Alike
<1>3. req1.cookie = req2.cookie /\ ("body" \in Selected => req1.broken = req2.broken)
  BY DEF Alike
<1> QED
  BY <1>1, <1>2, <1>3, Zenon DEF FingerprintOf

\* Nothing that forwardRequest writes is configured: neither the scheme, nor the host
\* of a request without a Host header, nor a body that it uses up, nor its headers.
Unwritten(req, left) ==
    /\ "scheme" \notin Selected
    /\ "host" \in Selected => req.host # <<>>
    /\ "body" \in Selected => ~req.stream /\ left = req.body
    /\ \A i \in DOMAIN Headers :
        /\ Headers[i] \notin AnicetusHeaders
        /\ Headers[i] = ForwardedFor => HeaderGet(req, ForwardedFor) # <<>>

\* Then a request keeps its fingerprint when it is forwarded, so that RequestDone and
\* Cleanup find the entry that Evaluate stored.
THEOREM ForwardingKeepsFingerprint ==
    ASSUME NEW req \in HTTPRequests, NEW peer \in String, NEW status \in String,
           NEW hash, NEW left, Unwritten(req, left)
    PROVE  FingerprintOf(Rewritten(req, peer, status, hash, left)) = FingerprintOf(req)
<1> DEFINE new == Rewritten(req, peer, status, hash, left)
<1>1. /\ new.proto = req.proto /\ new.method = req.method /\ new.host = req.host
      /\ new.path = req.path /\ new.query = req.query /\ new.cookie = req.cookie
      /\ new.body = left /\ new.broken = (req.broken \/ req.stream)
      /\ new.header = ForwardedHeader(req.header, peer, status, hash)
  BY DEF Rewritten, HTTPRequests
<1>2. ASSUME NEW i \in DOMAIN FieldOrder
      PROVE  Written(new, FieldOrder[i]) = Written(req, FieldOrder[i])
  <2>1. FieldOrder[i] \in {"proto", "method", "scheme", "host", "path", "query", "body"}
    BY DEF FieldOrder
  <2>2. FieldOrder[i] \in Selected => new[FieldOrder[i]] = req[FieldOrder[i]]
    BY <1>1, <2>1 DEF Unwritten
  <2>3. FieldOrder[i] = "host" /\ "host" \in Selected => new.host # <<>> /\ req.host # <<>>
    BY <1>1 DEF Unwritten
  <2> HIDE DEF new
  <2> QED
    BY <2>2, <2>3, Zenon DEF Written
<1>3. ASSUME NEW i \in DOMAIN Headers
      PROVE  HeaderGet(new, Headers[i]) = HeaderGet(req, Headers[i])
  <2>1. Headers[i] \notin AnicetusHeaders
    BY DEF Unwritten
  <2>2. CASE Headers[i] # ForwardedFor
    BY <1>1, <2>1, <2>2 DEF HeaderGet, ForwardedHeader
  <2>3. CASE Headers[i] = ForwardedFor
    <3>1. /\ ForwardedFor \in DOMAIN req.header
          /\ req.header[ForwardedFor] # <<>>
      BY <2>3 DEF Unwritten, HeaderGet
    <3>2. PICK names \in SUBSET STRING : req.header \in [names -> Seq(String)]
      BY DEF HTTPRequests
    <3>3. req.header[ForwardedFor] \in Seq(String)
      BY <3>1, <3>2
    <3>4. new.header[ForwardedFor] = Append(req.header[ForwardedFor], peer)
      BY <1>1, <3>1 DEF ForwardedHeader
    <3>5. /\ new.header[ForwardedFor] # <<>>
          /\ Head(new.header[ForwardedFor]) = Head(req.header[ForwardedFor])
      BY <3>1, <3>3, <3>4
    <3>6. ForwardedFor \in DOMAIN new.header
      BY <1>1 DEF ForwardedHeader
    <3> HIDE DEF new
    <3> QED
      BY <2>3, <3>1, <3>5, <3>6 DEF HeaderGet
  <2> QED
    BY <2>2, <2>3
<1>4. "body" \in Selected => new.broken = req.broken
  BY <1>1 DEF Unwritten, HTTPRequests
<1>5. Alike(new, req)
  <2> HIDE DEF new
  <2> QED
    BY <1>1, <1>2, <1>3, <1>4 DEF Alike
<1> QED
  BY <1>5, AlikeConsideredSame DEF new

-----------------------------------------------------------------------------
\* The proxy receives these requests, under the fields it uses where none are named,
\* and RewrittenAs is what forwardRequest does to them.
DefaultsApply(received) ==
    /\ Fields = DefaultFields
    /\ \A i \in DOMAIN Headers : Headers[i] \notin AnicetusHeaders \cup {ForwardedFor}
    /\ \A req \in received : req.host # <<>>
    /\ Origins = {FingerprintOf(req) : req \in received}
    /\ \A req \in received : \E peer, status, left \in String :
        RewrittenAs[FingerprintOf(req)]
            = FingerprintOf(Rewritten(req, peer, status, FingerprintOf(req), left))

\* Every request that names a host keeps its fingerprint through forwardRequest.
LEMMA DefaultsKeepFingerprint ==
    ASSUME NEW received \in SUBSET HTTPRequests, DefaultsApply(received)
    PROVE  KeepsFingerprint
<1>1. ASSUME NEW f \in Origins
      PROVE  RewrittenAs[f] = f
  <2>1. PICK req \in received : f = FingerprintOf(req)
    BY DEF DefaultsApply
  <2>2. PICK peer \in String, status \in String, left \in String :
            RewrittenAs[f] = FingerprintOf(Rewritten(req, peer, status, f, left))
    BY <2>1 DEF DefaultsApply
  <2>3. Selected = DefaultFields
    BY DEF DefaultsApply, Selected, DefaultFields
  <2>4. Unwritten(req, left)
    BY <2>1, <2>3 DEF DefaultsApply, Unwritten, DefaultFields
  <2> QED
    BY <2>1, <2>2, <2>4, ForwardingKeepsFingerprint
<1> QED
  BY <1>1 DEF KeepsFingerprint

\* By default the proxy, whatever requests with a host it receives, blocks a fingerprint
\* only while a request of it is being processed, and answers 503 on nobody's behalf only
\* to a request whose entry was removed before it read the flag.
THEOREM DefaultProxyBlocksOnlyWhileProcessing ==
    ASSUME NEW received \in SUBSET HTTPRequests, DefaultsApply(received), NothingLost
    PROVE  HTTPSpec => []BlockedOnlyWhileProcessing /\ WaitsForProcessing
<1>1. KeepsFingerprint
  BY DefaultsKeepFingerprint
<1> QED
  BY <1>1, ProxyBlocksOnlyWhileProcessing, Zenon

=============================================================================
