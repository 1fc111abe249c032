--------------------------- MODULE MCAnicetusHTTP ---------------------------
(* Small instances of AnicetusHTTP for TLC, under a configuration of           *)
(* HTTPRequest that forwarding a request cannot be told by.                    *)
EXTENDS AnicetusHTTP, HTTPRequest, TLC

NoNames == <<>>
Https == <<"https">>
Backend == <<"backend">>

\* Forwarding changes no fingerprint ...
SameFingerprint == [f \in Fingerprints |-> f]

\* ... of requests with and without a query, a body, and a proxy before this one.
Received ==
    [proto : {<<"HTTP/1.1">>}, method : {<<"GET">>, <<"POST">>}, scheme : {<<>>},
     host : {<<"h">>}, urlHost : {<<>>}, path : {<<"/">>}, query : {<<>>, <<"a">>},
     body : {<<>>, <<"b">>}, stream : BOOLEAN, broken : BOOLEAN,
     header : {<<>>, "X-Forwarded-For" :> << <<"c0">> >>}, cookie : {<<>>}]

ASSUME SameFingerprintAssumption ==
    \A req \in Received, status \in {<<>>, <<"process">>} :
        LET read == Fingerprinted(req)
        IN  FingerprintOf(Rewritten(read, <<"c1">>, status, FingerprintOf(read), <<>>))
                = FingerprintOf(req)

=============================================================================
