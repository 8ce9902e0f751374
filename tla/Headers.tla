-------------------------------- MODULE Headers --------------------------------
(***************************************************************************)
(* The headers of a request on their way to a service, and those of its    *)
(* response: what the controller takes from them                           *)
(* (app/server/service_server.go), their conversion at either end of the   *)
(* tunnel (internal/serviceconfig/headers.go), the mutation of user names  *)
(* (internal/jwtutil/mutateheaders.go), and what the agent adds            *)
(* (internal/serviceconfig/generic_endpoint.go).                           *)
(*                                                                         *)
(* Headers are a function from names to the values of each, the empty      *)
(* sequence for a name that is not there.  A value is plain text, a token, *)
(* or credentials: a scheme and a value.                                   *)
(***************************************************************************)
EXTENDS Naturals, Sequences, JWTRegistry

CONSTANTS NotRegistered,    \* no keyset has been registered for mutation
          NoValue           \* the empty string

ASSUME MutationAssumption == NotRegistered \notin Registry

\* Names as net/http spells them; Accept stands for every other header.
HeaderName == {"X-Opsmx-Token", "Authorization", "X-Spinnaker-User",
               "X-Opsmx-Agent-Name", "Accept"}

MutatedHeaders == {"X-Spinnaker-User"}
StrippedOutgoingHeaders == {"Authorization"}

NoneSet == [n \in HeaderName |-> <<>>]

Plain(text) == [kind |-> "plain", of |-> text]
Signed(token) == [kind |-> "signed", of |-> token]
Credentials(scheme, value) == [kind |-> scheme, of |-> value]

Get(headers, name) == IF headers[name] = <<>> THEN NoValue ELSE headers[name][1]

-----------------------------------------------------------------------------
(* What extractEndpointFromJWT takes. *)

\* The token: from our own header, or else from the Bearer or Basic credentials.
AuthPassword(headers) ==
    LET own == Get(headers, "X-Opsmx-Token")
        authorization == Get(headers, "Authorization")
    IN  IF own # NoValue THEN own
        ELSE IF authorization # NoValue /\ authorization.kind \in {"Bearer", "Basic"}
             THEN authorization.of ELSE NoValue

ValidateServiceJWT(registry, value) ==
    value # NoValue /\ value.kind = "signed" /\ Validates(registry, value.of)

DelToken(headers) == [headers EXCEPT !["X-Opsmx-Token"] = <<>>]

-----------------------------------------------------------------------------
(* User names travel as tokens that say {"u": name}. *)

MutateHeader(registry, value) == Signed(Sign(registry, value))

CanUnmutate(registry, value) == value.kind = "signed" /\ Validates(registry, value.of)

UnmutateHeader(value) == value.of.claims

\* The headers of either direction that are mutated.
Mutates(registry, headers) ==
    IF registry = NotRegistered THEN {} ELSE {n \in MutatedHeaders : headers[n] # <<>>}

-----------------------------------------------------------------------------
(* The conversions at the ends of the tunnel; each fails as a whole. *)

HTTPHeadersFail(registry, headers) ==
    Mutates(registry, headers) # {} /\ ~CanSign(registry)

\* Mutant: nothing is stripped.
HTTPHeadersToPBUnstripped(registry, headers) ==
    [n \in HeaderName |->
        IF n \in Mutates(registry, headers) THEN <<MutateHeader(registry, headers[n][1])>>
        ELSE headers[n]]

\* Mutant: only the first value is mutated, but all are sent.
HTTPHeadersToPBAll(registry, headers) ==
    [n \in HeaderName |->
        IF n \in Mutates(registry, headers)
        THEN <<MutateHeader(registry, headers[n][1])>> \o Tail(headers[n])
        ELSE IF n \in StrippedOutgoingHeaders THEN <<>>
        ELSE headers[n]]

\* Of a mutated header only the first value is sent.
HTTPHeadersToPB(registry, headers) ==
    [n \in HeaderName |->
        IF n \in Mutates(registry, headers) THEN <<MutateHeader(registry, headers[n][1])>>
        ELSE IF n \in StrippedOutgoingHeaders THEN <<>>
        ELSE headers[n]]

PBHEadersFail(registry, headers) ==
    \E n \in Mutates(registry, headers) : ~CanUnmutate(registry, headers[n][1])

PBHEadersToHTTP(registry, headers) ==
    [n \in HeaderName |->
        IF n \in Mutates(registry, headers) THEN <<UnmutateHeader(headers[n][1])>>
        ELSE headers[n]]

-----------------------------------------------------------------------------
(* What the agent does to a request besides. *)

SetAgentName(headers, agentName) ==
    IF agentName = Unset THEN headers
    ELSE [headers EXCEPT !["X-Opsmx-Agent-Name"] = <<Plain(agentName)>>]

\* The type of an endpoint's credentials is the scheme, in lower case.
Scheme == [type \in {"basic", "bearer", "token"} |->
            CASE type = "basic" -> "Basic" [] type = "bearer" -> "Bearer"
              [] type = "token" -> "Token"]

SetCredentials(headers, credentials) ==
    IF credentials.type \notin DOMAIN Scheme THEN headers
    ELSE [headers EXCEPT !["Authorization"] =
            <<Credentials(Scheme[credentials.type], Plain(credentials.secret))>>]
=============================================================================
