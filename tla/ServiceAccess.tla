---------------------------- MODULE ServiceAccess ----------------------------
(***************************************************************************)
(* How a client of a service port gets to a service of an agent: the       *)
(* control API hands out credentials (app/server/cncserver, internal/ca,   *)
(* internal/jwtutil), the controller identifies the service a request asks *)
(* for from them, or from the listener's configuration, and finds a        *)
(* session that offers it (app/server/service_server.go, sessions.go,      *)
(* jwtauth.go); the agent, which has configured its endpoints at start-up  *)
(* (app/client/main.go, internal/serviceconfig), finds the endpoint.       *)
(*                                                                         *)
(* A certificate or token is what it says: that only the CA and the        *)
(* registered keys can sign one is a matter of the TLS and JWT libraries.  *)
(* Tokens of agents and of services are of different issuers and registries *)
(* and are kept apart.  How a token travels (X-Opsmx-Token, Bearer or      *)
(* Basic) is left out.  The data path after the agent has its request is   *)
(* that of TunnelController and AgentEcho.                                 *)
(***************************************************************************)
EXTENDS Naturals, Sequences, FiniteSets, Endpoints

CONSTANTS
    Agent, Type, Name,  \* agent names, service types, service names
    ValidType,          \* the types that are lower-case alphanumeric
    Kubernetes,         \* the type "kubernetes"
    Absent,             \* an absent field of a request
    Process,            \* the agent processes
    AgentOf,            \* AgentOf[p]: the agent that the token of p names
    Services,           \* Services[p]: the outgoing services p is configured with
    InCluster,          \* the processes with POD_NAMESPACE set
    Request,            \* the requests on the service ports
    Secure,             \* the HTTPS listener, which takes credentials
    Listener,           \* Listener[r]: Secure, or the service an HTTP listener is fixed to
    NoService, NoProcess,
    MaxAsked            \* bound on the services that credentials are asked for

\* What a request asks for (SessionSearch).
Service == [agent : Agent, type : Type, name : Name]

\* What an agent has of a service, and advertises in its Hello.
Endpoint == [type : Type, name : Name, configured : BOOLEAN]

ASSUME NameAssumption == Absent \notin Agent \cup Type \cup Name
ASSUME TypeAssumption == ValidType \subseteq Type /\ Kubernetes \in ValidType
ASSUME ProcessAssumption == AgentOf \in [Process -> Agent] /\ NoProcess \notin Process
ASSUME ServiceAssumption == Secure \notin Service /\ NoService \notin Service
\* The agents are configured with services of these types and names.
ASSUME ConfigurationAssumption ==
    \A p \in Process, l \in BOOLEAN : ConfigureEndpoints(Services[p], l) \in Seq(Endpoint)
ASSUME ListenerAssumption == Listener \in [Request -> Service \cup {Secure}]
ASSUME BoundAssumption == MaxAsked \in Nat

VARIABLES
    asked,          \* the services that control clients asked credentials for
    certs,          \* the certificates signed by the CA
    tokens,         \* the service JWTs signed
    agentTokens,    \* the agents for which an agent JWT was signed
    proc,           \* where main() of an agent process is
    loader,         \* its secretsLoader is set
    endpoints,      \* its endpoints
    table,          \* the processes whose session is in the controller's table
    http,           \* where the request is
    search,         \* the service it asks for
    via,            \* the process it was sent to
    ep              \* the index of the endpoint that performs it

controlVars == <<asked, certs, tokens, agentTokens>>
procVars == <<proc, loader, endpoints>>
requestVars == <<http, search, via, ep>>
vars == <<controlVars, procVars, table, requestVars>>

\* CertificateName: what a certificate says, and what for.
Certificate == [purpose : {"control", "agent", "service"},
                service : Service \cup {NoService}]

ServiceCertificate(s) == [purpose |-> "service", service |-> s]

TypeOK ==
    /\ asked \subseteq Service
    /\ certs \subseteq Certificate
    /\ tokens \subseteq Service
    /\ agentTokens \subseteq Agent
    /\ proc \in [Process -> {"config", "secrets", "hello", "connected", "exited", "panicked"}]
    /\ loader \in [Process -> BOOLEAN]
    /\ DOMAIN endpoints = Process
    /\ \A p \in Process : endpoints[p] \in Seq(Endpoint)
    /\ table \subseteq Process
    /\ http \in [Request -> {"idle", "identified", "sent", "performed", "unknown", "refused"}]
    /\ search \in [Request -> Service \cup {NoService}]
    /\ via \in [Request -> Process \cup {NoProcess}]
    /\ ep \in [Request -> Nat]

\* make-ca signs the CA's first certificate.
Init ==
    /\ asked = {}
    /\ certs = {[purpose |-> "control", service |-> NoService]}
    /\ tokens = {}
    /\ agentTokens = {}
    /\ proc = [p \in Process |-> "config"]
    /\ loader = [p \in Process |-> FALSE]
    /\ endpoints = [p \in Process |-> <<>>]
    /\ table = {}
    /\ http = [r \in Request |-> "idle"]
    /\ search = [r \in Request |-> NoService]
    /\ via = [r \in Request |-> NoProcess]
    /\ ep = [r \in Request |-> 0]

-----------------------------------------------------------------------------
(* The control API. *)

\* The caller's certificate must be for control.
Authenticate(c) == c \in certs /\ c.purpose = "control"

GenerateCertificate(c) == certs' = certs \cup {c}

MakeServiceJWT(s) == tokens' = tokens \cup {s}

MakeAgentJWT(a) == agentTokens' = agentTokens \cup {a}

NamePresent(n) == n # Absent

\* Validate, of a ServiceCredentialRequest.
Valid(s) == NamePresent(s.agent) /\ NamePresent(s.name) /\ s.type \in ValidType

\* A control client asks for credentials for service s.
Asks(s) ==
    /\ asked' = asked \cup {s}
    /\ Cardinality(asked') <= MaxAsked

GenerateKubectlComponents(c, a, n) ==
    /\ Authenticate(c)
    /\ NamePresent(a) /\ NamePresent(n)
    /\ LET s == [agent |-> a, type |-> Kubernetes, name |-> n]
       IN  Asks(s) /\ GenerateCertificate(ServiceCertificate(s))
    /\ UNCHANGED <<tokens, agentTokens, procVars, table, requestVars>>

GenerateAgentManifestComponents(c, a) ==
    /\ Authenticate(c)
    /\ NamePresent(a)
    /\ MakeAgentJWT(a)
    /\ UNCHANGED <<asked, certs, tokens, procVars, table, requestVars>>

\* The type and the name may come in fields of an older spelling.
FirstPresent(new, old) == IF NamePresent(new) THEN new ELSE old

GenerateServiceCredentials(c, a, t, oldType, n, oldName) ==
    /\ Authenticate(c)
    /\ LET s == [agent |-> a,
                 type |-> FirstPresent(t, oldType),
                 name |-> FirstPresent(n, oldName)]
       IN  Valid(s) /\ Asks(s) /\ MakeServiceJWT(s)
    /\ UNCHANGED <<certs, agentTokens, procVars, table, requestVars>>

\* The certificate's purpose is "agent"; what name it bears is of no consequence.
GenerateControlCredentials(c, n) ==
    /\ Authenticate(c)
    /\ NamePresent(n)
    /\ GenerateCertificate([purpose |-> "agent", service |-> NoService])
    /\ UNCHANGED <<asked, tokens, agentTokens, procVars, table, requestVars>>

-----------------------------------------------------------------------------
(* main() of an agent process. *)

\* The endpoints are configured with the secretsLoader as it is now.
StartEndpoints(p) ==
    /\ proc[p] = "config"
    /\ CanConfigure(Services[p])
    /\ endpoints' = [endpoints EXCEPT ![p] = ConfigureEndpoints(Services[p], loader[p])]
    /\ proc' = [proc EXCEPT ![p] = "secrets"]
    /\ UNCHANGED <<controlVars, loader, table, requestVars>>

\* logger.Fatal on a service whose configuration cannot be decoded.
ConfigurationFails(p) ==
    /\ proc[p] = "config"
    /\ ~CanConfigure(Services[p])
    /\ proc' = [proc EXCEPT ![p] = "exited"]
    /\ UNCHANGED <<controlVars, loader, endpoints, table, requestVars>>

MakeSecretsLoader(p) ==
    /\ proc[p] = "secrets"
    /\ loader' = [loader EXCEPT ![p] = p \in InCluster]
    /\ proc' = [proc EXCEPT ![p] = "hello"]
    /\ UNCHANGED <<controlVars, endpoints, table, requestVars>>

\* The interceptor's authorize accepts the token of the agent.
Authorized(p) == AgentOf[p] \in agentTokens

\* Hello registers the session with the endpoints, which do not change any more.
SayHello(p) ==
    /\ proc[p] = "hello"
    /\ Authorized(p)
    /\ table' = table \cup {p}
    /\ proc' = [proc EXCEPT ![p] = "connected"]
    /\ UNCHANGED <<controlVars, loader, endpoints, requestVars>>

HelloRefused(p) ==
    /\ proc[p] = "hello"
    /\ ~Authorized(p)
    /\ proc' = [proc EXCEPT ![p] = "exited"]
    /\ UNCHANGED <<controlVars, loader, endpoints, table, requestVars>>

ProcessExits(p) ==
    /\ proc[p] = "connected"
    /\ proc' = [proc EXCEPT ![p] = "exited"]
    /\ UNCHANGED <<controlVars, loader, endpoints, table, requestVars>>

\* By the end of WaitForRequest, or by the reaper.
RemoveSession(p) ==
    /\ p \in table
    /\ proc[p] \in {"exited", "panicked"}
    /\ table' = table \ {p}
    /\ UNCHANGED <<controlVars, procVars, requestVars>>

-----------------------------------------------------------------------------
(* The HTTP handler of a service port. *)

Identified(r, s) ==
    /\ http[r] = "idle"
    /\ search' = [search EXCEPT ![r] = s]
    /\ http' = [http EXCEPT ![r] = "identified"]
    /\ UNCHANGED <<controlVars, procVars, table, via, ep>>

\* The listener is plain HTTP.
FixedIdentity(r) == Listener[r] # Secure /\ Identified(r, Listener[r])

ExtractEndpointFromCert(r, c) ==
    /\ Listener[r] = Secure
    /\ c.purpose = "service"
    /\ Identified(r, c.service)

\* Mutant: the three results of ValidateServiceJWT are taken in the wrong order.
ExtractEndpointFromJWTSwapped(r, c) ==
    /\ Listener[r] = Secure
    /\ Identified(r, [agent |-> c.agent, type |-> c.name, name |-> c.type])

\* With no certificate, or one for another purpose, the token decides.
ExtractEndpointFromJWT(r, c) ==
    /\ Listener[r] = Secure
    /\ Identified(r, c)

Refuse(r) ==
    /\ http' = [http EXCEPT ![r] = "refused"]
    /\ UNCHANGED <<controlVars, procVars, table, search, via, ep>>

InvalidCredentials(r) ==
    /\ http[r] = "idle"
    /\ Listener[r] = Secure
    /\ Refuse(r)

\* Mutant: any endpoint of the service will do, configured or not.
OffersAny(p, target) ==
    /\ p \in table
    /\ AgentOf[p] = target.agent
    /\ \E i \in DOMAIN endpoints[p] : Matches(endpoints[p][i], target)

\* Mutant: the agent is not looked at.
OffersElsewhere(p, target) ==
    /\ p \in table
    /\ \E i \in DOMAIN endpoints[p] :
        endpoints[p][i].configured /\ Matches(endpoints[p][i], target)

\* The session of p is one find may return.
Offers(p, target) ==
    /\ p \in table
    /\ AgentOf[p] = target.agent
    /\ \E i \in DOMAIN endpoints[p] :
        endpoints[p][i].configured /\ Matches(endpoints[p][i], target)

Find(r, p) ==
    /\ http[r] = "identified"
    /\ Offers(p, search[r])
    /\ via' = [via EXCEPT ![r] = p]
    /\ http' = [http EXCEPT ![r] = "sent"]
    /\ UNCHANGED <<controlVars, procVars, table, search, ep>>

FindNone(r) ==
    /\ http[r] = "identified"
    /\ \A p \in Process : ~Offers(p, search[r])
    /\ Refuse(r)

-----------------------------------------------------------------------------
(* The agent has the request. *)

Arrived(r) == http[r] = "sent" /\ proc[via[r]] = "connected"

\* Performed, or answered with "no such service on agent".
ExecuteHTTPRequest(r) ==
    /\ Arrived(r)
    /\ LET i == FindEndpoint(endpoints[via[r]], search[r])
       IN  /\ i # 0 => endpoints[via[r]][i].configured
           /\ ep' = [ep EXCEPT ![r] = i]
           /\ http' = [http EXCEPT ![r] = IF i = 0 THEN "unknown" ELSE "performed"]
    /\ UNCHANGED <<controlVars, procVars, table, search, via>>

\* The Instance of an endpoint that is not configured is nil.
ExecutePanics(r) ==
    /\ Arrived(r)
    /\ LET i == FindEndpoint(endpoints[via[r]], search[r])
       IN  i # 0 /\ ~endpoints[via[r]][i].configured
    /\ proc' = [proc EXCEPT ![via[r]] = "panicked"]
    /\ UNCHANGED <<controlVars, loader, endpoints, table, requestVars>>

-----------------------------------------------------------------------------

ControlStep(c) ==
    \/ \E a \in Agent \cup {Absent}, n \in Name \cup {Absent} :
        GenerateKubectlComponents(c, a, n)
    \/ \E a \in Agent \cup {Absent} : GenerateAgentManifestComponents(c, a)
    \/ \E a \in Agent \cup {Absent}, t, oldType \in Type \cup {Absent},
          n, oldName \in Name \cup {Absent} :
        GenerateServiceCredentials(c, a, t, oldType, n, oldName)
    \/ \E n \in Name \cup {Absent} : GenerateControlCredentials(c, n)

ProcessStep(p) ==
    \/ StartEndpoints(p) \/ ConfigurationFails(p) \/ MakeSecretsLoader(p)
    \/ SayHello(p) \/ HelloRefused(p) \/ ProcessExits(p) \/ RemoveSession(p)

RequestStep(r) ==
    \/ FixedIdentity(r) \/ InvalidCredentials(r)
    \/ \E c \in certs : ExtractEndpointFromCert(r, c)
    \/ \E c \in tokens : ExtractEndpointFromJWT(r, c)
    \/ \E p \in Process : Find(r, p)
    \/ FindNone(r)
    \/ ExecuteHTTPRequest(r) \/ ExecutePanics(r)

Next ==
    \/ \E c \in certs : ControlStep(c)
    \/ \E p \in Process : ProcessStep(p)
    \/ \E r \in Request : RequestStep(r)

Spec == Init /\ [][Next]_vars

-----------------------------------------------------------------------------
(* What access to services promises. *)

\* A request on the secured port is performed by an endpoint, of the agent, type
\* and name, for which a control client has asked credentials: through the
\* certificate or token, extractEndpoint, find and findEndpoint, each of which
\* handles the three names in an order of its own, nothing is mixed up.
ServedAsGranted ==
    \A r \in Request :
        http[r] = "performed" /\ Listener[r] = Secure =>
            \E s \in asked :
                /\ AgentOf[via[r]] = s.agent
                /\ Matches(endpoints[via[r]][ep[r]], s)

\* No two endpoints of p are of the same service.
Distinct(p) ==
    \A i, j \in DOMAIN endpoints[p] :
        Matches(endpoints[p][i], endpoints[p][j]) => i = j

\* The controller's find and the agent's findEndpoint agree, though only the one
\* looks at Configured: a request that was sent to an agent is never answered "no
\* such service on agent", and meets an endpoint without a processor only if two
\* endpoints of the agent have the same name and type.
SentIsServable ==
    /\ \A r \in Request : http[r] # "unknown"
    /\ \A p \in Process : proc[p] = "panicked" => ~Distinct(p)
=============================================================================
