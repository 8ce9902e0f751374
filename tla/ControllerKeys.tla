---------------------------- MODULE ControllerKeys ----------------------------
(***************************************************************************)
(* The controller as a process that is configured, started and stopped     *)
(* (app/server/main.go, config.go, internal/ca): it reads its              *)
(* configuration and its keys once, one after the other, and listens on    *)
(* ports of which any two may be the same.  Meanwhile, and between two     *)
(* starts, an operator edits the configuration and the key files.  What    *)
(* outlives the process are the tokens it has signed: those of services    *)
(* and agents, and the mutated user names that services have seen in the   *)
(* requests it has forwarded.                                              *)
(*                                                                         *)
(* A request here is its headers: from the client, through the controller  *)
(* and the agent to the service, and those of the response back.           *)
(***************************************************************************)
EXTENDS Headers, FiniteSets

CONSTANTS
    Host,           \* host names
    ServiceName,    \* the names of configured listeners
    Configs,        \* the configuration files there may be
    Deployment,     \* the configuration and the key files an operator may begin with
    CAFiles,        \* what the files of the CA may be
    Request,        \* the requests on the secured service port
    Exchange,       \* what a request and its answer may be, see below
    NoExchange,     \* the request has not been sent
    Claim,          \* what a service or an agent token may say
    NoHeaders,      \* nothing has been sent
    MaxEdits,       \* bound on the edits of configuration and files
    MaxIssued       \* bound on the service and agent tokens

Port == 1 .. 65535

\* A listener is a goroutine of the process and the port it listens on; those that
\* are configured have names of their own.  (One that is configured with port 0, for
\* which the kernel picks a free port, is left out.)
Listener ==
    [name : {"control", "agent", "_services", "prometheus"} \cup ServiceName, port : Port]

\* The fields of ControllerConfig, with the hosts and ports a file may leave out.
ConfigOf(hosts, ports) ==
    [serverNames : SUBSET Host, incoming : SUBSET Listener,
     agentHost : hosts, serviceHost : hosts, controlHost : hosts,
     agentPort : ports, advertisePort : ports, servicePort : ports,
     controlPort : ports, prometheusPort : ports,
     serviceKey : KeyName \cup {Unset}, mutationKey : KeyName \cup {Unset},
     agentKey : KeyName \cup {Unset}]

ControllerConfig == ConfigOf(Host, Port)

ASSUME HostAssumption == Unset \notin Host
ASSUME ConfigAssumption == Configs \subseteq ConfigOf(Host \cup {Unset}, Port \cup {0})
ASSUME DeploymentAssumption ==
    Deployment \subseteq [config : Configs, service : Keyset, agent : Keyset]
ASSUME CAAssumption ==
    CAFiles \subseteq {"valid", "missing", "notCA", "expired", "early"} /\ "valid" \in CAFiles
\* The headers of a request but for its credentials, how it carries these, the
\* name of the agent and the credentials of the endpoint that perform it, and the
\* headers it is answered with.
ASSUME ExchangeAssumption ==
    \A x \in Exchange :
        /\ x.carrier \in {"token", "bearer", "basic", "certificate"}
        /\ DOMAIN x.base = HeaderName /\ DOMAIN x.reply = HeaderName
ASSUME NoneAssumption == NoExchange \notin Exchange
ASSUME BoundAssumption == MaxEdits \in Nat /\ MaxIssued \in Nat

VARIABLES
    configFile,     \* the configuration file
    serviceFiles,   \* the files in serviceAuth.secretsPath
    agentFiles,     \* the files in agentAuth.secretsPath
    caFile,         \* the files of the CA
    edits,          \* how often these were edited
    proc,           \* where main() is, or "down"
    config,         \* the configuration it has loaded
    serviceKeyset, agentKeyset,     \* the keys it has loaded
    registry,       \* the registry of each issuer
    certNames,      \* the names of its server certificate
    listening,      \* its listeners that have their port
    issued,         \* the service and agent tokens ever issued
    kept,           \* the tokens whose key file has been there since they were signed
    http,           \* where a request is
    exchange,       \* which one it is
    pb,             \* its headers in the tunnel
    seen,           \* the headers the service has seen
    reply           \* the headers the client got

fileVars == <<configFile, serviceFiles, agentFiles, caFile, edits>>
procVars == <<proc, config, serviceKeyset, agentKeyset, registry, certNames, listening>>
tokenVars == <<issued, kept>>
requestVars == <<http, exchange, pb, seen, reply>>
vars == <<fileVars, procVars, tokenVars, requestVars>>

Token == [issuer : Issuer, id : KeyName, secret : Secret, claims : Claim]

NoKeyset == [k \in KeyName |-> NoKey]

\* The steps of main() before and after its three registrations.
Loading == {"config", "serviceKeys", "agentKeys", "register"}
Registered == {"authority", "sample", "up"}

TypeOK ==
    /\ configFile \in Configs /\ caFile \in CAFiles /\ edits \in 0 .. MaxEdits
    /\ serviceFiles \in Keyset /\ agentFiles \in Keyset
    /\ proc \in {"down"} \cup Loading \cup Registered
    /\ config \in ControllerConfig \cup {Unset}
    /\ serviceKeyset \in Keyset /\ agentKeyset \in Keyset
    /\ registry \in [Issuer -> Registry \cup {NotRegistered}]
    /\ certNames \subseteq Host
    /\ listening \subseteq Listener
    /\ issued \subseteq Token
    /\ \A t \in kept : t.issuer \in Issuer /\ t.id \in KeyName /\ t.secret \in Secret
    /\ http \in [Request -> {"idle", "refused", "failed", "sent", "performed",
                             "answered", "lost"}]
    /\ exchange \in [Request -> Exchange \cup {NoExchange}]
    /\ \A carried \in {pb, seen, reply} :
        /\ DOMAIN carried = Request
        /\ \A r \in Request : carried[r] = NoHeaders \/ DOMAIN carried[r] = HeaderName

\* make-ca has made a CA.
Init ==
    /\ \E d \in Deployment :
        configFile = d.config /\ serviceFiles = d.service /\ agentFiles = d.agent
    /\ caFile = "valid" /\ edits = 0
    /\ proc = "down" /\ config = Unset
    /\ serviceKeyset = NoKeyset /\ agentKeyset = NoKeyset
    /\ registry = [i \in Issuer |-> NotRegistered]
    /\ certNames = {} /\ listening = {}
    /\ issued = {} /\ kept = {}
    /\ http = [r \in Request |-> "idle"]
    /\ exchange = [r \in Request |-> NoExchange]
    /\ pb = [r \in Request |-> NoHeaders]
    /\ seen = [r \in Request |-> NoHeaders]
    /\ reply = [r \in Request |-> NoHeaders]

-----------------------------------------------------------------------------
(* The operator. *)

Edit == edits < MaxEdits /\ edits' = edits + 1

EditConfig ==
    /\ Edit
    /\ configFile' \in Configs
    /\ UNCHANGED <<serviceFiles, agentFiles, caFile, procVars, tokenVars, requestVars>>

ReplaceCA ==
    /\ Edit
    /\ caFile' \in CAFiles
    /\ UNCHANGED <<configFile, serviceFiles, agentFiles, procVars, tokenVars, requestVars>>

\* The file of the key that signed t.
FileOf(t) == IF t.issuer = "opsmx-agent-auth" THEN agentFiles[t.id] ELSE serviceFiles[t.id]

\* A key file is written, or removed (NoKey).
EditKey(k, content) ==
    /\ Edit
    /\ \/ serviceFiles' = [serviceFiles EXCEPT ![k] = content] /\ UNCHANGED agentFiles
       \/ agentFiles' = [agentFiles EXCEPT ![k] = content] /\ UNCHANGED serviceFiles
    /\ kept' = {t \in kept : FileOf(t)' = t.secret}
    /\ UNCHANGED <<configFile, caFile, issued, procVars, requestVars>>

-----------------------------------------------------------------------------
(* main() of the controller. *)

\* By logger.Fatal of any goroutine, by a signal, or by a crash: the connections
\* end, and with them the requests that are under way.
Exits ==
    /\ proc' = "down" /\ config' = Unset
    /\ serviceKeyset' = NoKeyset /\ agentKeyset' = NoKeyset
    /\ registry' = [i \in Issuer |-> NotRegistered]
    /\ certNames' = {} /\ listening' = {}
    /\ http' = [r \in Request |-> IF http[r] \in {"sent", "performed"} THEN "lost" ELSE http[r]]
    /\ UNCHANGED <<fileVars, tokenVars, exchange, pb, seen, reply>>

Stops == proc # "down" /\ Exits

Goes(from, to) == proc = from /\ proc' = to

StartUp ==
    /\ Goes("down", "config")
    /\ UNCHANGED <<fileVars, config, serviceKeyset, agentKeyset, registry, certNames,
                   listening, tokenVars, requestVars>>

\* LoadConfig fails without the three host names.
Loads(file) == Unset \notin {file.agentHost, file.serviceHost, file.controlHost}

Or(port, default) == IF port = 0 THEN default ELSE port

\* Mutant: the host of the service port is forgotten.
AddAllHostnamesTwo(file) == file.serverNames \cup {file.agentHost, file.controlHost}

AddAllHostnames(file) ==
    file.serverNames \cup {file.agentHost, file.controlHost, file.serviceHost}

\* Mutant: the port to advertise is taken before the agents' port has its default.
LoadConfigAdvertisesFirst(file) ==
    [file EXCEPT !.agentPort = Or(@, 9001),
                 !.advertisePort = Or(@, file.agentPort),
                 !.servicePort = Or(@, 9002),
                 !.controlPort = Or(@, 9003),
                 !.prometheusPort = Or(@, 9102),
                 !.serverNames = AddAllHostnames(file)]

LoadConfig(file) ==
    [file EXCEPT !.agentPort = Or(@, 9001),
                 !.advertisePort = Or(@, Or(file.agentPort, 9001)),
                 !.servicePort = Or(@, 9002),
                 !.controlPort = Or(@, 9003),
                 !.prometheusPort = Or(@, 9102),
                 !.serverNames = AddAllHostnames(file)]

ParseConfig ==
    \/ /\ Goes("config", "serviceKeys")
       /\ Loads(configFile)
       /\ config' = LoadConfig(configFile)
       /\ UNCHANGED <<fileVars, serviceKeyset, agentKeyset, registry, certNames, listening,
                      tokenVars, requestVars>>
    \/ proc = "config" /\ ~Loads(configFile) /\ Exits

\* Mutant: only the key that signs is loaded.
LoadServiceAuthKeysetOne ==
    LET keys == [k \in KeyName |-> IF k = config.serviceKey THEN serviceFiles[k] ELSE NoKey]
        complete == Found(keys, config.serviceKey) /\ config.mutationKey # Unset
    IN  \/ /\ Goes("serviceKeys", "agentKeys")
           /\ complete
           /\ serviceKeyset' = keys
           /\ UNCHANGED <<fileVars, config, agentKeyset, registry, certNames, listening,
                          tokenVars, requestVars>>
        \/ proc = "serviceKeys" /\ ~complete /\ Exits

\* Mutant: the key that signs is not looked up.
LoadServiceAuthKeysetUnchecked ==
    LET complete == config.serviceKey # Unset /\ config.mutationKey # Unset
    IN  \/ /\ Goes("serviceKeys", "agentKeys")
           /\ complete
           /\ serviceKeyset' = serviceFiles
           /\ UNCHANGED <<fileVars, config, agentKeyset, registry, certNames, listening,
                          tokenVars, requestVars>>
        \/ proc = "serviceKeys" /\ ~complete /\ Exits

\* Every regular file is a key.  The key that signs must be there; of the one that
\* mutates headers only the name.
LoadServiceAuthKeyset ==
    LET complete == Found(serviceFiles, config.serviceKey) /\ config.mutationKey # Unset
    IN  \/ /\ Goes("serviceKeys", "agentKeys")
           /\ complete
           /\ serviceKeyset' = serviceFiles
           /\ UNCHANGED <<fileVars, config, agentKeyset, registry, certNames, listening,
                          tokenVars, requestVars>>
        \/ proc = "serviceKeys" /\ ~complete /\ Exits

LoadAgentAuthKeyset ==
    \/ /\ Goes("agentKeys", "register")
       /\ Found(agentFiles, config.agentKey)
       /\ agentKeyset' = agentFiles
       /\ UNCHANGED <<fileVars, config, serviceKeyset, registry, certNames, listening,
                      tokenVars, requestVars>>
    \/ proc = "agentKeys" /\ ~Found(agentFiles, config.agentKey) /\ Exits

RegisterKeysets ==
    /\ Goes("register", "authority")
    /\ registry' = [i \in Issuer |->
            CASE i = "opsmx" -> RegisterServiceKeyset(serviceKeyset, config.serviceKey)
              [] i = "opsmx-agent-auth" -> RegisterAgentKeyset(agentKeyset, config.agentKey)
              [] i = "opsmx-header-mutation" ->
                    RegisterMutationKeyset(serviceKeyset, config.mutationKey)]
    /\ UNCHANGED <<fileVars, config, serviceKeyset, agentKeyset, certNames, listening,
                   tokenVars, requestVars>>

LoadCertificate(file) == file # "missing"

ValidateCACert(file) == file \notin {"notCA", "expired", "early"}

LoadCAFromFile(file) == LoadCertificate(file) /\ ValidateCACert(file)

\* The authority is loaded and makes the server certificate, and the goroutines of
\* the listeners are started: each finds out by itself whether it can listen.
LoadAuthority ==
    \/ /\ Goes("authority", "sample")
       /\ LoadCAFromFile(caFile)
       /\ certNames' = config.serverNames
       /\ UNCHANGED <<fileVars, config, serviceKeyset, agentKeyset, registry, listening,
                      tokenVars, requestVars>>
    \/ proc = "authority" /\ ~LoadCAFromFile(caFile) /\ Exits

\* The sample agent JWT is made, and main() waits for a signal.
MakeSampleJWT ==
    /\ proc = "sample"
    /\ IF CanSign(registry["opsmx-agent-auth"])
       THEN /\ proc' = "up"
            /\ UNCHANGED <<fileVars, config, serviceKeyset, agentKeyset, registry, certNames,
                           listening, tokenVars, requestVars>>
       ELSE Exits

Listeners(c) ==
    IF c = Unset THEN {} ELSE
    {[name |-> "control", port |-> c.controlPort], [name |-> "agent", port |-> c.agentPort],
     [name |-> "_services", port |-> c.servicePort],
     [name |-> "prometheus", port |-> c.prometheusPort]} \cup c.incoming

\* GetServiceURL, GetControlURL and GetAgentHostname.
AdvertisedHosts(c) ==
    IF c = Unset THEN {} ELSE {c.agentHost, c.serviceHost, c.controlHost}

\* A listener that does not get its port ends the process.
Listens(l) ==
    /\ proc \in {"sample", "up"}
    /\ l \in Listeners(config) \ listening
    /\ IF \E other \in listening : other.port = l.port
       THEN Exits
       ELSE /\ listening' = listening \cup {l}
            /\ UNCHANGED <<fileVars, proc, config, serviceKeyset, agentKeyset, registry,
                           certNames, tokenVars, requestVars>>

Up(name) == \E l \in listening : l.name = name

-----------------------------------------------------------------------------
(* Tokens. *)

\* t has just been signed.
Keep(t) == kept' = IF FileOf(t) = t.secret THEN kept \cup {t} ELSE kept

\* MakeServiceJWT or MakeAgentJWT, for a client of the control API.
Issue(issuer, claims) ==
    /\ Up("control")
    /\ CanSign(registry[issuer])
    /\ LET t == Sign(registry[issuer], claims)
       IN  issued' = issued \cup {t} /\ Keep(t)
    /\ Cardinality(issued') <= MaxIssued
    /\ UNCHANGED <<fileVars, procVars, requestVars>>

-----------------------------------------------------------------------------
(* The headers of a request. *)

Mutation == registry["opsmx-header-mutation"]

\* The headers of x with the token value as its credentials.
Carry(x, value) ==
    CASE x.carrier = "token" -> [x.base EXCEPT !["X-Opsmx-Token"] = <<value>>]
      [] x.carrier = "bearer" ->
            [x.base EXCEPT !["Authorization"] = <<Credentials("Bearer", value)>>]
      [] x.carrier = "basic" ->
            [x.base EXCEPT !["Authorization"] = <<Credentials("Basic", value)>>]
      [] x.carrier = "certificate" -> x.base

\* With a certificate of a service the token is neither looked for nor deleted.
ByCertificate(x) == x.carrier = "certificate"

Identifies(x, headers) ==
    ByCertificate(x) \/ ValidateServiceJWT(registry["opsmx"], AuthPassword(headers))

\* Mutant: the token stays in its header.
ExtractEndpointKeeps(x, headers) == headers

\* The headers that extractEndpoint leaves.
ExtractEndpoint(x, headers) == IF ByCertificate(x) THEN headers ELSE DelToken(headers)

Answered(r, how) ==
    /\ http' = [http EXCEPT ![r] = how]
    /\ UNCHANGED <<kept, pb, seen, reply>>

\* The secured listener's handler, up to the request in the tunnel.  It fails if no
\* agent serves the request (ServiceAccess), its body cannot be read, or its headers
\* cannot be converted.
RunAPIHandler(r, x, value) ==
    /\ Up("_services")
    /\ http[r] = "idle"
    /\ exchange' = [exchange EXCEPT ![r] = x]
    /\ LET sent == Carry(x, value)
           left == ExtractEndpoint(x, sent)
       IN  \/ ~Identifies(x, sent) /\ Answered(r, "refused")
           \/ Identifies(x, sent) /\ Answered(r, "failed")
           \/ /\ Identifies(x, sent) /\ ~HTTPHeadersFail(Mutation, left)
              /\ http' = [http EXCEPT ![r] = "sent"]
              /\ pb' = [pb EXCEPT ![r] = HTTPHeadersToPB(Mutation, left)]
              /\ IF Mutates(Mutation, left) = {} THEN UNCHANGED kept
                 ELSE Keep(Sign(Mutation, left["X-Spinnaker-User"][1]))
              /\ UNCHANGED <<seen, reply>>
    /\ UNCHANGED <<fileVars, procVars, issued>>

\* An agent registers no keyset for mutation: it undoes nothing, neither in headers
\* nor (unmutateURI) in the path of a request.
AgentRegistry == NotRegistered

ExecuteHTTPRequest(r) ==
    /\ http[r] = "sent"
    /\ ~PBHEadersFail(AgentRegistry, pb[r])
    /\ http' = [http EXCEPT ![r] = "performed"]
    /\ seen' = [seen EXCEPT ![r] =
            SetCredentials(
                SetAgentName(PBHEadersToHTTP(AgentRegistry, pb[r]), exchange[r].agent),
                exchange[r].endpoint)]
    /\ UNCHANGED <<fileVars, procVars, tokenVars, exchange, pb, reply>>

\* The agent cannot build the request, or the service does not answer it.
RequestFails(r) ==
    /\ http[r] \in {"sent", "performed"}
    /\ http' = [http EXCEPT ![r] = "failed"]
    /\ UNCHANGED <<fileVars, procVars, tokenVars, exchange, pb, seen, reply>>

\* makeResponse on the agent, and the headers case of runEcho on the controller.
MakeResponse(r) ==
    /\ http[r] = "performed"
    /\ http' = [http EXCEPT ![r] = "answered"]
    /\ reply' = [reply EXCEPT ![r] = HTTPHeadersToPB(AgentRegistry, exchange[r].reply)]
    /\ UNCHANGED <<fileVars, procVars, tokenVars, exchange, pb, seen>>

-----------------------------------------------------------------------------

OperatorStep ==
    \/ EditConfig \/ ReplaceCA
    \/ \E k \in KeyName, content \in Secret \cup {NoKey} : EditKey(k, content)

MainStep ==
    \/ StartUp \/ ParseConfig \/ LoadServiceAuthKeyset \/ LoadAgentAuthKeyset
    \/ RegisterKeysets \/ LoadAuthority \/ MakeSampleJWT

ListenerStep == proc \in {"sample", "up"} /\ \E l \in Listeners(config) : Listens(l)

RequestStep(r) ==
    \/ \E x \in Exchange, value \in {NoValue} \cup {Signed(t) : t \in issued} :
        RunAPIHandler(r, x, value)
    \/ ExecuteHTTPRequest(r) \/ RequestFails(r) \/ MakeResponse(r)

Next ==
    \/ OperatorStep
    \/ MainStep \/ ListenerStep \/ Stops
    \/ \E issuer \in {"opsmx", "opsmx-agent-auth"}, claims \in Claim : Issue(issuer, claims)
    \/ \E r \in Request : RequestStep(r)

Spec == Init /\ [][Next]_vars

\* The goroutines of the listeners run.
FairSpec == Spec /\ WF_vars(ListenerStep)

-----------------------------------------------------------------------------
(* What outlives a restart. *)

\* A token stays good as long as its key file does: whatever else is edited, and
\* whichever key the controller was told to sign with when it was started again.
KeptTokensVerify ==
    proc \in Registered => \A t \in kept : Validates(registry[t.issuer], t)

\* The configuration and the keys are read one after the other, and may be edited
\* in between: a controller that has got to its listeners can still sign what the
\* control API and the log are to hand out.
ServingCanSign ==
    proc \in {"sample", "up"} =>
        CanSign(registry["opsmx"]) /\ CanSign(registry["opsmx-agent-auth"])

\* A controller that stays up listens on every port of its configuration, with a
\* certificate that names the hosts it hands out in URLs and manifests: a port
\* that is used twice does not leave it half working.
AdvertisedIsServed ==
    proc = "up" ~>
        \/ proc = "down"
        \/ listening = Listeners(config) /\ AdvertisedHosts(config) \subseteq certNames

-----------------------------------------------------------------------------
(* What services and clients see. *)

\* The user names that r is sent with.
User(r) == exchange[r].base["X-Spinnaker-User"]

\* mutateheaders.go:29-36: of the user names in a request a service sees the first,
\* and that only as a token of the controller that forwarded it: never a name in the
\* clear, nor a second value.  The token says what came in, also when that was such a
\* token, sent back by a service: no path of a controller undoes it (:36-43 draws one),
\* it is signed again.  A controller started later still takes it for good while its
\* key file is there.
UserSeenAsToken ==
    \A r \in Request : seen[r] # NoHeaders /\ User(r) # <<>> =>
        \E id \in KeyName, secret \in Secret :
            LET t == [issuer |-> "opsmx-header-mutation", id |-> id, secret |-> secret,
                      claims |-> User(r)[1]]
            IN  /\ seen[r]["X-Spinnaker-User"] = <<Signed(t)>>
                /\ proc \in Registered /\ t \in kept => Validates(Mutation, t)

\* The credentials of the two ends of the tunnel are kept apart: the service sees
\* those of its endpoint and no others, in no header the token of the request that
\* was identified by it, and the client no credentials of the service's.
CredentialsStayApart ==
    \A r \in Request :
        /\ seen[r] # NoHeaders =>
            /\ seen[r]["Authorization"] =
                SetCredentials(NoneSet, exchange[r].endpoint)["Authorization"]
            /\ ~ByCertificate(exchange[r]) => seen[r]["X-Opsmx-Token"] = <<>>
        /\ reply[r] # NoHeaders => reply[r]["Authorization"] = <<>>
=============================================================================
