-------------------------- MODULE ControllerKeysProofs --------------------------
(***************************************************************************)
(* What holds of ControllerKeys whatever the configurations, the key files, *)
(* the requests and the number of edits and restarts.                       *)
(*                                                                          *)
(* The inductive invariant IInv has two parts that need each other.  Keys:  *)
(* a token is kept only while its file is there, and once the process has   *)
(* read the files of an issuer it has those of every kept token of his;     *)
(* its keysets are those of the registries.  Requests: what the tunnel has  *)
(* of a request has lost its credentials, and its user is a token of the    *)
(* controller's; what the service has seen is that and what the agent has   *)
(* added.                                                                   *)
(***************************************************************************)
EXTENDS ControllerKeys, TLAPS

HasAgentKeys == {"register"} \cup Registered
HasServiceKeys == {"agentKeys"} \cup HasAgentKeys
HasConfig == {"serviceKeys"} \cup HasServiceKeys

\* The key of the process that bears the name of the one that signed t.
Loaded(t) ==
    IF t.issuer = "opsmx-agent-auth" THEN agentKeyset[t.id] ELSE serviceKeyset[t.id]

KeptInv ==
    /\ \A t \in kept : FileOf(t) = t.secret
    /\ proc \in HasServiceKeys =>
        \A t \in kept : t.issuer # "opsmx-agent-auth" => serviceKeyset[t.id] = t.secret
    /\ proc \in HasAgentKeys =>
        \A t \in kept : t.issuer = "opsmx-agent-auth" => agentKeyset[t.id] = t.secret

ProcInv ==
    /\ proc \in HasConfig => config \in ControllerConfig
    /\ proc \in HasServiceKeys => Found(serviceKeyset, config.serviceKey)
    /\ proc \in HasAgentKeys => Found(agentKeyset, config.agentKey)
    /\ proc \in Registered =>
        /\ registry["opsmx"] = Register("opsmx", serviceKeyset, config.serviceKey)
        /\ registry["opsmx-agent-auth"] =
            Register("opsmx-agent-auth", agentKeyset, config.agentKey)
        /\ registry["opsmx-header-mutation"] =
            Register("opsmx-header-mutation", serviceKeyset, config.mutationKey)
    /\ listening # {} => proc \in {"sample", "up"}

UserToken(name) ==
    {Signed(t) : t \in [issuer : {"opsmx-header-mutation"}, id : KeyName, secret : Secret,
                        claims : {name}]}

\* The user of r in headers.
HidesUser(r, headers) ==
    User(r) # <<>> => \E value \in UserToken(User(r)[1]) :
                        headers["X-Spinnaker-User"] = <<value>>

HidesToken(r, headers) == ~ByCertificate(exchange[r]) => headers["X-Opsmx-Token"] = <<>>

RequestInv ==
    \A r \in Request :
        /\ http[r] = "idle" => pb[r] = NoHeaders /\ seen[r] = NoHeaders /\ reply[r] = NoHeaders
        /\ http[r] \in {"sent", "performed"} => exchange[r] \in Exchange
        /\ http[r] = "sent" =>
            /\ DOMAIN pb[r] = HeaderName
            /\ pb[r]["Authorization"] = <<>>
            /\ HidesToken(r, pb[r]) /\ HidesUser(r, pb[r])
        /\ seen[r] # NoHeaders =>
            /\ DOMAIN seen[r] = HeaderName
            /\ seen[r]["Authorization"] =
                SetCredentials(NoneSet, exchange[r].endpoint)["Authorization"]
            /\ HidesToken(r, seen[r]) /\ HidesUser(r, seen[r])
        /\ reply[r] # NoHeaders => reply[r]["Authorization"] = <<>>

IInv == TypeOK /\ ProcInv /\ KeptInv /\ RequestInv
-----------------------------------------------------------------------------
(* What a step leaves alone. *)

LEMMA RequestsUnchanged ==
    ASSUME RequestInv, UNCHANGED requestVars
    PROVE  RequestInv'
BY DEF RequestInv, requestVars, HidesUser, HidesToken, User

LEMMA ProcUnchanged ==
    ASSUME ProcInv, UNCHANGED procVars
    PROVE  ProcInv'
BY DEF ProcInv, procVars

LEMMA KeptUnchanged ==
    ASSUME KeptInv, UNCHANGED <<serviceFiles, agentFiles, kept, proc, serviceKeyset, agentKeyset>>
    PROVE  KeptInv'
BY DEF KeptInv, FileOf

LEMMA InitIInv == Init => IInv
<1> SUFFICES ASSUME Init PROVE IInv
    OBVIOUS
<1>1. TypeOK
    BY ConfigAssumption, DeploymentAssumption, CAAssumption, BoundAssumption
       DEF Init, TypeOK, Keyset, NoKeyset, Loading, Registered
<1>2. ProcInv
    BY DEF Init, ProcInv, HasConfig, HasServiceKeys, HasAgentKeys, Registered
<1>3. KeptInv
    BY DEF Init, KeptInv
<1>4. RequestInv
    BY DEF Init, RequestInv
<1> QED
    BY <1>1, <1>2, <1>3, <1>4 DEF IInv

\* When the process ends, its requests do, and nothing that is kept depends on it.
LEMMA ExitsIInv ==
    ASSUME IInv, Exits
    PROVE  IInv'
<1>1. TypeOK'
    BY DEF IInv, Exits, TypeOK, Keyset, NoKeyset, fileVars, tokenVars
<1>2. ProcInv'
    BY DEF Exits, ProcInv, HasConfig, HasServiceKeys, HasAgentKeys, Registered
<1>3. KeptInv'
    BY DEF IInv, Exits, KeptInv, FileOf, fileVars, tokenVars, HasServiceKeys, HasAgentKeys,
           Registered
<1>4. RequestInv'
    <2> SUFFICES ASSUME NEW r \in Request
                 PROVE  /\ http'[r] = "idle" => http[r] = "idle"
                        /\ http'[r] = "sent" => http[r] = "sent"
                        /\ http'[r] = "performed" => http[r] = "performed"
        BY DEF IInv, Exits, RequestInv, HidesUser, HidesToken, User
    <2> QED
        BY DEF Exits
<1> QED
    BY <1>1, <1>2, <1>3, <1>4 DEF IInv

-----------------------------------------------------------------------------
(* The operator's steps. *)

LEMMA EditIInv ==
    ASSUME IInv, EditConfig \/ ReplaceCA
    PROVE  IInv'
<1>1. TypeOK'
    BY BoundAssumption DEF IInv, EditConfig, ReplaceCA, Edit, TypeOK, procVars, tokenVars, requestVars
<1>2. ProcInv'
    BY ProcUnchanged DEF IInv, EditConfig, ReplaceCA
<1>3. KeptInv'
    BY KeptUnchanged DEF IInv, EditConfig, ReplaceCA, procVars, tokenVars
<1>4. RequestInv'
    BY RequestsUnchanged DEF IInv, EditConfig, ReplaceCA
<1> QED
    BY <1>1, <1>2, <1>3, <1>4 DEF IInv

\* The tokens whose file is gone are kept no longer.
LEMMA EditKeyIInv ==
    ASSUME IInv, NEW k \in KeyName, NEW content \in Secret \cup {NoKey}, EditKey(k, content)
    PROVE  IInv'
<1>1. TypeOK'
    BY BoundAssumption DEF IInv, EditKey, Edit, TypeOK, Keyset, procVars, requestVars
<1>2. ProcInv'
    BY ProcUnchanged DEF IInv, EditKey
<1>3. KeptInv'
    <2>1. kept' \subseteq kept /\ \A t \in kept' : FileOf(t)' = t.secret
        BY DEF EditKey
    <2> QED
        BY <2>1 DEF IInv, KeptInv, EditKey, procVars
<1>4. RequestInv'
    BY RequestsUnchanged DEF IInv, EditKey
<1> QED
    BY <1>1, <1>2, <1>3, <1>4 DEF IInv

-----------------------------------------------------------------------------
(* The steps of main(). *)

LEMMA LoadConfigType ==
    ASSUME NEW file \in Configs, Loads(file)
    PROVE  LoadConfig(file) \in ControllerConfig
<1>1. file \in ConfigOf(Host \cup {Unset}, Port \cup {0})
    BY ConfigAssumption
<1>2. /\ file.agentHost \in Host /\ file.serviceHost \in Host /\ file.controlHost \in Host
    BY <1>1 DEF ConfigOf, Loads
<1>3. ASSUME NEW port \in Port \cup {0}, NEW default \in Port PROVE Or(port, default) \in Port
    BY DEF Or
<1>4. {9001, 9002, 9003, 9102} \subseteq Port
    BY DEF Port
<1>5. /\ Or(file.agentPort, 9001) \in Port
      /\ Or(file.advertisePort, Or(file.agentPort, 9001)) \in Port
      /\ Or(file.servicePort, 9002) \in Port
      /\ Or(file.controlPort, 9003) \in Port
      /\ Or(file.prometheusPort, 9102) \in Port
    <2>1. Or(file.agentPort, 9001) \in Port
        BY <1>1, <1>3, <1>4 DEF ConfigOf
    <2> QED
        BY <1>1, <1>3, <1>4, <2>1 DEF ConfigOf
<1>6. AddAllHostnames(file) \in SUBSET Host
    BY <1>1, <1>2 DEF AddAllHostnames, ConfigOf
<1> DEFINE loaded ==
        [serverNames |-> AddAllHostnames(file), incoming |-> file.incoming,
         agentHost |-> file.agentHost, serviceHost |-> file.serviceHost,
         controlHost |-> file.controlHost,
         agentPort |-> Or(file.agentPort, 9001),
         advertisePort |-> Or(file.advertisePort, Or(file.agentPort, 9001)),
         servicePort |-> Or(file.servicePort, 9002),
         controlPort |-> Or(file.controlPort, 9003),
         prometheusPort |-> Or(file.prometheusPort, 9102),
         serviceKey |-> file.serviceKey, mutationKey |-> file.mutationKey,
         agentKey |-> file.agentKey]
<1> DEFINE field == DOMAIN loaded
<1>7. LoadConfig(file) = loaded
    <2> DEFINE c == LoadConfig(file)
    <2>1. DOMAIN file = field
        BY <1>1 DEF ConfigOf
    <2>2. /\ c.serverNames = loaded.serverNames
          /\ c.agentPort = loaded.agentPort /\ c.advertisePort = loaded.advertisePort
          /\ c.servicePort = loaded.servicePort /\ c.controlPort = loaded.controlPort
          /\ c.prometheusPort = loaded.prometheusPort
        BY <2>1 DEF LoadConfig
    <2>3. /\ c.incoming = loaded.incoming
          /\ c.agentHost = loaded.agentHost /\ c.serviceHost = loaded.serviceHost
          /\ c.controlHost = loaded.controlHost /\ c.serviceKey = loaded.serviceKey
          /\ c.mutationKey = loaded.mutationKey /\ c.agentKey = loaded.agentKey
        BY <2>1 DEF LoadConfig
    <2>4. c = [f \in DOMAIN file |-> c[f]]
        <3> DEFINE p1 == Or(file.agentPort, 9001)
                   p2 == Or(file.advertisePort, Or(file.agentPort, 9001))
                   p3 == Or(file.servicePort, 9002)
                   p4 == Or(file.controlPort, 9003)
                   p5 == Or(file.prometheusPort, 9102)
                   names == AddAllHostnames(file)
                   g == [file EXCEPT !.agentPort = p1, !.advertisePort = p2,
                                     !.servicePort = p3, !.controlPort = p4,
                                     !.prometheusPort = p5, !.serverNames = names]
        <3>1. c = g
            BY DEF LoadConfig
        <3> HIDE DEF p1, p2, p3, p4, p5, names, c
        <3>2. g = [f \in DOMAIN file |-> g[f]]
            OBVIOUS
        <3> HIDE DEF g
        <3> QED
            BY <3>1, <3>2
    <2> HIDE DEF c
    <2>5. c = loaded
        BY <2>1, <2>2, <2>3, <2>4
    <2> QED
        BY <2>5 DEF c
<1>8. loaded \in ControllerConfig
    BY <1>1, <1>2, <1>5, <1>6 DEF ConfigOf, ControllerConfig
<1> QED
    BY <1>7, <1>8

\* Signing with a key that is there makes a token of that key.
LEMMA SignType ==
    ASSUME NEW reg \in Registry, CanSign(reg), NEW claims
    PROVE  /\ Sign(reg, claims) = [issuer |-> reg.issuer, id |-> reg.signing,
                                   secret |-> reg.keys[reg.signing], claims |-> claims]
           /\ reg.signing \in KeyName /\ reg.keys[reg.signing] \in Secret
BY DEF Registry, Keyset, CanSign, Found, Sign

LEMMA StartUpIInv ==
    ASSUME IInv, StartUp
    PROVE  IInv'
<1>1. TypeOK'
    BY DEF IInv, StartUp, Goes, TypeOK, Loading, fileVars, tokenVars, requestVars
<1>2. ProcInv'
    BY DEF IInv, StartUp, Goes, ProcInv, HasConfig, HasServiceKeys, HasAgentKeys, Registered
<1>3. KeptInv'
    BY DEF IInv, StartUp, Goes, KeptInv, FileOf, fileVars, tokenVars, HasServiceKeys,
           HasAgentKeys, Registered
<1>4. RequestInv'
    BY RequestsUnchanged DEF IInv, StartUp
<1> QED
    BY <1>1, <1>2, <1>3, <1>4 DEF IInv

LEMMA ParseConfigIInv ==
    ASSUME IInv, ParseConfig
    PROVE  IInv'
<1> SUFFICES ASSUME Goes("config", "serviceKeys"), Loads(configFile),
                    config' = LoadConfig(configFile),
                    UNCHANGED <<fileVars, serviceKeyset, agentKeyset, registry, certNames,
                                listening, tokenVars, requestVars>>
             PROVE  IInv'
    BY ExitsIInv DEF ParseConfig
<1>0. config' \in ControllerConfig
    BY LoadConfigType DEF IInv, TypeOK
<1>1. TypeOK'
    BY <1>0 DEF IInv, Goes, TypeOK, Loading, fileVars, tokenVars, requestVars
<1>2. ProcInv'
    BY <1>0 DEF IInv, Goes, ProcInv, HasConfig, HasServiceKeys, HasAgentKeys, Registered
<1>3. KeptInv'
    BY DEF IInv, Goes, KeptInv, FileOf, fileVars, tokenVars, HasServiceKeys,
           HasAgentKeys, Registered
<1>4. RequestInv'
    BY RequestsUnchanged DEF IInv
<1> QED
    BY <1>1, <1>2, <1>3, <1>4 DEF IInv

\* What is loaded is what is kept by the files.
LEMMA LoadServiceAuthKeysetIInv ==
    ASSUME IInv, LoadServiceAuthKeyset
    PROVE  IInv'
<1> SUFFICES ASSUME Goes("serviceKeys", "agentKeys"), Found(serviceFiles, config.serviceKey),
                    serviceKeyset' = serviceFiles,
                    UNCHANGED <<fileVars, config, agentKeyset, registry, certNames, listening,
                                tokenVars, requestVars>>
             PROVE  IInv'
    BY ExitsIInv DEF LoadServiceAuthKeyset
<1>1. TypeOK'
    BY DEF IInv, Goes, TypeOK, Loading, fileVars, tokenVars, requestVars
<1>2. ProcInv'
    BY DEF IInv, Goes, ProcInv, HasConfig, HasServiceKeys, HasAgentKeys, Registered
<1>3. KeptInv'
    BY DEF IInv, Goes, KeptInv, FileOf, fileVars, tokenVars, HasServiceKeys,
           HasAgentKeys, Registered
<1>4. RequestInv'
    BY RequestsUnchanged DEF IInv
<1> QED
    BY <1>1, <1>2, <1>3, <1>4 DEF IInv

LEMMA LoadAgentAuthKeysetIInv ==
    ASSUME IInv, LoadAgentAuthKeyset
    PROVE  IInv'
<1> SUFFICES ASSUME Goes("agentKeys", "register"), Found(agentFiles, config.agentKey),
                    agentKeyset' = agentFiles,
                    UNCHANGED <<fileVars, config, serviceKeyset, registry, certNames, listening,
                                tokenVars, requestVars>>
             PROVE  IInv'
    BY ExitsIInv DEF LoadAgentAuthKeyset
<1>1. TypeOK'
    BY DEF IInv, Goes, TypeOK, Loading, fileVars, tokenVars, requestVars
<1>2. ProcInv'
    BY DEF IInv, Goes, ProcInv, HasConfig, HasServiceKeys, HasAgentKeys, Registered
<1>3. KeptInv'
    BY DEF IInv, Goes, KeptInv, FileOf, fileVars, tokenVars, HasServiceKeys,
           HasAgentKeys, Registered
<1>4. RequestInv'
    BY RequestsUnchanged DEF IInv
<1> QED
    BY <1>1, <1>2, <1>3, <1>4 DEF IInv

LEMMA RegisterKeysetsIInv ==
    ASSUME IInv, RegisterKeysets
    PROVE  IInv'
<1>0. /\ registry' \in [Issuer -> Registry]
      /\ registry'["opsmx"] = Register("opsmx", serviceKeyset, config.serviceKey)
      /\ registry'["opsmx-agent-auth"] = Register("opsmx-agent-auth", agentKeyset, config.agentKey)
      /\ registry'["opsmx-header-mutation"] =
            Register("opsmx-header-mutation", serviceKeyset, config.mutationKey)
    <2>1. config \in ControllerConfig
        BY DEF IInv, RegisterKeysets, Goes, ProcInv, HasConfig, HasServiceKeys, HasAgentKeys
    <2>2. \A key \in {config.serviceKey, config.agentKey, config.mutationKey} :
            key \in KeyName \cup {Unset}
        BY <2>1 DEF ControllerConfig, ConfigOf
    <2>3. ASSUME NEW i \in Issuer, NEW keys \in Keyset, NEW key \in KeyName \cup {Unset}
          PROVE  Register(i, keys, key) \in Registry
        BY DEF Register, Registry
    <2> QED
        BY <2>2, <2>3 DEF RegisterKeysets, Issuer, RegisterServiceKeyset, RegisterAgentKeyset,
                          RegisterMutationKeyset, IInv, TypeOK
<1>1. TypeOK'
    BY <1>0 DEF IInv, RegisterKeysets, Goes, TypeOK, Registered, fileVars, tokenVars, requestVars
<1>2. ProcInv'
    BY <1>0 DEF IInv, RegisterKeysets, Goes, ProcInv, HasConfig, HasServiceKeys, HasAgentKeys,
                Registered
<1>3. KeptInv'
    BY DEF IInv, RegisterKeysets, Goes, KeptInv, FileOf, fileVars, tokenVars, HasServiceKeys,
           HasAgentKeys, Registered
<1>4. RequestInv'
    BY RequestsUnchanged DEF IInv, RegisterKeysets
<1> QED
    BY <1>1, <1>2, <1>3, <1>4 DEF IInv

LEMMA LoadAuthorityIInv ==
    ASSUME IInv, LoadAuthority
    PROVE  IInv'
<1> SUFFICES ASSUME Goes("authority", "sample"), certNames' = config.serverNames,
                    UNCHANGED <<fileVars, config, serviceKeyset, agentKeyset, registry,
                                listening, tokenVars, requestVars>>
             PROVE  IInv'
    BY ExitsIInv DEF LoadAuthority
<1>0. certNames' \subseteq Host
    BY DEF IInv, ProcInv, Goes, HasConfig, HasServiceKeys, HasAgentKeys, Registered,
           ControllerConfig, ConfigOf
<1>1. TypeOK'
    BY <1>0 DEF IInv, Goes, TypeOK, Registered, fileVars, tokenVars, requestVars
<1>2. ProcInv'
    BY DEF IInv, Goes, ProcInv, HasConfig, HasServiceKeys, HasAgentKeys, Registered
<1>3. KeptInv'
    BY DEF IInv, Goes, KeptInv, FileOf, fileVars, tokenVars, HasServiceKeys,
           HasAgentKeys, Registered
<1>4. RequestInv'
    BY RequestsUnchanged DEF IInv
<1> QED
    BY <1>1, <1>2, <1>3, <1>4 DEF IInv

LEMMA MakeSampleJWTIInv ==
    ASSUME IInv, MakeSampleJWT
    PROVE  IInv'
<1> SUFFICES ASSUME proc = "sample", proc' = "up",
                    UNCHANGED <<fileVars, config, serviceKeyset, agentKeyset, registry, certNames,
                                listening, tokenVars, requestVars>>
             PROVE  IInv'
    BY ExitsIInv DEF MakeSampleJWT
<1>1. TypeOK'
    BY DEF IInv, TypeOK, Registered, fileVars, tokenVars, requestVars
<1>2. ProcInv'
    BY DEF IInv, ProcInv, HasConfig, HasServiceKeys, HasAgentKeys, Registered
<1>3. KeptInv'
    BY DEF IInv, KeptInv, FileOf, fileVars, tokenVars, HasServiceKeys,
           HasAgentKeys, Registered
<1>4. RequestInv'
    BY RequestsUnchanged DEF IInv
<1> QED
    BY <1>1, <1>2, <1>3, <1>4 DEF IInv

LEMMA ListensIInv ==
    ASSUME IInv, NEW l, Listens(l)
    PROVE  IInv'
<1> SUFFICES ASSUME listening' = listening \cup {l},
                    UNCHANGED <<fileVars, proc, config, serviceKeyset, agentKeyset, registry,
                                certNames, tokenVars, requestVars>>
             PROVE  IInv'
    BY ExitsIInv DEF Listens
<1>0. l \in Listener
    <2>1. config \in ControllerConfig /\ l \in Listeners(config)
        BY DEF IInv, ProcInv, Listens, HasConfig, HasServiceKeys, HasAgentKeys, Registered
    <2>2. /\ config.incoming \subseteq Listener
          /\ config.controlPort \in Port /\ config.agentPort \in Port
          /\ config.servicePort \in Port /\ config.prometheusPort \in Port
        BY <2>1 DEF ControllerConfig, ConfigOf
    <2>3. \A port \in Port : /\ [name |-> "control", port |-> port] \in Listener
                              /\ [name |-> "agent", port |-> port] \in Listener
                              /\ [name |-> "_services", port |-> port] \in Listener
                              /\ [name |-> "prometheus", port |-> port] \in Listener
        BY DEF Listener
    <2>4. CASE l \in config.incoming
        BY <2>2, <2>4
    <2>5. CASE l \notin config.incoming
        <3>1. \E port \in Port : \E name \in {"control", "agent", "_services", "prometheus"} :
                l = [name |-> name, port |-> port]
            BY <2>1, <2>2, <2>5 DEF Listeners
        <3> QED
            BY <2>3, <3>1
    <2> QED
        BY <2>4, <2>5
<1>1. TypeOK'
    BY <1>0 DEF IInv, TypeOK, fileVars, tokenVars, requestVars
<1>2. ProcInv'
    BY DEF IInv, ProcInv, Listens
<1>3. KeptInv'
    BY KeptUnchanged DEF IInv, fileVars, tokenVars
<1>4. RequestInv'
    BY RequestsUnchanged DEF IInv
<1> QED
    BY <1>1, <1>2, <1>3, <1>4 DEF IInv

-----------------------------------------------------------------------------
(* Tokens. *)

\* A process that has its registries signs with the keys it has loaded.
LEMMA RegistryType ==
    ASSUME IInv, proc \in Registered, NEW i \in Issuer
    PROVE  /\ registry[i] \in Registry /\ registry[i].issuer = i
           /\ registry[i].keys =
                IF i = "opsmx-agent-auth" THEN agentKeyset ELSE serviceKeyset
<1>1. /\ proc \in HasConfig
      /\ serviceKeyset \in Keyset /\ agentKeyset \in Keyset
    BY DEF IInv, TypeOK, HasConfig, HasServiceKeys, HasAgentKeys
<1>2. \A key \in {config.serviceKey, config.agentKey, config.mutationKey} :
        key \in KeyName \cup {Unset}
    BY <1>1 DEF IInv, ProcInv, ControllerConfig, ConfigOf
<1> QED
    BY <1>1, <1>2 DEF IInv, ProcInv, Register, Registry, Issuer

LEMMA KeepKept ==
    ASSUME IInv, proc \in Registered, NEW i \in Issuer, CanSign(registry[i]), NEW claims,
           Keep(Sign(registry[i], claims)),
           UNCHANGED <<serviceFiles, agentFiles, proc, serviceKeyset, agentKeyset>>
    PROVE  /\ KeptInv'
           /\ \A t \in kept' : t.issuer \in Issuer /\ t.id \in KeyName /\ t.secret \in Secret
<1> DEFINE t == Sign(registry[i], claims)
<1>1. /\ registry[i] \in Registry /\ registry[i].issuer = i
      /\ registry[i].keys = IF i = "opsmx-agent-auth" THEN agentKeyset ELSE serviceKeyset
    BY RegistryType
<1>2. /\ t.issuer = i /\ t.id \in KeyName /\ t.secret \in Secret
      /\ t.secret = registry[i].keys[t.id]
    BY <1>1, SignType
<1>3. kept' \subseteq kept \cup {t} /\ (t \in kept' => t \in kept \/ FileOf(t) = t.secret)
    BY DEF Keep
<1> HIDE DEF t
<1>4. KeptInv'
    BY <1>1, <1>2, <1>3 DEF IInv, KeptInv, FileOf, HasServiceKeys, HasAgentKeys
<1> QED
    BY <1>2, <1>3, <1>4 DEF IInv, TypeOK

LEMMA IssueIInv ==
    ASSUME IInv, NEW issuer \in {"opsmx", "opsmx-agent-auth"}, NEW claims \in Claim,
           Issue(issuer, claims)
    PROVE  IInv'
<1> DEFINE t == Sign(registry[issuer], claims)
<1>0. proc \in Registered /\ issuer \in Issuer
    BY DEF IInv, ProcInv, Issue, Up, Registered, Issuer
<1>1. KeptInv' /\ \A k \in kept' : k.issuer \in Issuer /\ k.id \in KeyName /\ k.secret \in Secret
    BY <1>0, KeepKept DEF Issue, fileVars, procVars
<1>2. issued' \subseteq Token
    <2>1. registry[issuer] \in Registry
        BY <1>0, RegistryType
    <2>2. t \in Token
        BY <2>1, SignType DEF Issue, Token, Registry
    <2> QED
        BY <2>2 DEF Issue, IInv, TypeOK
<1>3. TypeOK'
    BY <1>1, <1>2 DEF IInv, TypeOK, Issue, fileVars, procVars, requestVars
<1>4. ProcInv'
    BY ProcUnchanged DEF IInv, Issue
<1>5. RequestInv'
    BY RequestsUnchanged DEF IInv, Issue
<1> QED
    BY <1>1, <1>3, <1>4, <1>5 DEF IInv

-----------------------------------------------------------------------------
(* Requests. *)

\* What goes into the tunnel: credentials are gone, and so is the token unless it
\* was not looked for; the user is a token, of the first name.
LEMMA SentHides ==
    ASSUME NEW x \in Exchange, NEW value, NEW reg \in Registry,
           reg.issuer = "opsmx-header-mutation",
           ~HTTPHeadersFail(reg, ExtractEndpoint(x, Carry(x, value)))
    PROVE  LET headers == HTTPHeadersToPB(reg, ExtractEndpoint(x, Carry(x, value)))
               user == x.base["X-Spinnaker-User"]
           IN  /\ DOMAIN headers = HeaderName
               /\ headers["Authorization"] = <<>>
               /\ ~ByCertificate(x) => headers["X-Opsmx-Token"] = <<>>
               /\ user # <<>> => \E v \in UserToken(user[1]) :
                                    headers["X-Spinnaker-User"] = <<v>>
<1> DEFINE left == ExtractEndpoint(x, Carry(x, value))
           headers == HTTPHeadersToPB(reg, left)
           user == x.base["X-Spinnaker-User"]
<1>1. /\ left["X-Spinnaker-User"] = user
      /\ ~ByCertificate(x) => left["X-Opsmx-Token"] = <<>>
    <2>1. /\ x.carrier \in {"token", "bearer", "basic", "certificate"}
          /\ DOMAIN x.base = HeaderName
        BY ExchangeAssumption
    <2>2. /\ DOMAIN Carry(x, value) = HeaderName
          /\ Carry(x, value)["X-Spinnaker-User"] = user
        BY <2>1 DEF Carry, HeaderName
    <2> QED
        BY <2>2 DEF ExtractEndpoint, DelToken, HeaderName
<1>2. reg # NotRegistered
    BY MutationAssumption
<1> HIDE DEF left
<1>3. Mutates(reg, left) = IF user = <<>> THEN {} ELSE {"X-Spinnaker-User"}
    BY <1>1, <1>2 DEF Mutates, MutatedHeaders
<1>4. /\ DOMAIN headers = HeaderName
      /\ headers["Authorization"] = <<>>
      /\ ~ByCertificate(x) => headers["X-Opsmx-Token"] = <<>>
    BY <1>1, <1>3 DEF HTTPHeadersToPB, StrippedOutgoingHeaders, HeaderName
<1>5. ASSUME user # <<>>
      PROVE  \E v \in UserToken(user[1]) : headers["X-Spinnaker-User"] = <<v>>
    <2>1. CanSign(reg)
        BY <1>3, <1>5 DEF HTTPHeadersFail, left
    <2>2. headers["X-Spinnaker-User"] = <<Signed(Sign(reg, user[1]))>>
        BY <1>1, <1>3, <1>5 DEF HTTPHeadersToPB, MutateHeader, HeaderName
    <2>3. Signed(Sign(reg, user[1])) \in UserToken(user[1])
        BY <2>1, SignType DEF UserToken
    <2> QED
        BY <2>2, <2>3
<1> QED
    BY <1>4, <1>5 DEF left

LEMMA RunAPIHandlerIInv ==
    ASSUME IInv, NEW r \in Request, NEW x \in Exchange, NEW value, RunAPIHandler(r, x, value)
    PROVE  IInv'
<1> DEFINE sent == Carry(x, value)
           left == ExtractEndpoint(x, sent)
<1>0. /\ proc \in Registered
      /\ Mutation \in Registry /\ Mutation.issuer = "opsmx-header-mutation"
    <2>1. proc \in Registered
        BY DEF RunAPIHandler, Up, IInv, ProcInv, Registered
    <2> QED
        BY <2>1, RegistryType DEF Mutation, Issuer
<1>1. ProcInv'
    BY ProcUnchanged DEF IInv, RunAPIHandler
<1>2. UNCHANGED <<serviceFiles, agentFiles, proc, serviceKeyset, agentKeyset>>
    BY DEF RunAPIHandler, fileVars, procVars
<1>3. KeptInv' /\ \A t \in kept' : t.issuer \in Issuer /\ t.id \in KeyName /\ t.secret \in Secret
    <2>1. CASE UNCHANGED kept
        BY <1>2, <2>1, KeptUnchanged DEF IInv, TypeOK
    <2>2. CASE /\ ~HTTPHeadersFail(Mutation, left) /\ Mutates(Mutation, left) # {}
               /\ Keep(Sign(Mutation, left["X-Spinnaker-User"][1]))
        <3>1. CanSign(Mutation)
            BY <2>2 DEF HTTPHeadersFail
        <3> QED
            BY <1>0, <1>2, <2>2, <3>1, KeepKept DEF Mutation, Issuer
    <2> QED
        BY <2>1, <2>2 DEF RunAPIHandler, Answered
<1>4. /\ exchange' = [exchange EXCEPT ![r] = x]
      /\ \/ /\ \E how \in {"refused", "failed"} : http' = [http EXCEPT ![r] = how]
            /\ UNCHANGED <<pb, seen, reply>>
         \/ /\ http' = [http EXCEPT ![r] = "sent"]
            /\ ~HTTPHeadersFail(Mutation, left)
            /\ pb' = [pb EXCEPT ![r] = HTTPHeadersToPB(Mutation, left)]
            /\ UNCHANGED <<seen, reply>>
    BY DEF RunAPIHandler, Answered
<1>5. DOMAIN HTTPHeadersToPB(Mutation, left) = HeaderName
    BY DEF HTTPHeadersToPB
<1>6. TypeOK'
    <2>1. /\ http' \in [Request -> {"idle", "refused", "failed", "sent", "performed",
                                    "answered", "lost"}]
          /\ exchange' \in [Request -> Exchange \cup {NoExchange}]
        BY <1>4 DEF IInv, TypeOK
    <2>2. \A carried \in {pb, seen, reply}' :
            /\ DOMAIN carried = Request
            /\ \A q \in Request : carried[q] = NoHeaders \/ DOMAIN carried[q] = HeaderName
        BY <1>4, <1>5 DEF IInv, TypeOK
    <2> QED
        BY <1>3, <2>1, <2>2 DEF IInv, TypeOK, RunAPIHandler, fileVars, procVars
<1>7. RequestInv'
    <2>0. /\ DOMAIN pb = Request /\ http \in [Request -> {"idle", "refused", "failed", "sent",
                                        "performed", "answered", "lost"}]
          /\ exchange \in [Request -> Exchange \cup {NoExchange}]
          /\ http[r] = "idle" /\ seen[r] = NoHeaders /\ reply[r] = NoHeaders
        BY DEF IInv, TypeOK, RequestInv, RunAPIHandler
    <2>1. http'[r] \in {"refused", "failed", "sent"} /\ exchange'[r] = x /\ seen' = seen /\ reply' = reply
        BY <1>4, <2>0
    <2>2. http'[r] = "sent" =>
            /\ DOMAIN pb'[r] = HeaderName
            /\ pb'[r]["Authorization"] = <<>>
            /\ HidesToken(r, pb[r])' /\ HidesUser(r, pb[r])'
        <3> SUFFICES ASSUME http'[r] = "sent"
                     PROVE  /\ DOMAIN pb'[r] = HeaderName
                            /\ pb'[r]["Authorization"] = <<>>
                            /\ HidesToken(r, pb[r])' /\ HidesUser(r, pb[r])'
            OBVIOUS
        <3>1. ~HTTPHeadersFail(Mutation, left) /\ pb'[r] = HTTPHeadersToPB(Mutation, left)
            BY <1>4, <2>0
        <3> QED
            BY <1>0, <2>1, <3>1, SentHides DEF HidesToken, HidesUser, User
    <2>3. ASSUME NEW q \in Request, q # r
          PROVE  /\ http'[q] = http[q] /\ exchange'[q] = exchange[q] /\ pb'[q] = pb[q]
        BY <1>4, <2>0, <2>3
    <2> QED
        BY <2>0, <2>1, <2>2, <2>3 DEF IInv, RequestInv, HidesToken, HidesUser, User
<1> QED
    BY <1>1, <1>3, <1>6, <1>7 DEF IInv

\* The agent adds its credentials and its name, and touches no other header.
LEMMA ExecuteHTTPRequestIInv ==
    ASSUME IInv, NEW r \in Request, ExecuteHTTPRequest(r)
    PROVE  IInv'
<1> DEFINE e == exchange[r].endpoint
           named == SetAgentName(pb[r], exchange[r].agent)
<1>0. /\ DOMAIN pb[r] = HeaderName /\ pb[r]["Authorization"] = <<>>
      /\ HidesToken(r, pb[r]) /\ HidesUser(r, pb[r])
      /\ exchange[r] \in Exchange /\ http[r] = "sent"
    BY DEF IInv, RequestInv, ExecuteHTTPRequest
<1>1. PBHEadersToHTTP(AgentRegistry, pb[r]) = [n \in HeaderName |-> pb[r][n]]
    BY DEF PBHEadersToHTTP, Mutates, AgentRegistry
<1>2. /\ DOMAIN seen = Request /\ DOMAIN http = Request
      /\ http' = [http EXCEPT ![r] = "performed"]
      /\ UNCHANGED <<fileVars, procVars, tokenVars, exchange, pb, reply>>
    BY DEF IInv, TypeOK, ExecuteHTTPRequest
<1>3. /\ DOMAIN seen'[r] = HeaderName
      /\ seen'[r]["Authorization"] = SetCredentials(NoneSet, e)["Authorization"]
      /\ seen'[r]["X-Opsmx-Token"] = pb[r]["X-Opsmx-Token"]
      /\ seen'[r]["X-Spinnaker-User"] = pb[r]["X-Spinnaker-User"]
    <2> DEFINE got == [n \in HeaderName |-> pb[r][n]]
               with == SetAgentName(got, exchange[r].agent)
    <2>1. /\ DOMAIN with = HeaderName /\ with["Authorization"] = <<>>
          /\ with["X-Opsmx-Token"] = pb[r]["X-Opsmx-Token"]
          /\ with["X-Spinnaker-User"] = pb[r]["X-Spinnaker-User"]
        BY <1>0 DEF SetAgentName, HeaderName
    <2>2. seen'[r] = SetCredentials(with, e)
        BY <1>1, <1>2 DEF ExecuteHTTPRequest
    <2> HIDE DEF with, e
    <2> QED
        BY <2>1, <2>2 DEF SetCredentials, NoneSet, HeaderName
<1>4. \A q \in Request : q # r => seen'[q] = seen[q] /\ http'[q] = http[q]
    BY <1>2 DEF ExecuteHTTPRequest
<1>5. TypeOK'
    <2>1. http' \in [Request -> {"idle", "refused", "failed", "sent", "performed",
                                "answered", "lost"}]
        BY <1>2 DEF IInv, TypeOK
    <2>2. DOMAIN seen' = Request
        BY <1>2 DEF ExecuteHTTPRequest
    <2> QED
        BY <1>2, <1>3, <1>4, <2>1, <2>2 DEF IInv, TypeOK, fileVars, procVars, tokenVars
<1>6. ProcInv'
    BY <1>2, ProcUnchanged DEF IInv
<1>7. KeptInv'
    BY <1>2, KeptUnchanged DEF IInv, fileVars, procVars, tokenVars
<1>8. RequestInv'
    <2>1. HidesToken(r, seen[r])' /\ HidesUser(r, seen[r])'
        BY <1>0, <1>2, <1>3 DEF HidesToken, HidesUser, User
    <2>2. http'[r] = "performed"
        BY <1>2
    <2> QED
        BY <1>0, <1>2, <1>3, <1>4, <2>1, <2>2 DEF IInv, RequestInv, HidesToken, HidesUser, User
<1> QED
    BY <1>5, <1>6, <1>7, <1>8 DEF IInv

LEMMA RequestFailsIInv ==
    ASSUME IInv, NEW r \in Request, RequestFails(r)
    PROVE  IInv'
<1>1. /\ http' = [http EXCEPT ![r] = "failed"]
      /\ UNCHANGED <<fileVars, procVars, tokenVars, exchange, pb, seen, reply>>
    BY DEF RequestFails
<1>2. TypeOK'
    BY <1>1 DEF IInv, TypeOK, fileVars, procVars, tokenVars
<1>3. ProcInv'
    BY <1>1, ProcUnchanged DEF IInv
<1>4. KeptInv'
    BY <1>1, KeptUnchanged DEF IInv, fileVars, procVars, tokenVars
<1>5. RequestInv'
    <2> SUFFICES ASSUME NEW q \in Request
                 PROVE  /\ http'[q] = "idle" => http[q] = "idle"
                        /\ http'[q] = "sent" => http[q] = "sent"
                        /\ http'[q] = "performed" => http[q] = "performed"
        BY <1>1 DEF IInv, RequestInv, HidesUser, HidesToken, User
    <2> QED
        BY <1>1 DEF IInv, TypeOK
<1> QED
    BY <1>2, <1>3, <1>4, <1>5 DEF IInv

LEMMA MakeResponseIInv ==
    ASSUME IInv, NEW r \in Request, MakeResponse(r)
    PROVE  IInv'
<1>1. /\ DOMAIN reply = Request /\ DOMAIN http = Request
      /\ http' = [http EXCEPT ![r] = "answered"]
      /\ UNCHANGED <<fileVars, procVars, tokenVars, exchange, pb, seen>>
    BY DEF IInv, TypeOK, MakeResponse
<1>2. DOMAIN reply'[r] = HeaderName /\ reply'[r]["Authorization"] = <<>>
    BY <1>1 DEF MakeResponse, HTTPHeadersToPB, Mutates, AgentRegistry, HeaderName,
                StrippedOutgoingHeaders
<1>3. \A q \in Request : q # r => reply'[q] = reply[q] /\ http'[q] = http[q]
    BY <1>1 DEF MakeResponse
<1>4. TypeOK'
    <2>1. http' \in [Request -> {"idle", "refused", "failed", "sent", "performed",
                                "answered", "lost"}]
        BY <1>1 DEF IInv, TypeOK
    <2>2. DOMAIN reply' = Request
        BY <1>1 DEF MakeResponse
    <2> QED
        BY <1>1, <1>2, <1>3, <2>1, <2>2 DEF IInv, TypeOK, fileVars, procVars, tokenVars
<1>5. ProcInv'
    BY <1>1, ProcUnchanged DEF IInv
<1>6. KeptInv'
    BY <1>1, KeptUnchanged DEF IInv, fileVars, procVars, tokenVars
<1>7. RequestInv'
    <2>1. http'[r] = "answered"
        BY <1>1
    <2> QED
        BY <1>1, <1>2, <1>3, <2>1 DEF IInv, RequestInv, HidesToken, HidesUser, User
<1> QED
    BY <1>4, <1>5, <1>6, <1>7 DEF IInv

-----------------------------------------------------------------------------

LEMMA NextIInv == IInv /\ [Next]_vars => IInv'
<1> SUFFICES ASSUME IInv, [Next]_vars PROVE IInv'
    OBVIOUS
<1>1. CASE OperatorStep
    BY <1>1, EditIInv, EditKeyIInv DEF OperatorStep
<1>2. CASE MainStep
    BY <1>2, StartUpIInv, ParseConfigIInv, LoadServiceAuthKeysetIInv, LoadAgentAuthKeysetIInv,
       RegisterKeysetsIInv, LoadAuthorityIInv, MakeSampleJWTIInv DEF MainStep
<1>3. CASE ListenerStep
    BY <1>3, ListensIInv DEF ListenerStep
<1>4. CASE Stops
    BY <1>4, ExitsIInv DEF Stops
<1>5. CASE \E issuer \in {"opsmx", "opsmx-agent-auth"}, claims \in Claim : Issue(issuer, claims)
    BY <1>5, IssueIInv
<1>6. CASE \E r \in Request : RequestStep(r)
    BY <1>6, RunAPIHandlerIInv, ExecuteHTTPRequestIInv, RequestFailsIInv, MakeResponseIInv
       DEF RequestStep
<1>7. CASE UNCHANGED vars
    <2>1. TypeOK'
        BY <1>7 DEF IInv, TypeOK, vars, fileVars, procVars, tokenVars, requestVars
    <2> QED
        BY <1>7, <2>1, ProcUnchanged, KeptUnchanged, RequestsUnchanged
           DEF IInv, vars, fileVars, procVars, tokenVars
<1> QED
    BY <1>1, <1>2, <1>3, <1>4, <1>5, <1>6, <1>7 DEF Next

\* The invariant the theorems below rest on.
THEOREM Invariance == Spec => []IInv
BY InitIInv, NextIInv, PTL DEF Spec

\* Configurations, keys, registries, tokens and headers are what they ought to be
\* at every point of start-up, and of any number of restarts.
THEOREM TypeCorrect == Spec => []TypeOK
<1>1. IInv => TypeOK
    BY DEF IInv
<1> QED
    BY Invariance, <1>1, PTL

\* A token verifies as long as its key file is there, for any keys, configurations
\* and order of edits and restarts.
LEMMA KeptVerify == IInv => KeptTokensVerify
<1> SUFFICES ASSUME IInv, proc \in Registered, NEW t \in kept
             PROVE  Validates(registry[t.issuer], t)
    BY DEF KeptTokensVerify
<1>1. t.issuer \in Issuer
    BY DEF IInv, TypeOK
<1>2. /\ registry[t.issuer].issuer = t.issuer
      /\ registry[t.issuer].keys =
            IF t.issuer = "opsmx-agent-auth" THEN agentKeyset ELSE serviceKeyset
    BY <1>1, RegistryType
<1>3. IF t.issuer = "opsmx-agent-auth"
      THEN agentKeyset[t.id] = t.secret ELSE serviceKeyset[t.id] = t.secret
    BY DEF IInv, KeptInv, HasServiceKeys, HasAgentKeys
<1> QED
    BY <1>2, <1>3 DEF Validates

THEOREM KeptTokensVerifyAlways == Spec => []KeptTokensVerify
BY Invariance, KeptVerify, PTL

\* A controller that has got to its listeners can sign, whatever was edited while
\* it was starting.
THEOREM ServingCanSignAlways == Spec => []ServingCanSign
<1>1. IInv => ServingCanSign
    BY DEF IInv, ProcInv, ServingCanSign, CanSign, Register, HasServiceKeys, HasAgentKeys,
           Registered
<1> QED
    BY Invariance, <1>1, PTL

\* Whatever user names a request comes with, a service sees one token of the controller
\* that forwarded it, and any later controller validates it while the key is there.
THEOREM UserSeenAsTokenAlways == Spec => []UserSeenAsToken
<1>1. ASSUME IInv, NEW r \in Request, seen[r] # NoHeaders, User(r) # <<>>
      PROVE  \E id \in KeyName, secret \in Secret :
                LET t == [issuer |-> "opsmx-header-mutation", id |-> id, secret |-> secret,
                          claims |-> User(r)[1]]
                IN  /\ seen[r]["X-Spinnaker-User"] = <<Signed(t)>>
                    /\ proc \in Registered /\ t \in kept => Validates(Mutation, t)
    <2>1. PICK u \in [issuer : {"opsmx-header-mutation"}, id : KeyName, secret : Secret,
                      claims : {User(r)[1]}] :
                seen[r]["X-Spinnaker-User"] = <<Signed(u)>>
        BY <1>1 DEF IInv, RequestInv, HidesUser, UserToken
    <2>2. /\ u.id \in KeyName /\ u.secret \in Secret /\ u.issuer = "opsmx-header-mutation"
          /\ u = [issuer |-> "opsmx-header-mutation", id |-> u.id, secret |-> u.secret,
                  claims |-> User(r)[1]]
        OBVIOUS
    <2>3. ASSUME proc \in Registered, u \in kept PROVE Validates(Mutation, u)
        BY <1>1, <2>2, <2>3, KeptVerify DEF KeptTokensVerify, Mutation
    <2> QED
        BY <2>1, <2>2, <2>3
<1>2. IInv => UserSeenAsToken
    BY <1>1 DEF UserSeenAsToken
<1> QED
    BY Invariance, <1>2, PTL

\* No credentials cross the tunnel, however a request carries its own, whatever
\* the endpoint has been given and whatever the service answers.
THEOREM CredentialsStayApartAlways == Spec => []CredentialsStayApart
<1>1. IInv => CredentialsStayApart
    BY DEF IInv, RequestInv, CredentialsStayApart, HidesToken
<1> QED
    BY Invariance, <1>1, PTL

-----------------------------------------------------------------------------
(* The safety half of AdvertisedIsServed. *)

\* Listeners have ports of their own, which are in the configuration.
PortsApart ==
    /\ listening # {} => listening \subseteq Listeners(config)
    /\ \A l, m \in listening : l.port = m.port => l = m

\* The certificate names the hosts that the controller hands out.
NamesAdvertised == proc \in {"sample", "up"} => AdvertisedHosts(config) \subseteq certNames

HostsInv ==
    /\ proc \in HasConfig => AdvertisedHosts(config) \subseteq config.serverNames
    /\ NamesAdvertised

\* No two listeners of a controller ever share a port, and its certificate names
\* every host it advertises: what AdvertisedIsServed says of the moment it is up
\* holds of every moment before, but for the ports still to come.
THEOREM AdvertisedConsistently == Spec => [](PortsApart /\ NamesAdvertised)
<1> DEFINE Inv == PortsApart /\ HostsInv
<1>1. Init => Inv
    BY DEF Init, PortsApart, HostsInv, NamesAdvertised, HasConfig, HasServiceKeys, HasAgentKeys,
           Registered
<1>2. ASSUME IInv, Inv, [Next]_vars
      PROVE  Inv'
    <2>1. CASE Exits
        BY <2>1 DEF Exits, PortsApart, HostsInv, NamesAdvertised, HasConfig, HasServiceKeys,
                    HasAgentKeys, Registered
    <2>2. CASE UNCHANGED <<config, certNames, listening>> /\ UNCHANGED proc
        BY <1>2, <2>2 DEF PortsApart, HostsInv, NamesAdvertised
    <2>3. ASSUME NEW l, Listens(l), ~Exits
          PROVE  Inv'
        <3>1. /\ l \in Listeners(config) \ listening
              /\ \A m \in listening : m.port # l.port
              /\ listening' = listening \cup {l}
              /\ UNCHANGED <<proc, config, certNames>>
            BY <2>3 DEF Listens
        <3> QED
            BY <1>2, <3>1 DEF PortsApart, HostsInv, NamesAdvertised
    <2>4. CASE MainStep /\ ~Exits
        <3>1. CASE ParseConfig
            <4>1. /\ proc = "config" /\ proc' = "serviceKeys"
                  /\ config' = LoadConfig(configFile) /\ UNCHANGED listening
                BY <2>4, <3>1 DEF ParseConfig, Goes
            <4>2. listening = {}
                BY <1>2, <4>1 DEF IInv, ProcInv
            <4>3. AdvertisedHosts(LoadConfig(configFile)) \subseteq
                        LoadConfig(configFile).serverNames
                <5>1. configFile \in ConfigOf(Host \cup {Unset}, Port \cup {0})
                    BY <1>2, ConfigAssumption DEF IInv, TypeOK
                <5>2. LET c == LoadConfig(configFile)
                      IN  /\ c.agentHost = configFile.agentHost
                          /\ c.serviceHost = configFile.serviceHost
                          /\ c.controlHost = configFile.controlHost
                          /\ c.serverNames = AddAllHostnames(configFile)
                    BY <5>1 DEF ConfigOf, LoadConfig
                <5> QED
                    BY <5>2 DEF AdvertisedHosts, AddAllHostnames
            <4> QED
                BY <4>1, <4>2, <4>3 DEF PortsApart, HostsInv, NamesAdvertised
        <3>2. CASE LoadAuthority
            BY <1>2, <2>4, <3>2 DEF LoadAuthority, Goes, PortsApart, HostsInv, NamesAdvertised,
                HasConfig, HasServiceKeys, HasAgentKeys, Registered
        <3>3. CASE MakeSampleJWT
            BY <1>2, <2>4, <3>3 DEF MakeSampleJWT, PortsApart, HostsInv, NamesAdvertised,
                HasConfig, HasServiceKeys, HasAgentKeys, Registered
        <3>4. CASE StartUp
            BY <1>2, <3>4 DEF StartUp, Goes, PortsApart, HostsInv, NamesAdvertised,
                HasConfig, HasServiceKeys, HasAgentKeys, Registered
        <3>5. CASE LoadServiceAuthKeyset
            BY <1>2, <2>4, <3>5 DEF LoadServiceAuthKeyset, Goes, PortsApart, HostsInv,
                NamesAdvertised, HasConfig, HasServiceKeys, HasAgentKeys, Registered
        <3>6. CASE LoadAgentAuthKeyset
            BY <1>2, <2>4, <3>6 DEF LoadAgentAuthKeyset, Goes, PortsApart, HostsInv,
                NamesAdvertised, HasConfig, HasServiceKeys, HasAgentKeys, Registered
        <3>7. CASE RegisterKeysets
            BY <1>2, <3>7 DEF RegisterKeysets, Goes, PortsApart, HostsInv, NamesAdvertised,
                HasConfig, HasServiceKeys, HasAgentKeys, Registered
        <3> QED
            BY <2>4, <3>1, <3>2, <3>3, <3>4, <3>5, <3>6, <3>7 DEF MainStep
    <2>5. CASE \/ OperatorStep
               \/ \E issuer \in {"opsmx", "opsmx-agent-auth"}, claims \in Claim :
                        Issue(issuer, claims)
               \/ \E r \in Request : RequestStep(r)
               \/ UNCHANGED vars
        <3>1. UNCHANGED procVars
            BY <2>5 DEF OperatorStep, EditConfig, ReplaceCA, EditKey, Issue, RequestStep,
                        RunAPIHandler, ExecuteHTTPRequest, RequestFails, MakeResponse, vars
        <3> QED
            BY <2>2, <3>1 DEF procVars
    <2> QED
        BY <1>2, <2>1, <2>3, <2>4, <2>5 DEF Next, ListenerStep, Stops
<1>3. Inv => PortsApart /\ NamesAdvertised
    BY DEF HostsInv
<1> HIDE DEF Inv
<1> QED
    BY <1>1, <1>2, <1>3, Invariance, PTL DEF Spec
=============================================================================
