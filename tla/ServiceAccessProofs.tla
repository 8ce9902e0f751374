------------------------ MODULE ServiceAccessProofs ------------------------
(* Theorems about ServiceAccess, for any agents, configurations and numbers  *)
(* of requests.                                                              *)
EXTENDS ServiceAccess, TLAPS, WellFoundedInduction

(* The smallest of a set of natural numbers, which SelectInSeq chooses. *)
LEMMA SmallestExists ==
    ASSUME NEW S \in SUBSET Nat, S # {}
    PROVE  \E x \in S : \A y \in S : x <= y
<1>1. PICK x \in S : \A y \in S : ~(<<y, x>> \in OpToRel(<, Nat))
    BY NatLessThanWellFounded, WFMin
<1>2. \A y \in S : ~(y < x)
    BY <1>1 DEF OpToRel
<1> QED
    BY <1>2

(* findEndpoint finds an endpoint of the service it is asked for, if there is one. *)
LEMMA FindEndpointFinds ==
    ASSUME NEW T, NEW eps \in Seq(T), NEW target
    PROVE  LET i == FindEndpoint(eps, target)
           IN  /\ i # 0 => i \in DOMAIN eps /\ Matches(eps[i], target)
               /\ i = 0 => \A j \in DOMAIN eps : ~Matches(eps[j], target)
<1> DEFINE I == {i \in 1 .. Len(eps) : Matches(eps[i], target)}
<1>1. FindEndpoint(eps, target) = IF I # {} THEN Min(I) ELSE 0
    BY DEF FindEndpoint, SelectInSeq
<1>2. I # {} => Min(I) \in I
    <2> SUFFICES ASSUME I # {} PROVE Min(I) \in I
        OBVIOUS
    <2>1. I \in SUBSET Nat
        OBVIOUS
    <2> HIDE DEF I
    <2>2. \E x \in I : \A y \in I : x <= y
        BY <2>1, SmallestExists
    <2> QED
        BY <2>2 DEF Min
<1>3. DOMAIN eps = 1 .. Len(eps) /\ Len(eps) \in Nat
    OBVIOUS
<1> HIDE DEF I
<1>4. CASE I = {}
    BY <1>1, <1>3, <1>4 DEF I
<1>5. CASE I # {}
    <2>1. FindEndpoint(eps, target) \in I
        BY <1>1, <1>2, <1>5
    <2> QED
        BY <2>1, <1>3 DEF I
<1> QED
    BY <1>4, <1>5

-----------------------------------------------------------------------------
(* The inductive invariant. *)

\* Every credential is for a service it was asked for.
Credentials ==
    /\ tokens \subseteq asked
    /\ \A c \in certs : c.purpose = "service" => c.service \in asked

\* A request that has been identified searches a service, which has been asked for
\* if the listener takes credentials.
IdentifiedAs(r) ==
    http[r] \in {"identified", "sent", "performed"} =>
        search[r] \in Service /\ (Listener[r] = Secure => search[r] \in asked)

\* The session of p was registered, so its endpoints do not change any more.
Greeted(p) == proc[p] \notin {"config", "secrets", "hello"}

\* p has a configured endpoint of the service target.
Serves(p, target) ==
    /\ AgentOf[p] = target.agent
    /\ \E i \in DOMAIN endpoints[p] :
        endpoints[p][i].configured /\ Matches(endpoints[p][i], target)

\* A request that has been sent went to a process that serves it.
Routed(r) ==
    http[r] \in {"sent", "performed"} =>
        via[r] \in Process /\ Greeted(via[r]) /\ Serves(via[r], search[r])

\* The endpoint that performed a request is one of its service.
Performed(r) ==
    http[r] = "performed" =>
        /\ ep[r] \in DOMAIN endpoints[via[r]]
        /\ Matches(endpoints[via[r]][ep[r]], search[r])

IInv ==
    /\ TypeOK
    /\ Credentials
    /\ \A p \in table : Greeted(p)
    /\ \A r \in Request : IdentifiedAs(r) /\ Routed(r) /\ Performed(r)
    /\ SentIsServable

-----------------------------------------------------------------------------
(* Type correctness. *)

LEMMA InitType == Init => TypeOK
BY ListenerAssumption DEF Init, TypeOK, Certificate

(* A step of the control API keeps the types. *)
LEMMA ControlStepType ==
    ASSUME TypeOK, NEW c \in certs, ControlStep(c)
    PROVE  TypeOK'
<1> USE NameAssumption, TypeAssumption
<1>1. ASSUME NEW a \in Agent \cup {Absent}, NEW n \in Name \cup {Absent},
             GenerateKubectlComponents(c, a, n)
      PROVE  TypeOK'
    <2>1. [agent |-> a, type |-> Kubernetes, name |-> n] \in Service
        BY <1>1 DEF GenerateKubectlComponents, NamePresent, Service
    <2> QED
        BY <1>1, <2>1 DEF GenerateKubectlComponents, Asks, GenerateCertificate,
            ServiceCertificate, TypeOK, Certificate, procVars, requestVars
<1>2. ASSUME NEW a \in Agent \cup {Absent}, GenerateAgentManifestComponents(c, a)
      PROVE  TypeOK'
    BY <1>2 DEF GenerateAgentManifestComponents, MakeAgentJWT, NamePresent,
        TypeOK, procVars, requestVars
<1>3. ASSUME NEW a \in Agent \cup {Absent},
             NEW t \in Type \cup {Absent}, NEW oldType \in Type \cup {Absent},
             NEW n \in Name \cup {Absent}, NEW oldName \in Name \cup {Absent},
             GenerateServiceCredentials(c, a, t, oldType, n, oldName)
      PROVE  TypeOK'
    <2> DEFINE s == [agent |-> a, type |-> FirstPresent(t, oldType),
                     name |-> FirstPresent(n, oldName)]
    <2>1. Valid(s) /\ Asks(s) /\ MakeServiceJWT(s)
        BY <1>3 DEF GenerateServiceCredentials
    <2>2. s \in Service
        BY <2>1 DEF Valid, FirstPresent, NamePresent, Service
    <2> HIDE DEF s
    <2> QED
        BY <1>3, <2>1, <2>2 DEF GenerateServiceCredentials, Asks, MakeServiceJWT,
            TypeOK, procVars, requestVars
<1>4. ASSUME NEW n, GenerateControlCredentials(c, n)
      PROVE  TypeOK'
    BY <1>4 DEF GenerateControlCredentials, GenerateCertificate, TypeOK, Certificate,
        procVars, requestVars
<1> QED
    BY <1>1, <1>2, <1>3, <1>4 DEF ControlStep

(* A step of an agent process keeps the types. *)
LEMMA ProcessStepType ==
    ASSUME TypeOK, NEW p \in Process, ProcessStep(p)
    PROVE  TypeOK'
<1> USE DEF TypeOK, controlVars, requestVars
<1>1. CASE StartEndpoints(p)
    <2>1. ConfigureEndpoints(Services[p], loader[p]) \in Seq(Endpoint)
        BY ConfigurationAssumption
    <2> QED
        BY <1>1, <2>1 DEF StartEndpoints
<1>2. CASE MakeSecretsLoader(p)
    BY <1>2 DEF MakeSecretsLoader
<1>3. CASE SayHello(p)
    BY <1>3 DEF SayHello
<1>4. CASE HelloRefused(p)
    BY <1>4 DEF HelloRefused
<1>5. CASE ProcessExits(p)
    BY <1>5 DEF ProcessExits
<1>6. CASE RemoveSession(p)
    BY <1>6 DEF RemoveSession, procVars
<1>7. CASE ConfigurationFails(p)
    BY <1>7 DEF ConfigurationFails
<1> QED
    BY <1>1, <1>2, <1>3, <1>4, <1>5, <1>6, <1>7 DEF ProcessStep

(* A step of a request keeps the types. *)
LEMMA RequestStepType ==
    ASSUME TypeOK, NEW r \in Request, Routed(r), RequestStep(r)
    PROVE  TypeOK'
<1> USE DEF TypeOK, controlVars, procVars
<1>1. ASSUME NEW s \in Service \cup {NoService}, Identified(r, s)
      PROVE  TypeOK'
    BY <1>1 DEF Identified
<1>2. CASE FixedIdentity(r)
    BY <1>1, <1>2, ListenerAssumption DEF FixedIdentity
<1>3. ASSUME NEW c \in certs, ExtractEndpointFromCert(r, c)
      PROVE  TypeOK'
    BY <1>1, <1>3 DEF ExtractEndpointFromCert, Certificate
<1>4. ASSUME NEW c \in tokens, ExtractEndpointFromJWT(r, c)
      PROVE  TypeOK'
    BY <1>1, <1>4 DEF ExtractEndpointFromJWT
<1>5. CASE Refuse(r)
    BY <1>5 DEF Refuse
<1>6. CASE InvalidCredentials(r) \/ FindNone(r)
    BY <1>5, <1>6 DEF InvalidCredentials, FindNone
<1>7. ASSUME NEW p \in Process, Find(r, p)
      PROVE  TypeOK'
    BY <1>7 DEF Find
<1>8. CASE ExecuteHTTPRequest(r)
    <2> DEFINE i == FindEndpoint(endpoints[via[r]], search[r])
    <2>1. endpoints[via[r]] \in Seq(Endpoint)
        BY <1>8 DEF ExecuteHTTPRequest, Arrived, Routed
    <2>2. i \in Nat
        BY <2>1, FindEndpointFinds
    <2> HIDE DEF i
    <2> QED
        BY <1>8, <2>2 DEF ExecuteHTTPRequest, i
<1>9. CASE ExecutePanics(r)
    BY <1>9 DEF ExecutePanics, requestVars
<1> QED
    BY <1>2, <1>3, <1>4, <1>6, <1>7, <1>8, <1>9 DEF RequestStep

-----------------------------------------------------------------------------
(* The invariant is inductive. *)

LEMMA InitInvariant == Init => IInv
BY InitType DEF Init, IInv, Credentials, IdentifiedAs, Routed, Performed, SentIsServable

(* The parts that speak of requests and processes stay when nothing of theirs changes. *)
LEMMA ControlStepInvariant ==
    ASSUME IInv, NEW c \in certs, ControlStep(c)
    PROVE  IInv'
<1>1. TypeOK'
    BY ControlStepType DEF IInv
<1>2. UNCHANGED <<procVars, table, requestVars>>
    BY DEF ControlStep, GenerateKubectlComponents, GenerateAgentManifestComponents,
        GenerateServiceCredentials, GenerateControlCredentials
<1>3. asked \subseteq asked' /\ Credentials'
    <2> USE DEF IInv, Credentials
    <2>1. ASSUME NEW a, NEW n, GenerateKubectlComponents(c, a, n)
          PROVE  asked \subseteq asked' /\ Credentials'
        BY <2>1 DEF GenerateKubectlComponents, Asks, GenerateCertificate, ServiceCertificate
    <2>2. ASSUME NEW a, GenerateAgentManifestComponents(c, a)
          PROVE  asked \subseteq asked' /\ Credentials'
        BY <2>2 DEF GenerateAgentManifestComponents
    <2>3. ASSUME NEW a, NEW t, NEW oldType, NEW n, NEW oldName,
                 GenerateServiceCredentials(c, a, t, oldType, n, oldName)
          PROVE  asked \subseteq asked' /\ Credentials'
        BY <2>3 DEF GenerateServiceCredentials, Asks, MakeServiceJWT
    <2>4. ASSUME NEW n, GenerateControlCredentials(c, n)
          PROVE  asked \subseteq asked' /\ Credentials'
        BY <2>4 DEF GenerateControlCredentials, GenerateCertificate
    <2> QED
        BY <2>1, <2>2, <2>3, <2>4 DEF ControlStep
<1>4. \A p \in table' : Greeted(p)'
    BY <1>2 DEF IInv, Greeted, procVars
<1>5. \A r \in Request : IdentifiedAs(r)' /\ Routed(r)' /\ Performed(r)'
    BY <1>2, <1>3 DEF IInv, IdentifiedAs, Routed, Performed, Greeted, Serves,
        procVars, requestVars
<1>6. SentIsServable'
    BY <1>2 DEF IInv, SentIsServable, Distinct, procVars, requestVars
<1> QED
    BY <1>1, <1>3, <1>4, <1>5, <1>6 DEF IInv

LEMMA ProcessStepInvariant ==
    ASSUME IInv, NEW p \in Process, ProcessStep(p)
    PROVE  IInv'
<1>1. TypeOK /\ TypeOK'
    BY ProcessStepType DEF IInv
<1>2. UNCHANGED <<controlVars, requestVars>>
    BY DEF ProcessStep, StartEndpoints, ConfigurationFails, MakeSecretsLoader,
        SayHello, HelloRefused, ProcessExits, RemoveSession
<1>3. \A q \in Process : Greeted(q) => Greeted(q)' /\ endpoints'[q] = endpoints[q]
    BY <1>1 DEF ProcessStep, StartEndpoints, ConfigurationFails, MakeSecretsLoader,
        SayHello, HelloRefused, ProcessExits, RemoveSession, Greeted, TypeOK, procVars
<1>4. \A q \in table' : Greeted(q)'
    BY <1>1, <1>3 DEF IInv, ProcessStep, StartEndpoints, ConfigurationFails,
        MakeSecretsLoader, SayHello, HelloRefused, ProcessExits, RemoveSession, Greeted, TypeOK, procVars
<1>5. \A q \in Process : proc'[q] = "panicked" => proc[q] = "panicked"
    BY <1>1 DEF ProcessStep, StartEndpoints, ConfigurationFails, MakeSecretsLoader,
        SayHello, HelloRefused, ProcessExits, RemoveSession, TypeOK, procVars
<1>6. Credentials'
    BY <1>2 DEF IInv, Credentials, controlVars
<1>7. \A r \in Request : IdentifiedAs(r)' /\ Routed(r)' /\ Performed(r)'
    BY <1>2, <1>3 DEF IInv, IdentifiedAs, Routed, Performed, Serves, controlVars, requestVars
<1>8. SentIsServable'
    BY <1>2, <1>3, <1>5 DEF IInv, SentIsServable, Distinct, Greeted, requestVars
<1> QED
    BY <1>1, <1>4, <1>6, <1>7, <1>8 DEF IInv

LEMMA RequestStepInvariant ==
    ASSUME IInv, NEW r \in Request, RequestStep(r)
    PROVE  IInv'
<1>1. TypeOK /\ TypeOK' /\ Routed(r) /\ IdentifiedAs(r)
    BY RequestStepType DEF IInv
<1>2. \A q \in Request \ {r} : http'[q] = http[q] /\ search'[q] = search[q]
                              /\ via'[q] = via[q] /\ ep'[q] = ep[q]
    BY <1>1 DEF RequestStep, FixedIdentity, ExtractEndpointFromCert, ExtractEndpointFromJWT,
        Identified, InvalidCredentials, Refuse, Find, FindNone, ExecuteHTTPRequest,
        ExecutePanics, TypeOK, requestVars
<1>3. UNCHANGED <<controlVars, table, endpoints>>
    BY DEF RequestStep, FixedIdentity, ExtractEndpointFromCert, ExtractEndpointFromJWT,
        Identified, InvalidCredentials, Refuse, Find, FindNone, ExecuteHTTPRequest,
        ExecutePanics, procVars
<1>4. \A q \in Process : Greeted(q) => Greeted(q)'
    BY <1>1 DEF RequestStep, FixedIdentity, ExtractEndpointFromCert, ExtractEndpointFromJWT,
        Identified, InvalidCredentials, Refuse, Find, FindNone, ExecuteHTTPRequest,
        ExecutePanics, Greeted, TypeOK, procVars
<1>5. Credentials' /\ \A q \in table' : Greeted(q)'
    BY <1>1, <1>3, <1>4 DEF IInv, Credentials, controlVars, TypeOK
<1>6. \A q \in Request \ {r} : IdentifiedAs(q)' /\ Routed(q)' /\ Performed(q)'
    BY <1>2, <1>3, <1>4 DEF IInv, IdentifiedAs, Routed, Performed, Serves, controlVars
\* What remains is the request itself, and SentIsServable.
<1> DEFINE Kept == IdentifiedAs(r)' /\ Routed(r)' /\ Performed(r)' /\ SentIsServable'
<1>7. ASSUME NEW s \in Service, Identified(r, s), Listener[r] = Secure => s \in asked
      PROVE  Kept
    BY <1>1, <1>3, <1>7 DEF Identified, IdentifiedAs, Routed, Performed, IInv,
        SentIsServable, Distinct, TypeOK, controlVars, procVars
<1>8. ASSUME FixedIdentity(r)
      PROVE  Kept
    BY <1>7, <1>8, ListenerAssumption DEF FixedIdentity
<1>9. ASSUME NEW c \in certs, ExtractEndpointFromCert(r, c)
      PROVE  Kept
    BY <1>1, <1>7, <1>9 DEF ExtractEndpointFromCert, IInv, Credentials, TypeOK
<1>10. ASSUME NEW c \in tokens, ExtractEndpointFromJWT(r, c)
       PROVE  Kept
    BY <1>1, <1>7, <1>10 DEF ExtractEndpointFromJWT, IInv, Credentials, TypeOK
<1>11. ASSUME InvalidCredentials(r) \/ FindNone(r)
       PROVE  Kept
    BY <1>1, <1>11 DEF InvalidCredentials, FindNone, Refuse, IdentifiedAs, Routed, Performed,
        IInv, SentIsServable, Distinct, TypeOK, procVars
<1>12. ASSUME NEW p \in Process, Find(r, p)
       PROVE  Kept
    <2>1. Greeted(p) /\ Serves(p, search[r])
        BY <1>12 DEF Find, Offers, Serves, IInv
    <2>2. http'[r] = "sent" /\ via'[r] = p /\ search' = search
        BY <1>1, <1>12 DEF Find, TypeOK
    <2>3. IdentifiedAs(r)' /\ Performed(r)'
        BY <1>1, <1>3, <1>12, <2>2 DEF IdentifiedAs, Performed, Find, controlVars
    <2>4. Routed(r)'
        BY <1>3, <1>4, <2>1, <2>2 DEF Routed, Serves
    <2>5. SentIsServable'
        BY <1>1, <1>12 DEF Find, IInv, SentIsServable, Distinct, TypeOK, procVars
    <2> QED
        BY <2>3, <2>4, <2>5
<1> DEFINE eps == endpoints[via[r]]
           i == FindEndpoint(eps, search[r])
<1>13. ASSUME Arrived(r)
       PROVE  /\ via[r] \in Process
              /\ i # 0 /\ i \in DOMAIN eps /\ Matches(eps[i], search[r])
              /\ \E j \in DOMAIN eps : eps[j].configured /\ Matches(eps[j], search[r])
    <2>1. /\ via[r] \in Process /\ eps \in Seq(Endpoint)
          /\ \E j \in DOMAIN eps : eps[j].configured /\ Matches(eps[j], search[r])
        BY <1>1, <1>13 DEF Arrived, Routed, Serves, TypeOK
    <2> QED
        BY <2>1, FindEndpointFinds
<1>14. ASSUME ExecuteHTTPRequest(r)
       PROVE  Kept
    <2> HIDE DEF i
    <2>1. Arrived(r) /\ http[r] = "sent"
        BY <1>14 DEF ExecuteHTTPRequest, Arrived
    <2>2. http'[r] = "performed" /\ ep'[r] = i /\ UNCHANGED <<procVars, search, via>>
        BY <1>1, <1>13, <1>14, <2>1 DEF ExecuteHTTPRequest, TypeOK, i
    <2>3. IdentifiedAs(r)' /\ Routed(r)' /\ Performed(r)'
        BY <1>1, <1>3, <1>13, <2>1, <2>2 DEF IdentifiedAs, Routed, Performed, Greeted,
            Serves, controlVars, procVars
    <2>4. SentIsServable'
        BY <1>1, <1>2, <2>2 DEF IInv, SentIsServable, Distinct, TypeOK, procVars
    <2> QED
        BY <2>3, <2>4
<1>15. ASSUME ExecutePanics(r)
       PROVE  Kept
    <2> HIDE DEF i
    <2>1. Arrived(r) /\ ~eps[i].configured
        BY <1>15 DEF ExecutePanics, i
    <2>2. ~Distinct(via[r])
        BY <1>13, <2>1 DEF Distinct, Matches
    <2>3. UNCHANGED <<requestVars, asked>>
        BY <1>15 DEF ExecutePanics, controlVars
    <2>4. SentIsServable'
        BY <1>1, <1>3, <1>15, <2>2, <2>3 DEF ExecutePanics, IInv, SentIsServable,
            Distinct, TypeOK, requestVars
    <2>5. IdentifiedAs(r)' /\ Routed(r)' /\ Performed(r)'
        BY <1>1, <1>3, <1>4, <2>3 DEF IInv, IdentifiedAs, Routed, Performed, Serves, requestVars
    <2> QED
        BY <2>4, <2>5
<1>16. Kept
    <2> HIDE DEF Kept
    <2> QED
        BY <1>8, <1>9, <1>10, <1>11, <1>12, <1>14, <1>15 DEF RequestStep
<1> QED
    BY <1>1, <1>5, <1>6, <1>16 DEF IInv

LEMMA StepInvariant == IInv /\ [Next]_vars => IInv'
<1> SUFFICES ASSUME IInv, [Next]_vars PROVE IInv'
    OBVIOUS
<1>1. CASE Next
    BY <1>1, ControlStepInvariant, ProcessStepInvariant, RequestStepInvariant DEF Next
<1>2. CASE UNCHANGED vars
    BY <1>2 DEF vars, controlVars, procVars, requestVars, IInv, TypeOK, Credentials,
        Greeted, IdentifiedAs, Routed, Performed, Serves, SentIsServable, Distinct
<1> QED
    BY <1>1, <1>2

(* No sequence of control requests, start-ups, Hellos, deaths and requests leaves *)
(* the inductive invariant.                                                       *)
THEOREM Invariance == Spec => []IInv
BY InitInvariant, StepInvariant, PTL DEF Spec

(* The variables keep their types: in particular, what a request searches is a   *)
(* service whose agent, type and name have not changed places.                   *)
THEOREM TypeCorrect == Spec => []TypeOK
<1>1. IInv => TypeOK
    BY DEF IInv
<1> QED
    BY <1>1, Invariance, PTL

(* A request on the secured port is only ever performed by an endpoint of a      *)
(* service that credentials were asked for, on the agent they were asked for.    *)
THEOREM GrantsAreKept == Spec => []ServedAsGranted
<1>1. IInv => ServedAsGranted
    BY DEF IInv, ServedAsGranted, IdentifiedAs, Routed, Performed, Serves
<1> QED
    BY <1>1, Invariance, PTL

(* What find sends to an agent findEndpoint finds there, and meets an endpoint   *)
(* with no processor only if two endpoints of the agent are of one service.      *)
THEOREM SentRequestsAreServable == Spec => []SentIsServable
<1>1. IInv => SentIsServable
    BY DEF IInv
<1> QED
    BY <1>1, Invariance, PTL
=============================================================================
