------------------------------ MODULE Endpoints ------------------------------
(***************************************************************************)
(* The endpoints of an agent (internal/serviceconfig): how the agent makes *)
(* them from the outgoing services of its configuration, and how an        *)
(* endpoint is matched with a service.                                     *)
(*                                                                         *)
(* A service of the configuration is a record                              *)
(*   enabled, type, name, namespaces   as in the configuration             *)
(*   decodes       its configuration can be decoded                        *)
(*   url           a URL is given                                          *)
(*   credentials   a record: its type, the fields given in the             *)
(*                 configuration (in base64), whether a secretName is      *)
(*                 given, and the items stored in that secret, none of     *)
(*                 which is empty                                          *)
(* What a credential says is left out: only whether it can be loaded       *)
(* decides whether the endpoint is configured.                             *)
(***************************************************************************)
EXTENDS Sequences, SequencesExt

\* The items a credential of each type needs.
Needs == [basic |-> {"username", "password"}, bearer |-> {"token"}, token |-> {"token"}]

Complete(type, items) == type \in DOMAIN Needs /\ Needs[type] \subseteq items

LoadBase64Secrets(c) == c.type = "none" \/ Complete(c.type, c.fields)

\* loader: there is a secretsLoader.
LoadKubernetesSecrets(c, loader) == loader /\ Complete(c.type, c.stored)

LoadSecrets(c, loader) ==
    \/ ~c.secretName /\ LoadBase64Secrets(c)
    \/ c.secretName /\ LoadKubernetesSecrets(c, loader)

\* Whether an instance is made; an error leaves the endpoint without one.
MakeGenericEndpoint(s, loader) == s.url /\ LoadSecrets(s.credentials, loader)

\* One endpoint under the service's own name, or one for each namespace.
EndpointsOf(s, loader) ==
    LET names == IF s.namespaces = <<>> THEN <<s.name>> ELSE s.namespaces
    IN  [i \in DOMAIN names |->
            [type |-> s.type, name |-> names[i], configured |-> MakeGenericEndpoint(s, loader)]]

ConfigureEndpoints(services, loader) ==
    LET Enabled(s) == s.enabled
        enabled == SelectSeq(services, Enabled)
    IN  FlattenSeq([i \in DOMAIN enabled |-> EndpointsOf(enabled[i], loader)])

\* Otherwise MakeGenericEndpoint returns an error, which ends the agent.
CanConfigure(services) ==
    \A i \in DOMAIN services : services[i].enabled => services[i].decodes

\* The endpoint ep is that of the service target, as find and findEndpoint see it.
Matches(ep, target) == ep.name = target.name /\ ep.type = target.type

\* findEndpoint: the index of the first endpoint of the service, 0 if there is none.
FindEndpoint(eps, target) ==
    LET IsEndpoint(ep) == Matches(ep, target)
    IN  SelectInSeq(eps, IsEndpoint)
=============================================================================
