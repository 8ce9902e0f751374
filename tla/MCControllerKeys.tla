--------------------------- MODULE MCControllerKeys ---------------------------
(* A small instance of ControllerKeys: two key names, of which either can sign *)
(* and either can mutate, configurations before and after a rotation, one      *)
(* whose ports collide, one that mutates with a key that may be missing, and   *)
(* one that lacks a host name.  A request carries its token in our header and  *)
(* has Basic credentials and two user names besides, or it carries it as       *)
(* Bearer, or it has a certificate, a token header and, as its user, the token *)
(* that an earlier request was given.                                          *)
EXTENDS ControllerKeys, TLC

CONSTANTS h1, h2, k1, k2, c1, r1, alice, bob, other, agent

Before ==
    [serverNames |-> {}, incoming |-> {},
     agentHost |-> h1, serviceHost |-> h2, controlHost |-> h1,
     agentPort |-> 0, advertisePort |-> 0, servicePort |-> 0,
     controlPort |-> 0, prometheusPort |-> 0,
     serviceKey |-> k1, mutationKey |-> k1, agentKey |-> k1]

Configs4 ==
    {Before,
     [Before EXCEPT !.serviceKey = k2, !.mutationKey = k2,
                    !.incoming = {[name |-> "web", port |-> 9003]}],
     [Before EXCEPT !.mutationKey = k2, !.advertisePort = 443],
     [Before EXCEPT !.controlHost = Unset]}

OneKey == [NoKeyset EXCEPT ![k1] = c1]

\* The agents' second key is not there yet, and that of the services may be.
Deployment6 ==
    [config : {c \in Configs4 : Loads(c)},
     service : {OneKey, [k \in KeyName |-> c1]}, agent : {OneKey}]

Answer == [NoneSet EXCEPT !["Authorization"] = <<Plain(other)>>,
                          !["X-Spinnaker-User"] = <<Plain(bob)>>]

\* A service sends back, as its own user, what it has seen of an earlier request.
SentBack == MutateHeader(RegisterMutationKeyset(OneKey, k1), Plain(alice))

Exchange3 ==
    {[base |-> [NoneSet EXCEPT !["X-Spinnaker-User"] = <<Plain(alice), Plain(bob)>>,
                               !["Authorization"] = <<Credentials("Basic", Plain(other))>>],
      carrier |-> "token", agent |-> agent, reply |-> NoneSet,
      endpoint |-> [type |-> "none", secret |-> other]],
     [base |-> [NoneSet EXCEPT !["Accept"] = <<Plain(other)>>],
      carrier |-> "bearer", agent |-> agent, reply |-> Answer,
      endpoint |-> [type |-> "token", secret |-> other]],
     [base |-> [NoneSet EXCEPT !["X-Opsmx-Token"] = <<Plain(other)>>,
                               !["X-Spinnaker-User"] = <<SentBack>>],
      carrier |-> "certificate", agent |-> agent, reply |-> NoneSet,
      endpoint |-> [type |-> "basic", secret |-> other]]}

Claim1 == {Plain(agent)}
=============================================================================
