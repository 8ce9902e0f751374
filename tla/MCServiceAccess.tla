--------------------------- MODULE MCServiceAccess ---------------------------
(* A small instance of ServiceAccess: two agents, p1 and p2, that share names *)
(* and types of services.  p1 has a service of each kind that matters: one    *)
(* with inline credentials, one with a Kubernetes secret, one under two       *)
(* namespaces, one that is disabled.  p2 configures one service twice, first  *)
(* without its token.  p3 has a service whose configuration cannot be         *)
(* decoded.                                                                   *)
EXTENDS ServiceAccess, TLC

CONSTANTS a1, a2, p1, p2, p3, r1, r2, web, kubernetes, upper, n1, n2

AgentOf2 == (p1 :> a1) @@ (p2 :> a2) @@ (p3 :> a2)

Plain == [type |-> "none", fields |-> {}, secretName |-> FALSE, stored |-> {}]
Inline == [type |-> "basic", fields |-> {"username", "password"},
           secretName |-> FALSE, stored |-> {}]
NoToken == [type |-> "bearer", fields |-> {}, secretName |-> FALSE, stored |-> {}]
Secret == [type |-> "token", fields |-> {}, secretName |-> TRUE, stored |-> {"token"}]

Config(type, name, credentials) ==
    [enabled |-> TRUE, type |-> type, name |-> name, namespaces |-> <<>>,
     decodes |-> TRUE, url |-> TRUE, credentials |-> credentials]

Services2 ==
    (p1 :> << Config(web, n1, Inline),
              Config(web, n2, Secret),
              [Config(kubernetes, n1, Plain) EXCEPT !.namespaces = <<n1, n2>>],
              [Config(upper, n1, Plain) EXCEPT !.enabled = FALSE] >>)
    @@ (p2 :> << Config(web, n1, NoToken),
                 Config(web, n1, Plain),
                 [Config(web, n2, Plain) EXCEPT !.url = FALSE] >>)
    @@ (p3 :> << Config(web, n2, Plain),
                 [Config(web, n1, Plain) EXCEPT !.decodes = FALSE] >>)

Listener2 == (r1 :> Secure) @@ (r2 :> [agent |-> a2, type |-> web, name |-> n1])
=============================================================================
