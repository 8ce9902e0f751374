-------------------------- MODULE MCTunnelController --------------------------
(* Small instances of TunnelController. *)
EXTENDS TunnelController

CONSTANTS s1, s2, r1, r2

\* Every session can serve every request.
OneSession == [r \in Request |-> Session]
=============================================================================
