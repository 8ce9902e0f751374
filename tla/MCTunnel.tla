------------------------------- MODULE MCTunnel -------------------------------
(* Small instances of Tunnel: a request for a service the agent has, and one *)
(* for a service it does not have.                                           *)
EXTENDS Tunnel

CONSTANTS r1, r2
=============================================================================
