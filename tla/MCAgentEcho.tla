----------------------------- MODULE MCAgentEcho -----------------------------
(* Small instances of AgentEcho: a request for a configured service and one  *)
(* for a service the agent does not have.                                    *)
EXTENDS AgentEcho

CONSTANTS r1, r2
=============================================================================
