--------------------------- MODULE MCAgentSessions ---------------------------
(* Small instances of AgentSessions.  The times keep the order of the code's *)
(* own (10, 20, 60 s) and meet TimeoutAssumption with equality, so that a    *)
(* timeout one unit shorter would not do.                                    *)
EXTENDS AgentSessions

CONSTANT s1
=============================================================================
