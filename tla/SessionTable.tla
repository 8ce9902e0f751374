----------------------------- MODULE SessionTable -----------------------------
(***************************************************************************)
(* What the controller's table of sessions (AgentSessions,                 *)
(* app/server/sessions.go) promises to the agents in it: the session of an *)
(* agent is entered once, is taken out only after the agent is gone, and   *)
(* does not come back.  Several sessions may leave at once.                *)
(*                                                                         *)
(* AgentSessions implements this with its clock, pings and reaper.         *)
(* TunnelController, which has the end of WaitForRequest in full and of    *)
(* the reaper only this promise, implements it as well: that is what the   *)
(* two modules have in common.                                             *)
(***************************************************************************)

CONSTANT Session

VARIABLES
    entry,  \* the session is not in the table yet, in it, or no longer
    gone    \* the sessions whose agent has died or exited

vars == <<entry, gone>>

Init ==
    /\ entry = [s \in Session |-> "none"]
    /\ gone = {}

\* An agent that dies while it says Hello is entered all the same.
Enter(s) ==
    /\ entry[s] = "none"
    /\ entry' = [entry EXCEPT ![s] = "in"]
    /\ UNCHANGED gone

AgentGoes(s) ==
    /\ gone' = gone \cup {s}
    /\ UNCHANGED entry

Leave(S) ==
    /\ \A s \in S : entry[s] = "in" /\ s \in gone
    /\ entry' = [s \in Session |-> IF s \in S THEN "out" ELSE entry[s]]
    /\ UNCHANGED gone

Next ==
    \/ \E s \in Session : Enter(s) \/ AgentGoes(s)
    \/ \E S \in SUBSET Session : Leave(S)

Spec == Init /\ [][Next]_vars
=============================================================================
