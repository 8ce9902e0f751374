------------------------------- MODULE DataFlow -------------------------------
(***************************************************************************)
(* What the controller may expect on the DataFlowAgentToController stream  *)
(* that answers a request: headers first, then data, then one end (Done or *)
(* Cancel); a Done may be said again, and the agent closes its side only   *)
(* after an end.  It is the contract of HTTPEcho                           *)
(* (internal/serviceconfig/http_echo.go:25-36) on the wire, and what       *)
(* TunnelController calls an orderly agent.  AgentEcho implements it.      *)
(***************************************************************************)
EXTENDS Naturals, Sequences

CONSTANT Request

VARIABLE wire   \* wire[r]: the kinds of message sent for request r

Init == wire = [r \in Request |-> <<>>]

\* A message of kind k may follow one of the kinds in after.
Follows(r, k, after) ==
    /\ wire[r] # <<>> /\ wire[r][Len(wire[r])] \in after
    /\ wire' = [wire EXCEPT ![r] = Append(@, k)]

SayHeaders(r) ==
    /\ wire[r] = <<>>
    /\ wire' = [wire EXCEPT ![r] = <<"headers">>]

SayData(r) == Follows(r, "data", {"headers", "data"})
SayDone(r) == Follows(r, "done", {"headers", "data", "done"})
SayCancel(r) == Follows(r, "cancel", {"headers", "data"})
CloseSide(r) == Follows(r, "eof", {"done", "cancel"})

Next ==
    \E r \in Request :
        SayHeaders(r) \/ SayData(r) \/ SayDone(r) \/ SayCancel(r) \/ CloseSide(r)

Spec == Init /\ [][Next]_wire
=============================================================================
