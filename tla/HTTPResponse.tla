----------------------------- MODULE HTTPResponse -----------------------------
(***************************************************************************)
(* What the controller promises a client of its service port about one     *)
(* HTTP response, whatever the agents, the tunnel and the other requests   *)
(* do: at most one status line, no body before it, a body that is a prefix *)
(* of what the agent has said for this request, piece by piece, and a      *)
(* response that ends once.  A response the agent has completed carries    *)
(* all it said.                                                            *)
(*                                                                         *)
(* This is the contract of the interface HTTPEcho                          *)
(* (internal/serviceconfig/http_echo.go:25-36) seen from the client;       *)
(* TunnelController is shown to implement it.                              *)
(***************************************************************************)
EXTENDS Naturals, Sequences

CONSTANTS
    Request,
    Data    \* the pieces of body an agent can say

VARIABLES
    phase,  \* "none", "open", then "complete" or "cut"
    heads,  \* status lines written
    said,   \* the pieces of body the agent has said
    body    \* the pieces of body written

vars == <<phase, heads, said, body>>

Init ==
    /\ phase = [r \in Request |-> "none"]
    /\ heads = [r \in Request |-> 0]
    /\ said = [r \in Request |-> <<>>]
    /\ body = [r \in Request |-> <<>>]

Open(r) ==
    /\ phase[r] = "none"
    /\ phase' = [phase EXCEPT ![r] = "open"]
    /\ UNCHANGED <<heads, said, body>>

StatusLine(r) ==
    /\ phase[r] = "open"
    /\ heads[r] = 0
    /\ heads' = [heads EXCEPT ![r] = 1]
    /\ UNCHANGED <<phase, said, body>>

\* The agent may go on talking to a response that was cut, never to one it has
\* completed.
Say(r) ==
    /\ phase[r] # "complete"
    /\ \E d \in Data : said' = [said EXCEPT ![r] = Append(@, d)]
    /\ UNCHANGED <<phase, heads, body>>

Chunk(r) ==
    /\ phase[r] = "open"
    /\ heads[r] = 1
    /\ Len(body[r]) < Len(said[r])
    /\ body' = [body EXCEPT ![r] = Append(@, said[r][Len(@) + 1])]
    /\ UNCHANGED <<phase, heads, said>>

Complete(r) ==
    /\ phase[r] = "open"
    /\ heads[r] = 1
    /\ body[r] = said[r]
    /\ phase' = [phase EXCEPT ![r] = "complete"]
    /\ UNCHANGED <<heads, said, body>>

\* The response ends early: refused or failed, with a status of its own if none
\* was written, or canceled, or its client is gone.
Cut(r) ==
    /\ phase[r] \in {"none", "open"}
    /\ phase' = [phase EXCEPT ![r] = "cut"]
    /\ \/ UNCHANGED heads
       \/ heads[r] = 0 /\ heads' = [heads EXCEPT ![r] = 1]
    /\ UNCHANGED <<said, body>>

Next ==
    \E r \in Request :
        Open(r) \/ StatusLine(r) \/ Say(r) \/ Chunk(r) \/ Complete(r) \/ Cut(r)

Spec == Init /\ [][Next]_vars
=============================================================================
