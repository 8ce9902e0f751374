-------------------------------- MODULE Tunnel --------------------------------
(***************************************************************************)
(* The tunnel end to end: one agent process (AgentEcho) and the controller *)
(* it is connected to (TunnelController), which share one gRPC connection. *)
(*                                                                         *)
(* The WaitForRequest stream carries the requests to the agent, first in   *)
(* first out (inbox); the DataFlowAgentToController stream of each request *)
(* carries its answer back, in order (wire, of which the controller's      *)
(* handler has received the first read[r] messages) and with the flow      *)
(* control of gRPC: Send waits while Window data messages are unread.      *)
(*                                                                         *)
(* The connection breaks for both sides at once.  What was sent by then    *)
(* the controller may still handle; nothing the agent does afterwards      *)
(* leaves its process (SenderSends needs the link), so this module leaves  *)
(* the agent alone from there on: its end is the subject of AgentEcho.     *)
(*                                                                         *)
(* Every step is a step of the agent's module or a stutter, and a step of  *)
(* the controller's module or a stutter.                                   *)
(***************************************************************************)
EXTENDS Naturals, Sequences, FiniteSets

CONSTANTS
    Request,    \* the HTTP requests, their streams and their echoes
    Known,      \* those whose service the agent has configured
    MaxChunks,  \* bound on the reads of a response body that return data
    Window,     \* data messages of a stream that may be sent and not received
    CanLose,    \* the connection can break
    session,    \* the agent's session
    NoSession, NoRequest

ASSUME KnownAssumption == Known \subseteq Request
ASSUME ChunkAssumption == MaxChunks \in Nat
ASSUME WindowAssumption == Window \in Nat \ {0}
ASSUME SwitchAssumption == CanLose \in BOOLEAN
ASSUME SessionAssumption == session # NoSession
ASSUME RequestAssumption == NoRequest \notin Request

VARIABLES
    process, link, ctx, loop, caller, err, buf,                 \* the agent's
    headersSent, closed, sender, held, slice, wire, chunks,
    agents, conn, wfr, cur, targets, lock, streams,             \* the controller's
    http, route, client, asked, flow, events, state, accepted, heads, body,
    inbox,      \* the requests sent to the agent, which it has not received
    read        \* the messages of wire[r] the controller has received

Agent == INSTANCE AgentEcho

\* The controller with this agent and no other.  It is not told that the agent
\* is orderly; the agent itself is.  MaxEvents is what the agent can say.
Controller == INSTANCE TunnelController WITH
    Session <- {session},
    Route <- [r \in Request |-> {session}],
    MaxEvents <- MaxChunks + 1,
    Orderly <- FALSE

agentVars == <<process, link, ctx, loop, caller, err, buf, headersSent, closed, sender,
               held, slice, wire, chunks>>
controllerVars == <<agents, conn, wfr, cur, targets, lock, streams, http, route, client,
                    asked, flow, events, state, accepted, heads, body>>
vars == <<agentVars, controllerVars, inbox, read>>

TypeOK ==
    /\ Agent!TypeOK /\ Controller!TypeOK
    /\ inbox \in Seq(Request)
    /\ read \in [Request -> Nat]

Init ==
    /\ Agent!Init
    /\ Controller!Init
    /\ inbox = <<>>
    /\ read = [r \in Request |-> 0]

-----------------------------------------------------------------------------
(* Steps of both sides, over the connection between them. *)

LinkBreaks ==
    /\ Agent!LinkBreaks
    /\ Controller!AgentLost(session)
    /\ UNCHANGED <<inbox, read>>

SendRequest ==
    /\ Controller!SendRequest(session)
    /\ inbox' = IF conn[session] = "up" THEN Append(inbox, cur[session]) ELSE inbox
    /\ UNCHANGED <<agentVars, read>>

LoopReceives ==
    /\ inbox # <<>>
    /\ Agent!LoopReceives(Head(inbox))
    /\ inbox' = Tail(inbox)
    /\ UNCHANGED <<controllerVars, read>>

\* The stream RunDataSender has opened reaches the controller.
AgentOpens(r) ==
    /\ sender[r] \notin {"none", "opening", "dead"}
    /\ Controller!AgentOpens(r)
    /\ UNCHANGED <<agentVars, inbox, read>>

\* The switch over what Recv returns in DataFlowAgentToController.
Recv(r) ==
    /\ read[r] < Len(wire[r])
    /\ LET event == wire[r][read[r] + 1] IN
         CASE event = "headers" -> Controller!RecvHeaders(r)
           [] event = "data" -> Controller!RecvData(r)
           [] event = "done" -> Controller!RecvDone(r)
           [] event = "cancel" -> Controller!RecvCancel(r)
           [] event = "eof" -> Controller!RecvEOF(r)
    /\ read' = [read EXCEPT ![r] = @ + 1]
    /\ UNCHANGED <<agentVars, inbox>>

\* Data sent for r and not received: only data is large enough to fill a window.
Unread(r) ==
    {i \in DOMAIN wire[r] : i > read[r] /\ wire[r][i] = "data"}

\* Send waits for the controller to receive, CloseAndRecv for its handler to return.
Answered(r) ==
    \/ flow[r] \in {"rejected", "ended"}
    \/ sender[r] = "send" /\ (held[r] = "data" => Cardinality(Unread(r)) < Window)
    \/ sender[r] \notin {"send", "closing"}

SenderStep(r) ==
    /\ link = "up"
    /\ Answered(r)
    /\ Agent!SenderStep(r)
    /\ UNCHANGED <<controllerVars, inbox, read>>

-----------------------------------------------------------------------------
(* Steps of one side. *)

CallerStep(r) ==
    /\ link = "up"
    /\ Agent!CallerStep(r)
    /\ UNCHANGED <<controllerVars, inbox, read>>

ControllerStep ==
    /\ \/ Controller!SessionOwnStep(session)
       \/ \E r \in Request :
            Controller!RequestStep(r) \/ Controller!FlowOwnStep(r) \/ Controller!EchoStep(r)
    /\ UNCHANGED <<agentVars, inbox, read>>

Next ==
    \/ LinkBreaks \/ SendRequest \/ LoopReceives
    \/ \E r \in Request : AgentOpens(r) \/ Recv(r) \/ SenderStep(r) \/ CallerStep(r)
    \/ ControllerStep

Spec == Init /\ [][Next]_vars

\* The goroutines of both processes run, the agent calls WaitForRequest, and the
\* connection, while it is up, delivers.  Nothing is assumed of what follows a loss.
Fairness ==
    /\ Controller!ServeFairness
    /\ WF_vars(Controller!WaitForRequest(session) /\ UNCHANGED <<agentVars, inbox, read>>)
    /\ WF_vars(LoopReceives)
    /\ \A r \in Request :
        /\ WF_vars(link = "up" /\ AgentOpens(r))
        /\ WF_vars(link = "up" /\ Recv(r))
        /\ WF_vars(SenderStep(r)) /\ WF_vars(CallerStep(r))

FairSpec == Spec /\ Fairness

-----------------------------------------------------------------------------
(* What the two sides together promise. *)

\* An agent process keeps the order of events that TunnelController's other
\* properties assume of its environment (Orderly).
OrderlyController == INSTANCE TunnelController WITH
    Session <- {session},
    Route <- [r \in Request |-> {session}],
    MaxEvents <- MaxChunks + 1,
    Orderly <- TRUE

AgentIsOrderly == OrderlyController!Spec

\* The body a client has received, as the data messages of its request: the first
\* event of a data flow is its headers.
Shown(r) == [i \in DOMAIN body[r] |-> chunks[r][body[r][i] - 1]]

\* A response that ends with the agent's Done has its status line, and every data
\* message the agent has sent, each once and in order; and there are as many of them
\* as reads of the service's body that returned data.  None was dropped between the
\* read buffer, the sender, the wire, the data flow handler and runEcho.  (It does not
\* say that the service's body was read to its end: a read that fails ends in Done too.)
CompleteIsComplete ==
    \A r \in Request : http[r] = "done" =>
        heads[r] = 1 /\ Shown(r) = chunks[r] /\ Len(chunks[r]) = buf[r]

\* Cancel makes runEcho return without a status, and net/http then says 200.  An
\* agent never says Cancel on the wire, so that happens only to requests whose
\* agent has been lost.
CanceledMeansLost ==
    \A r \in Request : http[r] = "canceled" => link = "down"

\* The client of a request sees what the agent has sent for it, through both
\* processes and message by message: its body is at any time a beginning of the data
\* messages the sender has marshalled, and all of them when the response is complete,
\* after which the agent sends no more.
Response == INSTANCE HTTPResponse WITH
    phase <- [r \in Request |-> Controller!Phase(http[r])],
    heads <- heads,
    said <- chunks,
    body <- [r \in Request |-> Shown(r)],
    Data <- SUBSET Agent!Reads

EndToEndContract == Response!Spec

\* Where a request is between runEcho, which waits for its answer, and the agent.
Queued(r) == \E i \in DOMAIN inbox : inbox[i] = r

Places(r) ==
    (IF wfr[session] \in {"register", "send"} /\ cur[session] = r THEN {"handler"} ELSE {})
    \cup (IF Queued(r) THEN {"inbox"} ELSE {})
    \cup (IF caller[r] # "none" THEN {"agent"} ELSE {})

\* What is left to say of the answer, or to make of it.
Answering(r) ==
    /\ flow[r] \notin {"rejected", "unregister", "ended"}
    /\ flow[r] \in {"idle", "lookup", "recv"} /\ sender[r] \in {"closing", "returned"} =>
        read[r] < Len(wire[r])

\* While the connection is up, no runEcho waits in vain: its request is in exactly one
\* place, and when that is the agent, its data flow is known to the controller and has
\* not come to its end (what RequestAnswered needs of every state).
RequestOnItsWay ==
    link = "up" => \A r \in Request : http[r] = "echo" =>
        /\ \E p \in {"handler", "inbox", "agent"} : Places(r) = {p}
        /\ Places(r) = {"agent"} => Answering(r)

\* Every request that has found the agent's session gets its answer, unless the
\* connection breaks: through both processes, whatever else they are doing.
RequestAnswered ==
    \A r \in Request : http[r] = "body" ~> http[r] \in Controller!EndStates \/ link = "down"

\* The agent gets rid of every request it has received, unless the connection
\* breaks or the client has left: then nobody receives what it sends.
AgentFreed ==
    \A r \in Request :
        caller[r] # "none" ~>
            \/ link = "down" \/ http[r] = "left"
            \/ caller[r] = "end" /\ sender[r] = "returned"

\* A data flow handler that is called by the agent returns and takes its stream
\* out of the StreamManager, with the same two exceptions: for a client that has
\* left it waits in ServerEcho's send, and on a loss there is the flush.
StreamsLeave ==
    \A r \in Request : r \in streams ~> r \notin streams \/ http[r] = "left" \/ link = "down"
=============================================================================
