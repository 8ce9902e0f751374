--------------------------- MODULE TunnelController ---------------------------
(***************************************************************************)
(* The data path of the controller: the HTTP handlers of the service port  *)
(* (runAPIHandler and runEcho, app/server/service_server.go), the          *)
(* WaitForRequest handler of each agent session and the                    *)
(* DataFlowAgentToController handler of each stream (app/server/server.go), *)
(* the StreamManager (stream.go) and the ServerEcho (echo.go) that connect *)
(* them.                                                                   *)
(*                                                                         *)
(* Every handler is a goroutine.  The channels session.out, headersChan,   *)
(* dataChan, doneChan and failChan are unbuffered: a send and the receive  *)
(* it meets are one action of both goroutines, and a goroutine in a state  *)
(* whose action has no partner is blocked.  The lock of the StreamManager  *)
(* is a variable, because FlushAgent holds it across such sends; its other *)
(* users are one action each, enabled while the lock is free.              *)
(*                                                                         *)
(* Each request draws a fresh ULID as its stream, so a stream is named by  *)
(* its request.  The agent is the environment: an event of its data flow   *)
(* is drawn when the handler receives it, which is as good as a FIFO wire. *)
(* The clock is left to AgentSessions: the sessions that can expire here   *)
(* are those whose agent is gone (LiveAgentsStay in AgentSessionsProofs).  *)
(***************************************************************************)
EXTENDS Integers, Sequences

CONSTANTS
    Session,     \* the sessions Hello hands out
    Request,     \* the HTTP requests, and their streams
    NoSession, NoRequest,
    Route,       \* Route[r]: the sessions with a configured endpoint for r
    MaxEvents,   \* bound on the headers and data events of a stream
    Orderly,     \* the agents keep the contract of HTTPEcho
    CanLose      \* agents and their connections can die

ASSUME SessionAssumption == NoSession \notin Session
ASSUME RequestAssumption == NoRequest \notin Request
ASSUME RouteAssumption == Route \in [Request -> SUBSET Session]
ASSUME BoundAssumption == MaxEvents \in Nat
ASSUME SwitchAssumption == Orderly \in BOOLEAN /\ CanLose \in BOOLEAN

VARIABLES
    agents,     \* AgentSessions.agents: the sessions in the table
    conn,       \* the connection the session's streams share
    wfr,        \* where the session's WaitForRequest handler is
    cur,        \* the request it registers, sends or cancels
    targets,    \* the local variable targets of flushUnlocked
    lock,       \* the session whose handler holds StreamManager's lock
    streams,    \* StreamManager.streams
    http,       \* where the request's HTTP handler is
    route,      \* the session find returned to it
    client,     \* whether its client is there
    asked,      \* the requests an agent has received
    flow,       \* where the stream's DataFlowAgentToController handler is
    events,     \* headers and data events it has received
    state,      \* ServerEcho.state
    accepted,   \* the data events ServerEcho.Data has accepted, by their numbers
    heads,      \* status lines written to the client
    body        \* the data events written to the client

sessionVars == <<agents, conn, wfr, cur, targets>>
managerVars == <<lock, streams>>
requestVars == <<http, route, client, asked>>
flowVars == <<flow, events>>
echoVars == <<state, accepted, heads, body>>
vars == <<sessionVars, managerVars, requestVars, flowVars, echoVars>>

Refused == "refused"
EndStates == {Refused, "done", "canceled", "failed", "left"}
HTTPStates == {"idle", "body", "offer", "echo"} \cup EndStates

\* The states in which the handler of a session holds the manager's lock.
Locked == {"flushing", "cancel", "mark"}
WFRStates == {"none", Refused, "select", "register", "send", "remove", "flush", "done"}
                \cup Locked

FlowStates == {"idle", "lookup", "rejected", "recv", "headers", "data", "done",
               "cancel", "fail", "unregister", "ended"}

\* Data events of a stream, by their numbers.
DataEvents == Seq(1..MaxEvents)

TypeOK ==
    /\ agents \subseteq Session
    /\ conn \in [Session -> {"none", "up", "lost", "closed"}]
    /\ wfr \in [Session -> WFRStates]
    /\ cur \in [Session -> Request \cup {NoRequest}]
    /\ targets \in [Session -> SUBSET Request]
    /\ lock \in Session \cup {NoSession}
    /\ streams \subseteq Request
    /\ http \in [Request -> HTTPStates]
    /\ route \in [Request -> Session \cup {NoSession}]
    /\ client \in [Request -> {"there", "gone"}]
    /\ asked \subseteq Request
    /\ flow \in [Request -> FlowStates]
    /\ events \in [Request -> 0..MaxEvents]
    /\ state \in [Request -> {"headers", "data", "done", "canceled"}]
    /\ accepted \in [Request -> DataEvents]
    /\ heads \in [Request -> Nat]
    /\ body \in [Request -> DataEvents]

Init ==
    /\ agents = {}
    /\ conn = [s \in Session |-> "none"]
    /\ wfr = [s \in Session |-> "none"]
    /\ cur = [s \in Session |-> NoRequest]
    /\ targets = [s \in Session |-> {}]
    /\ lock = NoSession
    /\ streams = {}
    /\ http = [r \in Request |-> "idle"]
    /\ route = [r \in Request |-> NoSession]
    /\ client = [r \in Request |-> "there"]
    /\ asked = {}
    /\ flow = [r \in Request |-> "idle"]
    /\ events = [r \in Request |-> 0]
    /\ state = [r \in Request |-> "headers"]
    /\ accepted = [r \in Request |-> <<>>]
    /\ heads = [r \in Request |-> 0]
    /\ body = [r \in Request |-> <<>>]

-----------------------------------------------------------------------------
(* Sessions and connections. *)

Hello(s) ==
    /\ conn[s] = "none"
    /\ conn' = [conn EXCEPT ![s] = "up"]
    /\ agents' = agents \cup {s}
    /\ UNCHANGED <<wfr, cur, targets, managerVars, requestVars, flowVars, echoVars>>

\* The agent or the network dies; the controller does not know yet.
AgentLost(s) ==
    /\ CanLose
    /\ conn[s] = "up"
    /\ conn' = [conn EXCEPT ![s] = "lost"]
    /\ UNCHANGED <<agents, wfr, cur, targets, managerVars, requestVars, flowVars, echoVars>>

\* The transport notices (a FIN, or the server's keepalive) and cancels the
\* contexts of the connection's handlers.
ConnectionCloses(s) ==
    /\ conn[s] = "lost"
    /\ conn' = [conn EXCEPT ![s] = "closed"]
    /\ UNCHANGED <<agents, wfr, cur, targets, managerVars, requestVars, flowVars, echoVars>>

\* expireOldSessions: the session leaves the table, nothing else changes.
Expire(s) ==
    /\ s \in agents
    /\ conn[s] \in {"lost", "closed"}
    /\ agents' = agents \ {s}
    /\ UNCHANGED <<conn, wfr, cur, targets, managerVars, requestVars, flowVars, echoVars>>

-----------------------------------------------------------------------------
(* The HTTP handler of a request, up to runEcho. *)

FindSession(r) ==
    /\ http[r] = "idle"
    /\ \E s \in Route[r] \cap agents : route' = [route EXCEPT ![r] = s]
    /\ http' = [http EXCEPT ![r] = "body"]
    /\ UNCHANGED <<sessionVars, managerVars, client, asked, flowVars, echoVars>>

\* The handler answers with a status of its own: 502, or 503.
Refuse(r) ==
    /\ http' = [http EXCEPT ![r] = Refused]
    /\ heads' = [heads EXCEPT ![r] = @ + 1]
    /\ UNCHANGED <<sessionVars, managerVars, route, client, asked, flowVars,
                   state, accepted, body>>

NoSuchAgent(r) ==
    /\ http[r] = "idle"
    /\ Route[r] \cap agents = {}
    /\ Refuse(r)

\* The body cannot be read or the headers cannot be converted.
BadRequest(r) ==
    /\ http[r] = "body"
    /\ Refuse(r)

\* The request is complete: from here the handler waits in session.out <- req,
\* and looks neither at the client nor at the session.
OfferRequest(r) ==
    /\ http[r] = "body"
    /\ http' = [http EXCEPT ![r] = "offer"]
    /\ UNCHANGED <<sessionVars, managerVars, route, client, asked, flowVars, echoVars>>

ClientLeaves(r) ==
    /\ http[r] \in {"body", "offer", "echo"}
    /\ client[r] = "there"
    /\ client' = [client EXCEPT ![r] = "gone"]
    /\ UNCHANGED <<sessionVars, managerVars, http, route, asked, flowVars, echoVars>>

-----------------------------------------------------------------------------
(* The WaitForRequest handler of a session. *)

\* The handler of s moves on to state m with request r in hand.
Goes(s, m, r) ==
    /\ wfr' = [wfr EXCEPT ![s] = m]
    /\ cur' = [cur EXCEPT ![s] = r]

WaitForRequest(s) ==
    /\ wfr[s] = "none"
    /\ conn[s] \in {"up", "lost"}
    /\ Goes(s, IF s \in agents THEN "select" ELSE Refused, NoRequest)
    /\ UNCHANGED <<agents, conn, targets, managerVars, requestVars, flowVars, echoVars>>

\* Mutant: the request is sent to the agent before its stream is registered.
TakeRequestSendsFirst(s, r) ==
    /\ wfr[s] = "select"
    /\ http[r] = "offer"
    /\ route[r] = s
    /\ Goes(s, "register", r)
    /\ http' = [http EXCEPT ![r] = "echo"]
    /\ asked' = asked \cup {r}
    /\ UNCHANGED <<agents, conn, targets, managerVars, route, client, flowVars, echoVars>>

\* The request passes over session.out, and its HTTP handler enters runEcho.
TakeRequest(s, r) ==
    /\ wfr[s] = "select"
    /\ http[r] = "offer"
    /\ route[r] = s
    /\ Goes(s, "register", r)
    /\ http' = [http EXCEPT ![r] = "echo"]
    /\ UNCHANGED <<agents, conn, targets, managerVars, route, client, asked, flowVars, echoVars>>

Register(s) ==
    /\ wfr[s] = "register"
    /\ lock = NoSession
    /\ streams' = streams \cup {cur[s]}
    /\ Goes(s, "send", cur[s])
    /\ UNCHANGED <<agents, conn, targets, lock, requestVars, flowVars, echoVars>>

\* stream.Send succeeds; a request sent into a lost connection never arrives.
SendRequest(s) ==
    /\ wfr[s] = "send"
    /\ \/ conn[s] = "up" /\ asked' = asked \cup {cur[s]}
       \/ conn[s] = "lost" /\ UNCHANGED asked
    /\ Goes(s, "select", NoRequest)
    /\ UNCHANGED <<agents, conn, targets, managerVars, http, route, client, flowVars, echoVars>>

\* Mutant: a failed Send returns and leaves the rest to the deferred removeSession.
SendFailsUnflushed(s) ==
    /\ wfr[s] = "send"
    /\ conn[s] \in {"lost", "closed"}
    /\ agents' = agents \ {s}
    /\ Goes(s, "done", NoRequest)
    /\ UNCHANGED <<conn, targets, managerVars, requestVars, flowVars, echoVars>>

\* Mutant: a Send can fail on a connection that goes on.
SendFailsAtAnyTime(s) ==
    /\ wfr[s] = "send"
    /\ Goes(s, "remove", NoRequest)
    /\ UNCHANGED <<agents, conn, targets, managerVars, requestVars, flowVars, echoVars>>

SendFails(s) ==
    /\ wfr[s] = "send"
    /\ conn[s] \in {"lost", "closed"}
    /\ Goes(s, "remove", NoRequest)
    /\ UNCHANGED <<agents, conn, targets, managerVars, requestVars, flowVars, echoVars>>

ContextDone(s) ==
    /\ wfr[s] = "select"
    /\ conn[s] = "closed"
    /\ Goes(s, "remove", NoRequest)
    /\ UNCHANGED <<agents, conn, targets, managerVars, requestVars, flowVars, echoVars>>

\* closeAgentSession: removeSession, and then FlushAgent.
RemoveSession(s) ==
    /\ wfr[s] = "remove"
    /\ agents' = agents \ {s}
    /\ Goes(s, "flush", NoRequest)
    /\ UNCHANGED <<conn, targets, managerVars, requestVars, flowVars, echoVars>>

FlushLock(s) ==
    /\ wfr[s] = "flush"
    /\ lock = NoSession
    /\ lock' = s
    /\ targets' = [targets EXCEPT ![s] = {r \in streams : route[r] = s}]
    /\ Goes(s, "flushing", NoRequest)
    /\ UNCHANGED <<agents, conn, streams, requestVars, flowVars, echoVars>>

FlushNext(s) ==
    /\ wfr[s] = "flushing"
    /\ \E r \in targets[s] : Goes(s, "cancel", r)
    /\ UNCHANGED <<agents, conn, targets, managerVars, requestVars, flowVars, echoVars>>

\* ServerEcho.Cancel sends on doneChan first.  It meets runEcho if that still
\* runs; otherwise the handler stays here, with the lock.
CancelStream(s) ==
    /\ wfr[s] = "cancel"
    /\ http[cur[s]] = "echo"
    /\ http' = [http EXCEPT ![cur[s]] = "canceled"]
    /\ Goes(s, "mark", cur[s])
    /\ UNCHANGED <<agents, conn, targets, managerVars, route, client, asked, flowVars, echoVars>>

\* Mutant: Cancel leaves a state that is none of echoState's.
FlushDeleteStrayState(s) ==
    /\ wfr[s] = "mark"
    /\ state' = [state EXCEPT ![cur[s]] = "flushed"]
    /\ streams' = streams \ {cur[s]}
    /\ targets' = [targets EXCEPT ![s] = @ \ {cur[s]}]
    /\ Goes(s, "flushing", NoRequest)
    /\ UNCHANGED <<agents, conn, lock, requestVars, flowVars, accepted, heads, body>>

\* Mutant: the stream is deleted, but stays among the targets.
FlushDeleteKeepsTarget(s) ==
    /\ wfr[s] = "mark"
    /\ state' = [state EXCEPT ![cur[s]] = "canceled"]
    /\ streams' = streams \ {cur[s]}
    /\ Goes(s, "flushing", NoRequest)
    /\ UNCHANGED <<agents, conn, targets, lock, requestVars, flowVars, accepted, heads, body>>

\* Only then does Cancel set the state (unsynchronised: until this step the
\* stream's data flow may still read the old one); the stream is deleted.
FlushDelete(s) ==
    /\ wfr[s] = "mark"
    /\ state' = [state EXCEPT ![cur[s]] = "canceled"]
    /\ streams' = streams \ {cur[s]}
    /\ targets' = [targets EXCEPT ![s] = @ \ {cur[s]}]
    /\ Goes(s, "flushing", NoRequest)
    /\ UNCHANGED <<agents, conn, lock, requestVars, flowVars, accepted, heads, body>>

\* Mutant: FlushAgent returns without unlocking.
FlushUnlockForgotten(s) ==
    /\ wfr[s] = "flushing"
    /\ targets[s] = {}
    /\ agents' = agents \ {s}
    /\ Goes(s, "done", NoRequest)
    /\ UNCHANGED <<conn, targets, lock, streams, requestVars, flowVars, echoVars>>

\* FlushAgent returns, and so does the handler: its deferred removeSession.
FlushUnlock(s) ==
    /\ wfr[s] = "flushing"
    /\ targets[s] = {}
    /\ lock' = NoSession
    /\ agents' = agents \ {s}
    /\ Goes(s, "done", NoRequest)
    /\ UNCHANGED <<conn, targets, streams, requestVars, flowVars, echoVars>>

-----------------------------------------------------------------------------
(* The DataFlowAgentToController handler of a stream, and the ServerEcho     *)
(* calls it makes: each checks and sets ServerEcho.state and then blocks in  *)
(* its channel send, which is the state the flow is left in.                 *)

\* The agent has the request and opens the data flow that answers it.
AgentOpens(r) ==
    /\ r \in asked
    /\ flow[r] = "idle"
    /\ conn[route[r]] # "closed"
    /\ flow' = [flow EXCEPT ![r] = "lookup"]
    /\ UNCHANGED <<sessionVars, managerVars, requestVars, events, echoVars>>

LookupStream(r) ==
    /\ flow[r] = "lookup"
    /\ lock = NoSession
    /\ flow' = [flow EXCEPT ![r] = IF r \in streams THEN "recv" ELSE "rejected"]
    /\ UNCHANGED <<sessionVars, managerVars, requestVars, events, echoVars>>

\* The handler receives an event, which counts towards MaxEvents.
Receives(r) ==
    /\ flow[r] = "recv"
    /\ events[r] < MaxEvents
    /\ events' = [events EXCEPT ![r] = @ + 1]

\* Mutant: ServerEcho.Headers does not check its state.
RecvHeadersUnchecked(r) ==
    /\ Orderly => events[r] = 0
    /\ Receives(r)
    /\ state' = [state EXCEPT ![r] = "data"]
    /\ flow' = [flow EXCEPT ![r] = "headers"]
    /\ UNCHANGED <<sessionVars, managerVars, requestVars, accepted, heads, body>>

\* Mutant: ServerEcho.Headers does not set its state.
RecvHeadersForgotten(r) ==
    /\ Orderly => events[r] = 0
    /\ Receives(r)
    /\ \/ state[r] = "headers" /\ flow' = [flow EXCEPT ![r] = "headers"]
       \/ state[r] # "headers" /\ UNCHANGED flow
    /\ UNCHANGED <<sessionVars, managerVars, requestVars, state, accepted, heads, body>>

RecvHeaders(r) ==
    /\ Orderly => events[r] = 0
    /\ Receives(r)
    /\ \/ /\ state[r] = "headers"
          /\ state' = [state EXCEPT ![r] = "data"]
          /\ flow' = [flow EXCEPT ![r] = "headers"]
       \/ state[r] # "headers" /\ UNCHANGED <<state, flow>>
    /\ UNCHANGED <<sessionVars, managerVars, requestVars, accepted, heads, body>>

\* Mutant: Data does not wait for runEcho, and drops what that is not ready for.
RecvDataDropped(r) ==
    /\ Orderly => events[r] > 0
    /\ Receives(r)
    /\ \/ /\ state[r] = "data"
          /\ accepted' = [accepted EXCEPT ![r] = Append(@, events'[r])]
          /\ flow' \in {flow, [flow EXCEPT ![r] = "data"]}
       \/ state[r] # "data" /\ UNCHANGED <<accepted, flow>>
    /\ UNCHANGED <<sessionVars, managerVars, requestVars, state, heads, body>>

RecvData(r) ==
    /\ Orderly => events[r] > 0
    /\ Receives(r)
    /\ \/ /\ state[r] = "data"
          /\ accepted' = [accepted EXCEPT ![r] = Append(@, events'[r])]
          /\ flow' = [flow EXCEPT ![r] = "data"]
       \/ state[r] # "data" /\ UNCHANGED <<accepted, flow>>
    /\ UNCHANGED <<sessionVars, managerVars, requestVars, state, heads, body>>

\* The handler returns after Done, also when ServerEcho.Done refuses it.
RecvDone(r) ==
    /\ flow[r] = "recv"
    /\ Orderly => events[r] > 0
    /\ flow' = [flow EXCEPT ![r] = IF state[r] = "data" THEN "done" ELSE "unregister"]
    /\ UNCHANGED <<sessionVars, managerVars, requestVars, events, echoVars>>

RecvCancel(r) ==
    /\ flow[r] = "recv"
    /\ flow' = [flow EXCEPT ![r] = "cancel"]
    /\ UNCHANGED <<sessionVars, managerVars, requestVars, events, echoVars>>

\* ServerEcho.Fail sets the state and then sends on failChan.
Fails(r) ==
    /\ state' = [state EXCEPT ![r] = "done"]
    /\ flow' = [flow EXCEPT ![r] = "fail"]
    /\ UNCHANGED <<sessionVars, managerVars, requestVars, events, accepted, heads, body>>

\* The agent closes its side without a Done: done() says it for the agent, and
\* fails the response where ServerEcho.Done refuses.
RecvEOF(r) ==
    /\ flow[r] = "recv"
    /\ ~Orderly
    /\ \/ /\ state[r] = "data"
          /\ flow' = [flow EXCEPT ![r] = "done"]
          /\ UNCHANGED <<sessionVars, managerVars, requestVars, events, echoVars>>
       \/ state[r] # "data" /\ Fails(r)

\* The connection closed: Recv fails with code Canceled and the handler returns.
RecvCanceled(r) ==
    /\ flow[r] = "recv"
    /\ conn[route[r]] = "closed"
    /\ flow' = [flow EXCEPT ![r] = "unregister"]
    /\ UNCHANGED <<sessionVars, managerVars, requestVars, events, echoVars>>

\* Recv fails with any other code.
RecvError(r) ==
    /\ flow[r] = "recv"
    /\ Fails(r)

\* Mutant: the data flow handler returns without Unregister.
UnregisterStreamForgotten(r) ==
    /\ flow[r] = "unregister"
    /\ lock = NoSession
    /\ flow' = [flow EXCEPT ![r] = "ended"]
    /\ UNCHANGED <<sessionVars, managerVars, requestVars, events, echoVars>>

UnregisterStream(r) ==
    /\ flow[r] = "unregister"
    /\ lock = NoSession
    /\ streams' = streams \ {r}
    /\ flow' = [flow EXCEPT ![r] = "ended"]
    /\ UNCHANGED <<sessionVars, lock, requestVars, events, echoVars>>

-----------------------------------------------------------------------------
(* runEcho: its select receives from the client's context and the channels. *)

\* runEcho receives what the flow sends from state m; the flow goes on to n.
Meets(r, m, n) ==
    /\ http[r] = "echo"
    /\ flow[r] = m
    /\ flow' = [flow EXCEPT ![r] = n]
    /\ UNCHANGED <<sessionVars, managerVars, route, client, asked, events, accepted>>

\* runEcho returns, and http says why.
Returns(r, why) == http' = [http EXCEPT ![r] = why]

EchoHeaders(r) ==
    /\ Meets(r, "headers", "recv")
    /\ heads' = [heads EXCEPT ![r] = @ + 1]
    /\ UNCHANGED <<http, state, body>>

\* The data written is that of the event the flow has in its hand, the last it has
\* received.  The first Write of a response without a status writes status 200.
EchoData(r) ==
    /\ Meets(r, "data", "recv")
    /\ body' = [body EXCEPT ![r] = Append(@, events[r])]
    /\ heads' = [heads EXCEPT ![r] = IF @ = 0 THEN 1 ELSE @]
    /\ UNCHANGED <<http, state>>

EchoWriteFails(r) ==
    /\ client[r] = "gone"
    /\ Meets(r, "data", "recv")
    /\ Returns(r, "left")
    /\ UNCHANGED <<state, heads, body>>

EchoDone(r) ==
    /\ Meets(r, "done", "unregister")
    /\ Returns(r, "done")
    /\ UNCHANGED <<state, heads, body>>

EchoCanceled(r) ==
    /\ Meets(r, "cancel", "unregister")
    /\ Returns(r, "canceled")
    /\ state' = [state EXCEPT ![r] = "canceled"]
    /\ UNCHANGED <<heads, body>>

\* The status of the failure is written only if no headers were.
EchoFailed(r) ==
    /\ Meets(r, "fail", "unregister")
    /\ Returns(r, "failed")
    /\ heads' = [heads EXCEPT ![r] = IF @ = 0 THEN 1 ELSE @]
    /\ UNCHANGED <<state, body>>

EchoClientGone(r) ==
    /\ http[r] = "echo"
    /\ client[r] = "gone"
    /\ Returns(r, "left")
    /\ UNCHANGED <<sessionVars, managerVars, route, client, asked, flowVars, echoVars>>

-----------------------------------------------------------------------------

\* What the controller does in a session without sending or losing anything.
SessionOwnStep(s) ==
    \/ Hello(s) \/ ConnectionCloses(s) \/ Expire(s)
    \/ WaitForRequest(s) \/ (\E r \in Request : TakeRequest(s, r))
    \/ Register(s) \/ SendFails(s) \/ ContextDone(s)
    \/ RemoveSession(s) \/ FlushLock(s) \/ FlushNext(s)
    \/ CancelStream(s) \/ FlushDelete(s) \/ FlushUnlock(s)

SessionStep(s) == AgentLost(s) \/ SendRequest(s) \/ SessionOwnStep(s)

RequestStep(r) ==
    \/ FindSession(r) \/ NoSuchAgent(r) \/ BadRequest(r) \/ OfferRequest(r)
    \/ ClientLeaves(r)

\* What a data flow does without a message of the agent.
FlowOwnStep(r) ==
    LookupStream(r) \/ RecvCanceled(r) \/ RecvError(r) \/ UnregisterStream(r)

FlowStep(r) ==
    \/ AgentOpens(r) \/ FlowOwnStep(r)
    \/ RecvHeaders(r) \/ RecvData(r) \/ RecvDone(r) \/ RecvCancel(r) \/ RecvEOF(r)

EchoStep(r) ==
    \/ EchoHeaders(r) \/ EchoData(r) \/ EchoWriteFails(r) \/ EchoDone(r)
    \/ EchoCanceled(r) \/ EchoFailed(r) \/ EchoClientGone(r)

Next ==
    \/ \E s \in Session : SessionStep(s)
    \/ \E r \in Request : RequestStep(r) \/ FlowStep(r) \/ EchoStep(r)

Spec == Init /\ [][Next]_vars

\* The goroutine that flushes a session runs.
FlushFairness ==
    \A s \in Session :
        WF_vars(FlushNext(s) \/ CancelStream(s) \/ FlushDelete(s) \/ FlushUnlock(s))

FlushSpec == Spec /\ FlushFairness

\* Goroutines run; a lock of package sync and a Go channel serve their waiters
\* in turn, and select takes each ready case in the end: these actions can be
\* disabled in between by another goroutine, hence strong fairness.
ServeFairness ==
    /\ \A s \in Session : SF_vars(Register(s)) /\ WF_vars(SendRequest(s) \/ SendFails(s))
    /\ \A s \in Session, r \in Request : SF_vars(TakeRequest(s, r))
    /\ \A r \in Request :
        /\ WF_vars(BadRequest(r) \/ OfferRequest(r))
        /\ SF_vars(LookupStream(r)) /\ SF_vars(UnregisterStream(r))
        /\ WF_vars(EchoStep(r))

CloseFairness ==
    /\ FlushFairness
    /\ \A s \in Session :
        SF_vars(FlushLock(s)) /\ SF_vars(ContextDone(s)) /\ WF_vars(RemoveSession(s))

\* The transport notices a lost connection (keepalive, server/main.go:78-82);
\* an agent that is there calls WaitForRequest, answers what it was asked, and
\* ends its answer.
EnvironmentFairness ==
    /\ \A s \in Session : WF_vars(ConnectionCloses(s)) /\ WF_vars(WaitForRequest(s))
    /\ \A r \in Request :
        /\ WF_vars(AgentOpens(r))
        /\ WF_vars(RecvHeaders(r) \/ RecvData(r) \/ RecvDone(r) \/ RecvCanceled(r))

FairSpec == Spec /\ ServeFairness /\ CloseFairness /\ EnvironmentFairness

-----------------------------------------------------------------------------
(* What the data path promises. *)

\* How far the contract HTTPResponse says a response is.
Phase(h) ==
    CASE h = "idle" -> "none"
      [] h \in {"body", "offer", "echo"} -> "open"
      [] h = "done" -> "complete"
      [] OTHER -> "cut"

\* Each response follows the contract of HTTPResponse: headers, data and the end
\* in that order, nothing twice, nothing after the end, and the body is the data
\* ServerEcho.Data accepted, event by event, and all of it when the response ends
\* with the agent's Done.
Response == INSTANCE HTTPResponse WITH
    phase <- [r \in Request |-> Phase(http[r])],
    heads <- heads,
    said <- accepted,
    body <- body,
    Data <- 1..MaxEvents

ResponseContract == Response!Spec

\* The session of an agent whose connection is up stays in the table: the handler
\* that takes it out, after a failed Send as after its context is done, and with
\* all the steps of the flush in between, does so for a connection that is lost.
Table == INSTANCE SessionTable WITH
    entry <- [s \in Session |->
                IF s \in agents THEN "in" ELSE IF conn[s] = "none" THEN "none" ELSE "out"],
    gone <- {s \in Session : conn[s] \in {"lost", "closed"}}

TableContract == Table!Spec

\* Once the WaitForRequest handler of a session has returned, no stream of that
\* session is left in the StreamManager: its flush missed none and none came
\* after it (WaitForRequest registers and flushes in one goroutine).
FlushComplete ==
    \A s \in Session : wfr[s] = "done" => \A r \in streams : route[r] # s

\* An agent that answers a request is told "no such streamID" only once its
\* session is being flushed: the stream is registered before the request is
\* sent, and nothing but the flush and the flow's own end unregisters it.
AskedStreamIsKnown ==
    \A r \in Request :
        flow[r] = "lookup" /\ r \notin streams => wfr[route[r]] \in Locked \cup {"done"}

\* What blocks a flush, and with it the StreamManager, is only ever the Cancel
\* of a response that has ended already.
FlushEndsOrIsStuck ==
    \A s \in Session :
        lock = s ~> (lock # s \/ (wfr[s] = "cancel" /\ http[cur[s]] \in EndStates))

\* Why a flush may find that a response has ended: its client has left, or the data
\* flow that ended it waits, in Unregister, for the lock that the flush holds.  In no
\* other case does Cancel meet nobody in runEcho.
StuckBehind ==
    \A s \in Session : wfr[s] = "cancel" =>
        LET r == cur[s] IN
            \/ http[r] \in {"echo", "left"}
            \/ http[r] \in {"done", "canceled", "failed"} /\ flow[r] = "unregister"

\* A flush counts down: each of its steps takes a stream off its list, or gets on
\* with the one in its hand, and it returns only when the list is empty.  Meanwhile
\* nobody else changes the table (registerStream, Unregister, FlushAgent).
FlushStage == [flushing |-> 2, cancel |-> 1, mark |-> 0]

FlushCountsDown ==
    [][\A s \in Session : lock = s =>
        /\ \/ lock' = s /\ UNCHANGED <<wfr[s], targets[s]>>
           \/ lock' = s /\ targets'[s] \subseteq targets[s] /\ targets'[s] # targets[s]
           \/ lock' = s /\ targets'[s] = targets[s] /\ FlushStage[wfr'[s]] < FlushStage[wfr[s]]
           \/ lock' = NoSession /\ targets[s] = {}
        /\ streams' \subseteq streams /\ streams \ streams' \subseteq targets[s]]_vars

\* http_echo.go:50-52: "Cancel terminates a session [...] The HTTP request (in or
\* out) should be terminated immediately."  So the call returns.
CancelReturns ==
    \A s \in Session : wfr[s] = "cancel" ~> wfr[s] # "cancel"

\* http_echo.go:30-33: after Headers and Data comes Done, and "if any failure is
\* to be indicated, Fail() can be called at any time".  So a data flow handler
\* that has returned leaves no runEcho waiting, unless a flush still has it.
NoOrphan ==
    \A r \in Request :
        http[r] = "echo" /\ flow[r] = "ended" => r \in streams

\* service_server.go:65-66: the listener "will always forward incoming requests
\* to the hard-coded configured destination".  So a request that has found a session
\* which is connected, and whose WaitForRequest handler waits for requests, does not
\* wait for ever to be handed to it while its client waits too.
RequestForwarded ==
    \A r \in Request :
        http[r] = "body" /\ conn[route[r]] = "up" /\ wfr[route[r]] = "select" ~>
            http[r] \notin {"body", "offer"} \/ client[r] = "gone"
=============================================================================
