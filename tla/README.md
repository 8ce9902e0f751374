# grpc-datacon in TLA+

grpc-datacon carries HTTP requests from clients of a *controller* to services
that only an *agent* can reach. Agents connect out to the controller over gRPC;
a request that arrives on one of the controller's service ports is sent down the
agent's connection, performed by the agent, and its response streamed back. This
directory holds TLA+ modules that model the controller, the agent, both of them
together, the way credentials lead to a service and the life of the keys behind
them, the TLC configurations that check them, and theorems about them that TLAPS
proves.

Source paths below are relative to `src/`; modules are in this directory.

## 1. Inventory

### Components, their state and their operations

| component | source | state | operations |
|---|---|---|---|
| session table | `app/server/sessions.go` | `agents` (map, under an RWMutex), `LastUse` of each session | `registerSession`, `find`, `findSession`, `touchSession`, `removeSession`, `expireOldSessions` |
| reaper | `sessions.go:164-189` | a ticker (10 s) | drops sessions unused for 60 s |
| RPC handlers | `app/server/server.go` | one goroutine per call | `Hello`, `Ping`, `WaitForRequest`, `DataFlowAgentToController` |
| StreamManager | `app/server/stream.go` | `streams` (map, under an RWMutex) | `Register`, `Unregister`, `Find`, `FlushAgent` |
| ServerEcho | `app/server/echo.go` | `state`; four unbuffered channels | `Headers`, `Data`, `Done`, `Fail`, `Cancel` |
| HTTP handlers | `app/server/service_server.go` | one goroutine per request | `extractEndpoint*`, `runAPIHandler`, `runEcho` |
| agent process | `app/client/main.go` | `session`, `endpoints`, `secretsLoader` | start-up, `sendHello`, `pinger`, `waitForRequest` |
| AgentEcho | `app/client/echo.go` | `headersSent`, `closed`, `msgChan` | the five calls of the echo, `Shutdown`, `RunDataSender` |
| performing a request | `internal/serviceconfig/generic_endpoint.go` | one goroutine, one read buffer | `ExecuteHTTPRequest`, `RunHTTPRequest` |
| endpoints | `internal/serviceconfig/endpoints.go`, `generic_endpoint.go` | the agent's list | `ConfigureEndpoints`, `MakeGenericEndpoint`, `loadSecrets` |
| control API | `app/server/cncserver`, `internal/fwdapi` | none; issues certificates and tokens | five handlers behind `authenticate` |
| CA and tokens | `internal/ca`, `internal/jwtutil` | key sets, registries | register, sign, validate |
| header conversion and mutation | `internal/serviceconfig/headers.go`, `internal/jwtutil/mutateheaders.go` | none | convert, mutate, unmutate |
| controller start-up | `app/server/main.go`, `config.go` | configuration, key sets, server certificate, listeners | `LoadConfig`, `load*Keyset`, `Register*`, `LoadCAFromFile`, one goroutine per listener |
| agent configuration, tools, logging, identifiers | `app/client/config.go`, `app/get-creds`, `app/make-ca`, `internal/logging`, `internal/util`, `internal/ulid`, `internal/secrets` | none after start-up | - |

### How they interact

1. An agent process configures its endpoints, calls `Hello`, and gets a session
   in the table. It calls `WaitForRequest`, whose handler runs as long as the
   connection, and pings every 10 s; a ping touches the session.
2. A client's request reaches `runAPIHandler`. `find` takes a session with a
   configured endpoint for it; the handler reads the body and then sends the
   request over the session's unbuffered channel `out`, with no alternative.
3. The `WaitForRequest` handler receives it, registers the stream with the
   StreamManager, and sends the request to the agent.
4. The agent's receive loop makes an `AgentEcho`, whose sender opens a
   `DataFlowAgentToController` stream, and a goroutine performs the request.
   What it reads goes through `msgChan` to the sender and onto the stream.
5. The controller's data flow handler finds the stream's `ServerEcho` and calls
   it; each call sends on an unbuffered channel that `runEcho` selects from,
   together with the client's context.
6. When the connection ends, the `WaitForRequest` handler removes its session
   and flushes its streams: under the StreamManager's lock, `Cancel` on each.
7. On its way a request loses its credentials, and the name of its user becomes a
   token of the controller's. A service that is given such a token may send it
   back to a controller in a request of its own.
8. A controller reads its configuration and keys once. When it is started again
   it may have others, but tokens and agents of before.

### What is hard about it

Every handler is a goroutine and the channels are unbuffered, so any of them may
wait for one that has returned. The clock is read before the lock is taken. A
session is looked up, then used after the body has been read. Failures (a
connection lost at any time, a client that leaves, a data flow that ends
without a word) meet two sets of clean-up code, the data flow's deferred
`Unregister` and the session's flush, that race with each other. The agent's
echo has several ways to end, and code that goes on after some of them. A response
passes five goroutines of two processes with a window between them. Tokens outlive
the process that signed them, and configuration and keys are edited while it runs.

### What makes each component correct

- *Session table*: a live agent is in the table, a dead one leaves it; no
  interleaving of handlers makes `LastUse` go back or brings the process down.
- *StreamManager and handlers*: a session that ends leaves no stream behind;
  an agent never sees a request before its stream is known; a flush ends.
- *ServerEcho and runEcho*: a response is one status line, a body that is a
  prefix of what the agent said, and one end, whatever the agent says.
- *HTTP handler*: a request that found its agent gets an end.
- *AgentEcho*: what goes onto a stream is headers, data, end, in that order and
  whatever fails; every request is answered and the receive loop is free again.
- *Credentials and endpoints*: a request reaches the service its credentials
  were asked for, and controller and agent agree on who serves it.

- *The tunnel*: a response that looks complete to the client is; every request is
  answered and leaves nothing behind in the agent.
- *Keys*: a rotation invalidates nothing whose key is still there; a controller
  that is up can do what it is for.
- *Headers*: no credentials cross the tunnel, nor user names but as tokens.

The hazards behind these are listed, line by line, in `PROJECT.json`.

## 2. Modules

| module | models | extends or implements |
|---|---|---|
| `AgentSessions` | session table, reaper, `Hello`, `Ping`, ends of `WaitForRequest`, agent process with its clock | implements `SessionTable` |
| `SessionTable` | abstract: what the table of sessions promises | |
| `AgentSessionsProofs` | theorems about it | `AgentSessions` |
| `TunnelController` | `runAPIHandler`, `runEcho`, `WaitForRequest`, `DataFlowAgentToController`, StreamManager, ServerEcho, composed | implements `HTTPResponse` and `SessionTable` |
| `HTTPResponse` | abstract: what a client is promised about its response | |
| `TunnelControllerProofs` | theorems about it, the two refinements among them | `TunnelController` |
| `AgentEcho` | receive loop, `RunHTTPRequest`, `AgentEcho`, `RunDataSender` | implements `DataFlow` |
| `AgentEchoProofs` | theorems about it, the refinement among them | `AgentEcho` |
| `DataFlow` | abstract: what an agent puts onto the stream of a request | |
| `Tunnel` | both processes and the gRPC streams between them | composes `AgentEcho` and `TunnelController`; implements both, the latter with `Orderly = TRUE`, and `HTTPResponse` from end to end |
| `TunnelProofs` | theorems about it, the refinements among them | `Tunnel`, with `AgentEchoProofs` and `TunnelControllerProofs` |
| `TunnelDeliveryProofs` | where a request is on its way | `TunnelProofs` |
| `Endpoints` | operators: services of a configuration to endpoints, matching | |
| `ServiceAccess` | control API, agent start-up, identification of a request's service, `find` and `findEndpoint` | `Endpoints` |
| `ServiceAccessProofs` | theorems about it | `ServiceAccess` |
| `JWTRegistry` | operators: registries, signing, validation | |
| `Headers` | operators: what happens to headers at both ends | `JWTRegistry` |
| `ControllerKeys` | the controller started and stopped, its configuration and key files edited, requests as headers | `Headers` |
| `ControllerKeysProofs` | theorems about it | `ControllerKeys` |
| `MC*` | the small instances TLC checks | their module |

`AgentEcho` alone is shown to produce `DataFlow`; `TunnelController` with
`Orderly = FALSE` accepts an agent that may say anything, and the safety of
responses is checked and proved for that. With `Orderly = TRUE` it assumes an
agent that keeps the order, as its liveness does; `Tunnel` discharges that
assumption: the two processes composed implement it.

### AgentSessions

One agent process makes one session, so both are named by `Session`. Time is an
integer clock. Where the code takes a reading of `time.Now()` and uses it under
a lock taken later, the reading and the use are two actions:

| code | actions |
|---|---|
| `Hello` (reads the clock under the lock) | `Hello` |
| `Ping`: `findSession`; `time.Now()`; `touchSession` | `PingFinds`, `PingReadsClock`, `PingTouches` or `PingPanics` |
| `WaitForRequest`: `findSession` ... deferred `removeSession` | `WaitForRequest`, `WaitForRequestEnds` |
| `checkSessionTimeouts` | `ReaperWakes`, `ExpireOldSessions` |
| agent `main`, `pinger` | `AgentHello`, `AgentWelcomed`, `AgentPings`, `AgentPonged`, `AgentDies`, `AgentGivesUp` |

`touchSession` on a key that is gone assigns through a nil pointer; `PingPanics`
is that, and `up` is FALSE from then on. `Tick` does not pass the end of a sleep
or of an RPC deadline: the model's timers are exact, which stands for a
scheduler whose delays are small against the seconds of these constants. The
reaper's ticker may fire at any moment up to `ReapInterval` after its last.

`TimeoutAssumption`, `TickTime + 2 * RpcTimeout <= IdleTimeout`, is what keeps
live agents in the table; with the values of the code, 10 s + 2 * 20 s <= 60 s.
It is an assumption because the agent's flag `-tickTime` is free: above 20 s
nothing keeps the margin. It is needed twice over the deadline because the
reading a session is judged by may be as old as one whole ping, and the next one
may take its whole deadline after a pause.

### TunnelController

A channel operation and the one it meets are one action of both goroutines; a
goroutine whose action has no partner waits, for ever if there never is one. The
states of the handlers:

- `wfr[s]`, the `WaitForRequest` handler: `select`, `register`, `send`, then
  `remove`, `flush` and, with the lock held, `flushing`, `cancel` and `mark`.
- `flow[r]`, the data flow handler of a stream: `lookup`, `recv`, the state
  named after a `ServerEcho` call while it waits in its send, `unregister`.
- `http[r]`, the HTTP handler: `body` (reading), `offer` (in `session.out <-`),
  `echo` (in `runEcho`) and how it ended.

`lock` holds the session whose flush has the StreamManager's lock. `Register`,
`Unregister` and `Find` are single actions that need it free. `ServerEcho.Cancel`
sends on `doneChan` and only then sets `state`, with no synchronisation against
the data flow handler that may read it in between: `CancelStream` and
`FlushDelete` are separate, so both orders are explored. A stream is named by its
request, since each draws a fresh ULID. The clock is not in this module: a
session may expire if its agent is gone, which is what the theorem
`LiveAgentsStay` of `AgentSessionsProofs` allows. That the two modules mean the
same table is a theorem of each: both implement `SessionTable`.

### AgentEcho

`caller[r]` is where the goroutine that uses the echo is; a state named after a
message means it waits in `msgChan <-`. `Hand` is the meeting of that send with
the sender's receive, `SenderSends` the marshalling and writing of the message
afterwards, when the caller has gone on. A read of the response body is two
actions: `BodyFills`, from which `Body.Read` writes into the one read buffer, and
`ReadsData`, when it returns. `slice[r]` holds the reads whose bytes may be in the
slice that the sender has in its hand: its own, and any that has begun since. When
the sender marshals, it takes the bytes of one of them or a mixture (`Bytes`), and
`chunks` records which. Reads are numbered, and a message is the set of the reads
whose bytes it shows; its length, which stays that of its own read, is left out.
A send on a closed channel is a panic that ends the process. The goroutine that
answers a request for an unknown service is the receive loop itself, which is then
not in `Recv`. The end of `RunDataSender` is two actions, `SenderCloses` and
`SenderReturns`: in between it is in `stream.CloseAndRecv`, which waits for the
controller's handler to return.

### Tunnel

The variables are those of both sides, and the requests in flight (`inbox`) and
how far the controller has read each answer (`read`). Three steps are steps of
both sides: the connection breaks, the request is sent, the stream is opened.
The receive of the controller takes the next message of `wire`, where
`TunnelController` alone would choose one. `Window` is the flow control of gRPC: a
`Send` of data waits while that many are unread, and `CloseAndRecv` until the data
flow handler has returned (`Answered`), so that the goroutines of one process wait
for those of the other. The body a client has received is `Shown`: for each data event
runEcho has written, by its number, the data message with its contents. When the connection breaks, what was sent
may still be handled; the agent's own end is left to `AgentEcho`.

### ServiceAccess and Endpoints

A certificate is its purpose and the service it names, a token the service it
names; whether they are genuine is up to the TLS and JWT libraries and is taken
for granted. `asked` is history: the services a control client ever asked
credentials for. `main()` of an agent process is a sequence of actions because
its order matters: `StartEndpoints` comes before `MakeSecretsLoader`, as in the
code, and a service whose configuration cannot be decoded ends the agent there
(`ConfigurationFails`). `find` is modelled by the set of sessions it may return (map order is
arbitrary), `findEndpoint` by the first endpoint of the list. Names and types are
model values; an absent one is `Absent`, and `ValidType` stands for the regular
expression of `typeValid`.

### JWTRegistry, Headers and ControllerKeys

A key is what its file holds; a token records the key that signed it, and is
accepted by a registry that has that key under that name. Only the fifteen
minutes of a mutated header are left out: what is said of it holds meanwhile.
Headers are a function from five names (`Accept` stands for all others) to
sequences of values. `HTTPHeadersToPB` and `PBHEadersToHTTP` are split into the
condition on which they fail and what they return.

`proc` says where `main()` is. Every `logger.Fatal` is `Exits`, in any
goroutine, and so are a signal and a crash. `main()` reads in four steps,
between which the operator may edit configuration, key files or CA. A listener
is a name and a port, and finds out by itself, after `main()` has gone on, that
its port is taken. `kept` is history: the tokens whose key file has been there
ever since they were signed. A request is its headers: those it came with
(`exchange`), those in the tunnel (`pb`), those the service saw (`seen`), and
those of the answer (`reply`). Its token is any that was ever issued, by this
start of the controller or an earlier one, or none. It may fail for reasons of
other modules at any point (`RunAPIHandler`, `RequestFails`), or be lost with
the process. `AgentRegistry` is what an agent has for mutation: nothing, since
no code of `app/client` registers a keyset. So `PBHEadersToHTTP` undoes no mutation
there, and `unmutateURI`, which is called by the agent only, does nothing.

## 3. Runs

`tlc -config X.cfg M` for each; the times are for two workers.

| run | specification | checks | size |
|---|---|---|---|
| `AgentSessions_lifetime` | FairSpec | TypeOK, LiveAgentRegistered, PanicNeedsDeadAgent, LastUseMonotone, DeadAgentLeaves, TableContract | 290 000 states, 25 s |
| `TunnelController_responses` | FlushSpec | TypeOK, FlushComplete, AskedStreamIsKnown, StuckBehind, ResponseContract, TableContract, FlushCountsDown, FlushEndsOrIsStuck | 455 000 states, 60 s |
| `Tunnel_answers` | FairSpec | TypeOK, CompleteIsComplete, CanceledMeansLost, RequestOnItsWay, AgentIsOrderly, EndToEndContract, RequestAnswered, AgentFreed, StreamsLeave | 99 000 states, 75 s |
| `AgentEcho_answers` | FairSpec | TypeOK, PanicNeedsLostLink, AtMostOneAhead, WireContract, AnswerEnds | 68 000 states, 20 s |
| `ServiceAccess_routes` | Spec | TypeOK, ServedAsGranted, SentIsServable | 99 000 states, 135 s |
| `ControllerKeys_rotation` | FairSpec | TypeOK, KeptTokensVerify, ServingCanSign, UserSeenAsToken, CredentialsStayApart, AdvertisedIsServed | 544 000 states, 140 s |

Six more runs each find one property violated; section 6 says what they show.

### Bounds, and why they are enough

- *AgentSessions*: one session, `TickTime` 1, `RpcTimeout` 2, `IdleTimeout` 5,
  which is `TimeoutAssumption` with equality, so one unit less of slack fails.
  Sessions do not interact except through the reaper, which treats each alone
  (the theorems cover any number). `MaxTime` 13 leaves time for several pings
  and, after them, for the whole idle timeout of a dead agent; `DeadAgentLeaves`
  says explicitly that the session's timeout must lie before the horizon.
- *TunnelController*: two requests are what it takes for one stream to suffer
  from another (the lock, the flush of two streams, one session's channel).
  `MaxEvents` bounds the headers and data events of a stream; two allow headers
  twice, data before headers, and a body. Ends are not counted. Each request is
  one request: clients and agents do not repeat them. One session is enough for
  what the properties say of a session; that a flush takes no stream of another
  is proved for any number (`FlushIsComplete`).
- *Tunnel*: one request, two chunks and a window of one, so that every `Send` of
  a second chunk meets a full window. Two requests are too many states for TLC;
  the safety properties are proved for any number, and `TunnelController_responses`
  has two on the controller's side.
- *AgentEcho*: one request for a configured and one for an unknown service;
  two reads that return data, enough for one to be overwritten, in part or in whole,
  by the next.
- *ServiceAccess*: two agents with services of the same names and types; the
  first has one with inline credentials, one with a Kubernetes secret, one under
  two namespaces and one disabled, the second one service twice, first without
  its token. A third process has a configuration that cannot be decoded. `MaxAsked` is 1: one grant is enough for a request to be served
  where nothing was granted.

- *ControllerKeys*: two key names, each with its file or without; four
  configurations, of which one rotates both keys and has a listener on the port of
  the control API, one mutates with a key that may not be there, and one cannot be
  loaded. Two edits make every rotation of two steps (new file and new name, new
  name and old file removed), with any number of restarts between them. One token
  is issued and one request sent, in each of three shapes: token in our own header
  with Basic credentials and two user names besides, Bearer with an answer that has
  credentials and a user, and a certificate with a token header that stays and, for a
  user, the token that a service was given earlier.

Deadlock is checked in `ControllerKeys_rotation`, where something can always go
on. It is not in the other runs: agents stay away, clients are finished, and goroutines
may be blocked for good, which is what the liveness properties are about.

### Fairness

- *AgentSessions*: weak fairness of handlers and reaper (goroutines of a running
  process), of the agent's own steps, and of time. An agent need not die, say
  Hello, or stay alive.
- *TunnelController*, `FlushSpec`: only the goroutine that flushes.
  `ServeFairness` and `CloseFairness`: weak fairness for steps only their own goroutine can
  disable; strong fairness for taking a lock, receiving on a channel and the
  cases of a `select`, which others can disable in between: Go's RWMutex and
  channels queue their waiters and `select` picks among ready cases at random.
  `EnvironmentFairness`: the transport notices a lost connection
  (`app/server/main.go:73-82` sets the keepalive), an agent that is there calls
  `WaitForRequest`, opens its data flows, and ends its answers. Nothing forces a
  client to leave or a connection to be lost.
- *AgentEcho*: goroutines run, HTTP servers answer and response bodies end.
  Whether the link breaks is free, and so is whether a `Send` or a `CloseAndRecv`
  returns: both wait for the controller, on a link that is up without end.
- *Tunnel*: `ServeFairness` and, for the agent, weak fairness of its
  goroutines, of delivery in both directions and of the opening of streams, while
  the link is up. A `Send` that waits for the window is disabled, not unfair. No
  fairness for its breaking, nor for what the controller does after.
- *ControllerKeys*: the goroutines of the listeners run. Nothing makes an operator
  edit, `main()` start or a client ask.

## 4. Properties

*Sessions.* `LiveAgentRegistered`: an agent that was greeted and has not exited is
in the table. `PanicNeedsDeadAgent`: only an agent that died with a ping in
flight can make `touchSession` panic. `LastUseMonotone`: although readings are
taken outside the lock, `LastUse` never goes back. `DeadAgentLeaves`: a session
whose agent died leaves, even if `WaitForRequest` was never called for it.
`TableContract`: `AgentSessions` implements `SessionTable`. A session is entered
once, by its `Hello`, leaves only when its agent is gone, and nothing brings it
back: a touch that was under way when the reaper or `removeSession` came does not
enter it again. `TunnelController` implements the same, by its own path:
the handler that takes a session out, after a failed `Send` as after its context is
done, does so for a connection that is lost.

*Responses.* `ResponseContract`: `TunnelController` implements `HTTPResponse`
under the mapping `Response`: `phase` from `http`, `said` from the data events
`ServerEcho.Data` accepted, the rest as it is. A response that ended with the
agent's Done has all the data that were said. `FlushComplete`: a session whose
handler has returned has no stream left. `AskedStreamIsKnown`: an agent that
answers finds its stream, or its session is being flushed. `FlushEndsOrIsStuck`:
a flush ends, or is in the `Cancel` of a response that had already ended
(section 6). `StuckBehind`: such a response is one whose client has left, or
whose data flow waits, in `Unregister`, for the lock that this flush holds.
`FlushCountsDown`: each step of a flush takes a stream off its list or gets on
with the one in its hand, it returns only with the list empty, and meanwhile
nobody adds a stream or takes away one that is not on the list.

*The tunnel.* `EndToEndContract`: the two processes implement `HTTPResponse` with
the data messages that the agent's sender has marshalled, by their contents, for
`said`, and `Shown` for `body`; the client's body is at any time a beginning of
them, and all of them when the response is complete, after which the agent sends no
more. `CompleteIsComplete`: a response that ends with the agent's Done has one
status line and every data message the agent has marshalled, and there are as many
of these as reads that returned data. What they do not say: what a message shows of the body, which
is `AtMostOneAhead` (and `AgentEcho_buffer` in section 6), and that the service's
body was read to its end (a read error ends in Done too, section 6). `CanceledMeansLost`: a
`Cancel` makes `runEcho` return without a status, and net/http then says 200
with no body; that happens only when the agent has been lost. `AgentIsOrderly`:
the agent is what `Orderly = TRUE` assumes. `RequestOnItsWay`: while the
connection is up, a request that `runEcho` waits for is in one place, and one
only: in the hands of its `WaitForRequest` handler, on the way to the agent, or
with the agent, and then its data flow is known to the controller and there is
more to come on it. It is what an answer needs in every state; `RequestAnswered`
is that it comes: a request that has found its session ends, unless the
connection is lost. `AgentFreed`: the agent's goroutines for a request end,
unless the connection is lost or the client has left. The second exception is
needed: nobody receives from the data flow of a client that left, the window
fills, and the agent's reader stays in `Send` until the connection goes.
`StreamsLeave`: with the same exceptions a data flow handler returns and its
stream leaves the `StreamManager`, so the table does not grow with the requests
served.

*The wire.* `WireContract`: `AgentEcho` implements `DataFlow`. `AnswerEnds`: every
request gets an end on its stream, its sender returns, and the receive loop is in
`Recv` again, unless the link breaks or the controller leaves the sender in `Send` or
`CloseAndRecv`, as it does when a client has left; nothing in the agent itself holds
an echo up. `PanicNeedsLostLink` and `AtMostOneAhead` say how far two faults of
section 6 reach: a send on the closed `msgChan` takes the agent down only when its
connection is lost already, and what may go out in place of a chunk, since reader
and sender share the buffer, are bytes of that chunk and of the next one, alone or
mixed, and of no later one.

*Access.* `ServedAsGranted`: a request on the HTTPS port is performed only by an
endpoint, of the agent, type and name, that a control client has asked
credentials for. The three names pass through seven functions that order them
differently. `SentIsServable`: `find` on the controller and `findEndpoint` on the
agent agree although only the first looks at `Configured`: a request that was
sent is never answered "no such service on agent", and finds an endpoint with no
processor (a panic of the agent) only if two endpoints have one name and type.

*Keys.* `KeptTokensVerify`: a token verifies as long as its key file is there,
whichever key signs now. `ServingCanSign`: configuration and keys are read one
after the other and may be edited in between, yet a controller that has started
its listeners can sign service and agent tokens. `AdvertisedIsServed`: one that
stays up listens on every port it has, with a certificate that names every host
it hands out; a port used twice ends it.

*Headers.* `UserSeenAsToken`: of the user names of a request a service sees the
first, and that only as a token of the controller that forwarded it, never in the
clear; such a token, sent back as a user name, is signed again like any other
(section 6); and a controller started later still takes it for good while its key file
is there. `CredentialsStayApart`: a
service sees the credentials of its endpoint and no others, nor the token that
identified the request; the client sees none of the service's.

Each property has a mutant of a mapped definition, kept beside it in the module
and marked `Mutant:`, with which its run fails.

## 5. Theorems

For all values of the constants that satisfy the named assumptions.

*AgentSessionsProofs*: `TypeCorrect`, `LiveAgentsStay`, `OnlyDeadAgentsPanic`,
`LastUseNeverBack` and `TableIsKept`, the refinement of `SessionTable`, from
`Invariance`. The invariant `IInv` adds to the types that no clock reading is
ahead of the clock, and, per session, how old `LastUse` can be: at most one
deadline older than the moment a sleeping agent fell asleep, and a pause more
for one that is pinging, whose reading is no older than the start of its ping.
This is where `TimeoutAssumption` enters: it bounds `reaperNow - lastUse`.
`LiveAgentRegistered` alone is not inductive: a state in which `LastUse` is
older than any ping can have left it satisfies it, and violates it when the
reaper comes. For the refinement `EnteredInv` is part of it: a session that is
in the table has had its Hello handled. Since a process says Hello once and
`Handled` never ends, a session is entered only from "none", and what is "out"
stays out.

*TunnelControllerProofs*: `TypeCorrect`, `FlushIsComplete`, `AskedStreamsAreKnown`,
`StuckOnlyBehind`, `FlushGetsOn`, `TableIsKept` and `KeepsContract`, the refinements of
`SessionTable` and of `HTTPResponse`, from `Invariance`. The invariant has these
parts. Of a connection: a session in the table has one, and a handler that has left its
loop has lost it. Of a session's handler: it holds the lock exactly
while it flushes, its targets are then exactly the streams of its session, and
the request in its hand is its own. Of a stream: its session's handler is still
there to flush it, and an agent that was asked will find it or is being flushed. Of
a stream whose response has ended (`EndedInv`): its data flow is about to unregister it,
or the flush that canceled it about to delete it; `StuckBehind`, which speaks only of
the stream in a flush's hand, does not say this of those on its list.
Of a response: how far its status line and body are for each state of the echo
and of the data flow; a flow that waits to hand over data is one ahead of the
body. The refinement has one
step per action, which maps to a step of `HTTPResponse` or to a stutter.

*TunnelProofs*: `TypeCorrect`, `ResponsesAreComplete`, `CancelsAreLosses` and
three refinements, from `Invariance`: `TheAgentIsOrderly`, of the controller
with an orderly agent, `TheAgentIsItself`, of `AgentEcho`, so that the theorems
of both sides carry over to the tunnel, and `ClientSeesWhatIsSaid`, of
`HTTPResponse` from end to end. The invariant is that of both sides, each by the
theorems of its own module, and what relates them while the connection is up: a
stream is headers, data and ends; the reads are those sent, those held and
those in hand; the events the controller has accepted are those it has read. Each step
is shown to be a step of either module or a stutter. `CompleteIsComplete` alone
is not inductive: that the data flow has accepted everything when it sees the
end needs that the end was sent last, and that no chunk was in hand then.
`EndToEndContract` is proved on top of `ResponseContract`, which has the same
client but what the controller accepted for what was said: `SaidInv` says that
the events written to a client are the data messages of its stream, each by its
number, none skipped, and no more than the agent has marshalled. It holds whether or
not the connection is up.

*TunnelDeliveryProofs*: `RequestsAreOnTheirWay`, from an invariant on top of that of
`TunnelProofs`. `PlaceInv` says that the requests the agent was sent are those on the
way to it and those it has, each once; `WaitInv`, while the connection is up,
that a request that waits has been sent or is in its handler's hand, and that its
data flow has neither been turned away nor come to its end. `RequestOnItsWay` alone is not
inductive: it does not see that a request is sent once, nor that a stream just read to
its end has ended the response with it (`AnswersCome`), which is a matter of
the invariants of both sides.

*ControllerKeysProofs*: `TypeCorrect`, `KeptTokensVerifyAlways`,
`ServingCanSignAlways`, `UserSeenAsTokenAlways`, `CredentialsStayApartAlways` from
`Invariance`, and `AdvertisedConsistently`, the safety half of `AdvertisedIsServed`: no
two listeners share a port, and the certificate names every advertised host. The
invariant says that a kept token's file holds its key, that a process which has
read the files of an issuer has the key of each of his kept tokens, that the
registries have the loaded keysets, and how the headers at each point of a
request's way relate to what it came with. `KeptTokensVerify` alone is not inductive:
it speaks only of registered keysets, and a token kept while the process is still
loading must be in what it has loaded.

*AgentEchoProofs*: `TypeCorrect`, `OnlyLostAgentsPanic`, `BufferAtMostOneAhead`
and `KeepsWireContract`, the refinement of `DataFlow`, from `Invariance`. The
invariant speaks only while the link is up and the context live: nothing goes
onto the wire otherwise, and neither comes back. It says what kind was said last
(the one in the sender's hand, or else the last on the wire) for each place the
caller can be in, that the message in hand may follow the last one on the wire,
and that the sender returns only once the echo is closed and its `Done` is out.
`Cancel` is possible only when the context is done, so while the invariant
speaks no caller is there. `WireContract` alone is not inductive: it does not
see the message in the sender's hand, nor that the caller, which goes on while
the sender has yet to write it, has chosen its next place accordingly. The other
two theorems need `LossInv` as well: the context ends only with the link, and
(`CountInv`) while both last every read is on the wire, in the sender's
hand or in the caller's. Of those in a hand there are two at most, so the slice in the
sender's hand can only hold bytes of its own read and the next. `AtMostOneAhead` alone
does not see the hands.

*ServiceAccessProofs*: `TypeCorrect`, `GrantsAreKept`, `SentRequestsAreServable`,
from `Invariance`. The invariant follows a request: its credentials are among
those asked for, what it searches is what its credentials say, the process it
was sent to has a configured endpoint for it and is past its start-up, so that
its endpoints no longer change. `FindEndpointFinds` is the lemma about
`findEndpoint`. `ConfigurationAssumption` says that what `ConfigureEndpoints`
returns for the constant `Services` is a sequence of endpoints; it is an
assumption, evaluated by TLC for the instance, because concatenation of a
sequence of sequences is defined by recursion, which is out of the prover's reach.

*Only model-checked*: everything temporal that needs fairness
(`DeadAgentLeaves`, `FlushEndsOrIsStuck`, `RequestAnswered`, `AgentFreed`,
`StreamsLeave`, `AnswerEnds`, `AdvertisedIsServed`), since TLAPS here does not
treat ENABLED.

## 6. Where the code and what is said of it disagree

Each is a run that finds one property, quoted from the repository, violated.

- `AgentSessions_panic`: a `Ping` whose session is removed between `findSession`
  and `touchSession` (`sessions.go:161`) panics instead of being refused.
- `TunnelController_cancel`: a flush calls `ServerEcho.Cancel` on a stream whose
  `runEcho` has returned; the send on `doneChan` waits for good, with the
  StreamManager's lock held (`stream.go:86`). Every other stream waits with it.
  `StuckOnlyBehind` proves which responses can do that.
- `TunnelController_orphan`: a data flow that ends with code Canceled unregisters
  its stream without ending the response (`server.go:153`): when it wins against
  the flush, `runEcho` waits until its client leaves.
- `TunnelController_forward`: a request has found a session that is connected and
  whose handler waits for requests. While it waits in `session.out <-`
  (`service_server.go:212`) the connection is lost and the handler returns: the send
  waits for good, and would even without its client.
- `AgentEcho_fail`: after `Cancel` the read loop goes on, and the read error of
  the canceled context makes `Fail` send on a closed channel
  (`generic_endpoint.go:375`). The process is on its way out then, since the
  context ends only with the receive loop: `OnlyLostAgentsPanic` proves that there is no
  other way to the panic.
- `AgentEcho_buffer`: the read buffer is passed on uncopied
  (`generic_endpoint.go:360`), and may be refilled before or while it is marshalled: a
  message shows the next chunk or a mixture. `BufferAtMostOneAhead` proves that no
  later read can reach it.

Met while modelling, visible in every behaviour and so without a run of their own:

- `app/client/main.go:374` configures the endpoints before `secretsLoader` is set
  at line 389, so services with `secretName` are never configured.
- `cnc-server.go:317` issues control credentials with the purpose `agent`, which
  `authenticate` at line 96 refuses.
- `secureAPIHandlerMaker` (`service_server.go:166`) does not use the destination its
  listener is configured with.
- A data flow handler whose `runEcho` has returned stays in its channel send, and
  its stream in the table, until the connection is flushed (or for good). With its
  window full the agent's sender stays in `Send`, and its reader with it; for an
  unknown service that reader is the receive loop (`app/client/main.go:149`).
- `generic_endpoint.go:373`: a read error after the headers ends in `Fail`, which can
  only say Done then; a truncated body looks complete to the client.
- `app/client/main.go:407` connects to a fixed address.
- `mutateheaders.go:36-43` says that the header of an agent is validated "and if found
  to be secure and valid, the actual service will be called with the decoded value",
  and draws a controller that unmutates. `PBHEadersToHTTP` and `unmutateURI` are called
  in the agent only, which registers no mutation keyset, and the controller's
  outgoing endpoints are commented out (`app/server/main.go:321`). Services see the
  token, and one that comes back in a request on a service port is mutated again.
- `app/server/main.go:169` looks at the name of the mutating key, not for the key:
  without it every request with a user name is answered 503.
- `service_server.go:119` deletes `X-Opsmx-Token` only where it looks for it; a
  request with a service certificate carries it on to the service.
- `generic_endpoint.go:274-284` says that it trims a bearer token, and sends it as it was.
- `server.go:176` takes `useTLS` and does not use it: the agents' port always has TLS.
- `app/server/main.go:261` reads the tracing address from the environment only when
  one is given already.

## 7. What is not modelled

- The bytes: methods, bodies, the spelling of URIs and headers, JSON and YAML,
  base64, and white space in credentials.
- A listener configured with port 0, which takes any free one.
- TLS, X.509 and the verification of JWTs, with their times; ULIDs are taken to be
  unique.
- gRPC below its streams and their windows: message size limits, retries. A stream
  delivers in order or breaks. That a listener fails for another reason than its
  port, and a key file that cannot be read or is empty (`main()` ends as for one that
  is missing).
- Memory: `io.ReadAll` of a request's body is not limited.
- Flags, tracing, the tools, logging, metrics, the generated code.
- The data path across a restart of the controller: it keeps no session or stream,
  and its agents exit when their connection does. Tokens and keys are in
  `ControllerKeys`.
- The agent's configuration file and `get-creds`: a file decoded, and one call of
  the control API whose answer is written to files.

## 8. Plan

Done, in the order of their importance: sessions (`AgentSessions`), the data path
(`TunnelController` with `HTTPResponse`), its other end (`AgentEcho` with `DataFlow`),
access (`Endpoints`, `ServiceAccess`), the two ends together (`Tunnel`), keys and
headers (`JWTRegistry`, `Headers`, `ControllerKeys`), and the theorems of section 5.

What would come next:

1. Several requests per client and several connections per agent name in
   `ServiceAccess`, with restarts of agent processes.
2. `Tunnel` with an agent that outlives a connection, should the code come to
   reconnect: today it exits.
3. Two requests in the TLC instance of `Tunnel`. With no chunks the invariants behind
   `RequestOnItsWay` have been checked for two (9 million states), too many for a run
   that is kept; its theorem is for any number.
4. `UserSeenAsToken` and `CredentialsStayApart` for several requests at a time, which
   share nothing but the keys.
