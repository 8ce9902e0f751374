---------------------------- MODULE AgentSessions ----------------------------
(***************************************************************************)
(* The controller's table of agent sessions (app/server/sessions.go), the  *)
(* RPC handlers that use it (Hello, Ping and the start and end of          *)
(* WaitForRequest in app/server/server.go), the reaper that drops idle     *)
(* sessions, and the agent process that calls those RPCs                   *)
(* (app/client/main.go): it says Hello once, then pings every TickTime and *)
(* exits as soon as an RPC fails.                                          *)
(*                                                                         *)
(* A session identifier is a fresh ULID, so the key {AgentID, SessionID}   *)
(* of the code is determined by the session, and one agent process makes   *)
(* one session: both are indexed by Session here.  Time is an integer      *)
(* clock shared by the agents and the controller; the code reads it with   *)
(* time.Now() before it takes the lock that the reading is used under, so  *)
(* reading and using it are separate steps.                                *)
(***************************************************************************)
EXTENDS Integers

CONSTANTS
    Session,        \* the session identifiers Hello hands out
    IdleTimeout,    \* server.go:184, idleTimeout (60 s)
    ReapInterval,   \* sessions.go:165, period of the reaper's ticker (10 s)
    TickTime,       \* client/main.go:58, pause between two pings (10 s)
    RpcTimeout,     \* client/main.go:92, deadline of Hello and Ping (20 s)
    MaxTime         \* bound on the clock

ASSUME ClockAssumption ==
    /\ IdleTimeout \in Nat
    /\ ReapInterval \in Nat \ {0}
    /\ TickTime \in Nat
    /\ RpcTimeout \in Nat
    /\ MaxTime \in Nat

\* A session survives the worst case of one ping: a pause, the whole deadline
\* of that ping, and the deadline the reading of the ping before may be old.
ASSUME TimeoutAssumption == TickTime + 2 * RpcTimeout <= IdleTimeout

VARIABLES
    now,        \* the clock
    up,         \* FALSE once the controller process has panicked
    agents,     \* AgentSessions.agents: the sessions in the table
    lastUse,    \* AgentContext.LastUse
    rpc,        \* where the controller is in the session's Hello or Ping
    reading,    \* the local variable now of Ping
    waiter,     \* where the session's WaitForRequest handler is
    proc,       \* where the agent process is
    since,      \* when the agent process fell asleep or started its RPC
    reaper,     \* where checkSessionTimeouts is
    reaperDue,  \* when its ticker fires next
    reaperNow   \* the local variable now of checkSessionTimeouts

controllerVars == <<up, agents, lastUse, rpc, reading, waiter>>
agentVars == <<proc, since>>
reaperVars == <<reaper, reaperDue, reaperNow>>
vars == <<now, controllerVars, agentVars, reaperVars>>

RpcStates == {"idle", "hello", "ping", "found", "clocked", "ok", "refused"}
InController == {"hello", "ping", "found", "clocked"}

TypeOK ==
    /\ now \in 0..MaxTime
    /\ up \in BOOLEAN
    /\ agents \subseteq Session
    /\ lastUse \in [Session -> 0..MaxTime]
    /\ rpc \in [Session -> RpcStates]
    /\ reading \in [Session -> 0..MaxTime]
    /\ waiter \in [Session -> {"none", "called", "waiting", "refused", "closed"}]
    /\ proc \in [Session -> {"off", "hello", "asleep", "pinging", "exited"}]
    /\ since \in [Session -> 0..MaxTime]
    /\ reaper \in {"waiting", "expiring"}
    /\ reaperDue \in Nat
    /\ reaperNow \in 0..MaxTime

Init ==
    /\ now = 0
    /\ up = TRUE
    /\ agents = {}
    /\ lastUse = [s \in Session |-> 0]
    /\ rpc = [s \in Session |-> "idle"]
    /\ reading = [s \in Session |-> 0]
    /\ waiter = [s \in Session |-> "none"]
    /\ proc = [s \in Session |-> "off"]
    /\ since = [s \in Session |-> 0]
    /\ reaper = "waiting"
    /\ reaperDue = ReapInterval
    /\ reaperNow = 0

-----------------------------------------------------------------------------
(* The agent process. *)

\* Agent process s calls an RPC that the controller will handle from state m.
Call(s, at, m) ==
    /\ proc' = [proc EXCEPT ![s] = at]
    /\ since' = [since EXCEPT ![s] = now]
    /\ rpc' = [rpc EXCEPT ![s] = m]

AgentHello(s) ==
    /\ proc[s] = "off"
    /\ Call(s, "hello", "hello")
    /\ UNCHANGED <<now, up, agents, lastUse, reading, waiter, reaperVars>>

\* Hello is answered: the agent starts waitForRequest and the pinger, which
\* sleeps first.
AgentWelcomed(s) ==
    /\ proc[s] = "hello" /\ rpc[s] = "ok"
    /\ proc' = [proc EXCEPT ![s] = "asleep"]
    /\ since' = [since EXCEPT ![s] = now]
    /\ rpc' = [rpc EXCEPT ![s] = "idle"]
    /\ waiter' = [waiter EXCEPT ![s] = "called"]
    /\ UNCHANGED <<now, up, agents, lastUse, reading, reaperVars>>

AgentPings(s) ==
    /\ proc[s] = "asleep"
    /\ now = since[s] + TickTime
    /\ Call(s, "pinging", "ping")
    /\ UNCHANGED <<now, up, agents, lastUse, reading, waiter, reaperVars>>

AgentPonged(s) ==
    /\ proc[s] = "pinging" /\ rpc[s] = "ok"
    /\ proc' = [proc EXCEPT ![s] = "asleep"]
    /\ since' = [since EXCEPT ![s] = now]
    /\ rpc' = [rpc EXCEPT ![s] = "idle"]
    /\ UNCHANGED <<now, up, agents, lastUse, reading, waiter, reaperVars>>

\* The process or its connection dies.  What the controller is doing for it
\* goes on.
AgentDies(s) ==
    /\ proc[s] \in {"hello", "asleep", "pinging"}
    /\ proc' = [proc EXCEPT ![s] = "exited"]
    /\ UNCHANGED <<now, controllerVars, since, reaperVars>>

\* An RPC is refused or passes its deadline, or the receive loop fails: main
\* returns.
AgentGivesUp(s) ==
    /\ \/ rpc[s] = "refused"
       \/ waiter[s] = "refused"
       \/ proc[s] \in {"hello", "pinging"} /\ now = since[s] + RpcTimeout
    /\ AgentDies(s)

-----------------------------------------------------------------------------
(* The controller's handlers. *)

\* Mutant: the session stores when it expires, not when it was used.
HelloStoresDeadline(s) ==
    /\ rpc[s] = "hello"
    /\ agents' = agents \cup {s}
    /\ lastUse' = [lastUse EXCEPT ![s] = now + IdleTimeout]
    /\ rpc' = [rpc EXCEPT ![s] = "ok"]
    /\ UNCHANGED <<now, up, reading, waiter, agentVars, reaperVars>>

\* registerSession reads the clock under the lock.
Hello(s) ==
    /\ rpc[s] = "hello"
    /\ agents' = agents \cup {s}
    /\ lastUse' = [lastUse EXCEPT ![s] = now]
    /\ rpc' = [rpc EXCEPT ![s] = "ok"]
    /\ UNCHANGED <<now, up, reading, waiter, agentVars, reaperVars>>

PingFinds(s) ==
    /\ rpc[s] = "ping"
    /\ rpc' = [rpc EXCEPT ![s] = IF s \in agents THEN "found" ELSE "refused"]
    /\ UNCHANGED <<now, up, agents, lastUse, reading, waiter, agentVars, reaperVars>>

PingReadsClock(s) ==
    /\ rpc[s] = "found"
    /\ reading' = [reading EXCEPT ![s] = now]
    /\ rpc' = [rpc EXCEPT ![s] = "clocked"]
    /\ UNCHANGED <<now, up, agents, lastUse, waiter, agentVars, reaperVars>>

\* Mutant: the touch takes the time of the last reaper run for the current time.
PingTouchesCoarse(s) ==
    /\ rpc[s] = "clocked"
    /\ s \in agents
    /\ lastUse' = [lastUse EXCEPT ![s] = reaperNow]
    /\ rpc' = [rpc EXCEPT ![s] = "ok"]
    /\ UNCHANGED <<now, up, agents, reading, waiter, agentVars, reaperVars>>

\* Mutant: touchSession enters a session that is not there.
PingTouchesOrEnters(s) ==
    /\ rpc[s] = "clocked"
    /\ agents' = agents \cup {s}
    /\ lastUse' = [lastUse EXCEPT ![s] = reading[s]]
    /\ rpc' = [rpc EXCEPT ![s] = "ok"]
    /\ UNCHANGED <<now, up, reading, waiter, agentVars, reaperVars>>

PingTouches(s) ==
    /\ rpc[s] = "clocked"
    /\ s \in agents
    /\ lastUse' = [lastUse EXCEPT ![s] = reading[s]]
    /\ rpc' = [rpc EXCEPT ![s] = "ok"]
    /\ UNCHANGED <<now, up, agents, reading, waiter, agentVars, reaperVars>>

\* touchSession looks the key up again, gets nil, and assigns through it.
PingPanics(s) ==
    /\ rpc[s] = "clocked"
    /\ s \notin agents
    /\ up' = FALSE
    /\ UNCHANGED <<now, agents, lastUse, rpc, reading, waiter, agentVars, reaperVars>>

WaitForRequest(s) ==
    /\ waiter[s] = "called"
    /\ waiter' = [waiter EXCEPT ![s] = IF s \in agents THEN "waiting" ELSE "refused"]
    /\ UNCHANGED <<now, up, agents, lastUse, rpc, reading, agentVars, reaperVars>>

\* Mutant: the handler gives up, and drops the session, while its agent is there.
WaitForRequestEndsEarly(s) ==
    /\ waiter[s] = "waiting"
    /\ agents' = agents \ {s}
    /\ waiter' = [waiter EXCEPT ![s] = "closed"]
    /\ UNCHANGED <<now, up, lastUse, rpc, reading, agentVars, reaperVars>>

\* The handler's context is done when the agent is gone; nothing else ends it
\* here, in particular not the removal of its session.
WaitForRequestEnds(s) ==
    /\ waiter[s] = "waiting"
    /\ proc[s] = "exited"
    /\ agents' = agents \ {s}
    /\ waiter' = [waiter EXCEPT ![s] = "closed"]
    /\ UNCHANGED <<now, up, lastUse, rpc, reading, agentVars, reaperVars>>

-----------------------------------------------------------------------------
(* The reaper, checkSessionTimeouts. *)

\* A ticker keeps its own schedule: it fires again at most ReapInterval later.
ReaperWakes ==
    /\ reaper = "waiting"
    /\ now >= reaperDue
    /\ reaper' = "expiring"
    /\ reaperNow' = now
    /\ \E due \in (now + 1)..(now + ReapInterval) : reaperDue' = due
    /\ UNCHANGED <<now, controllerVars, agentVars>>

\* Mutant: a session expires at the limit already.
IdleAtLimit(s) == lastUse[s] + IdleTimeout <= reaperNow

\* Mutant: only sessions with a WaitForRequest handler expire.
IdleAndWaiting(s) == lastUse[s] + IdleTimeout < reaperNow /\ waiter[s] = "waiting"

Idle(s) == lastUse[s] + IdleTimeout < reaperNow

ExpireOldSessions ==
    /\ reaper = "expiring"
    /\ agents' = {s \in agents : ~Idle(s)}
    /\ reaper' = "waiting"
    /\ UNCHANGED <<now, up, lastUse, rpc, reading, waiter, agentVars, reaperDue, reaperNow>>

-----------------------------------------------------------------------------

\* Time passes, but a sleep and a deadline end when they are due.
Tick ==
    /\ now < MaxTime
    /\ \A s \in Session :
        /\ proc[s] = "asleep" => now < since[s] + TickTime
        /\ proc[s] \in {"hello", "pinging"} => now < since[s] + RpcTimeout
    /\ now' = now + 1
    /\ UNCHANGED <<controllerVars, agentVars, reaperVars>>

AgentStep(s) ==
    \/ AgentHello(s) \/ AgentWelcomed(s)
    \/ AgentPings(s) \/ AgentPonged(s)
    \/ AgentDies(s) \/ AgentGivesUp(s)

HandlerStep(s) ==
    \/ Hello(s)
    \/ PingFinds(s) \/ PingReadsClock(s) \/ PingTouches(s) \/ PingPanics(s)
    \/ WaitForRequest(s) \/ WaitForRequestEnds(s)

ReaperStep == ReaperWakes \/ ExpireOldSessions

\* A panic in a handler ends the controller's process.
Next ==
    /\ up
    /\ (\E s \in Session : AgentStep(s) \/ HandlerStep(s)) \/ ReaperStep \/ Tick

\* Handlers and the reaper are goroutines of a running process, time passes,
\* and the sleeps and deadlines of an agent process end.
Fairness ==
    /\ \A s \in Session : WF_vars(up /\ HandlerStep(s))
    /\ \A s \in Session :
        WF_vars(up /\ (AgentWelcomed(s) \/ AgentPings(s) \/ AgentPonged(s) \/ AgentGivesUp(s)))
    /\ WF_vars(up /\ ReaperStep)
    /\ WF_vars(up /\ Tick)

Spec == Init /\ [][Next]_vars

FairSpec == Spec /\ Fairness

-----------------------------------------------------------------------------
(* What the table promises. *)

Greeted(s) ==
    \/ proc[s] \in {"asleep", "pinging"}
    \/ proc[s] = "hello" /\ rpc[s] = "ok"

\* An agent process that has been greeted and has not exited is in the table:
\* neither the reaper nor a handler drops it, however the clock readings, the
\* reaper and the pings interleave (expireOldSessions, touchSession).
LiveAgentRegistered == up => \A s \in Session : Greeted(s) => s \in agents

\* The panic of touchSession needs an agent that died with a ping in flight:
\* a live agent never brings the controller down.
PanicNeedsDeadAgent ==
    ~up => \E s \in Session : rpc[s] = "clocked" /\ s \notin agents /\ proc[s] = "exited"

\* A clock reading is taken before the lock is: still LastUse never goes back.
LastUseMonotone ==
    [][\A s \in Session : lastUse'[s] >= lastUse[s]]_vars

\* Hello has been handled for s.
Handled(s) == proc[s] # "off" /\ rpc[s] # "hello"

\* A session is entered by its Hello alone, leaves the table only when its agent is
\* gone, whether the reaper or the end of WaitForRequest takes it out, and nothing,
\* no touch that was under way nor a late Hello, brings it back.
Table == INSTANCE SessionTable WITH
    entry <- [s \in Session |->
                IF s \in agents THEN "in" ELSE IF Handled(s) THEN "out" ELSE "none"],
    gone <- {s \in Session : proc[s] = "exited"}

TableContract == Table!Spec

\* Whether its WaitForRequest was ever called or not, the session of a dead
\* agent leaves the table (within the horizon MaxTime of the clock).
DeadAgentLeaves ==
    \A s \in Session :
        (/\ proc[s] = "exited"
         /\ rpc[s] \notin InController
         /\ lastUse[s] + IdleTimeout + ReapInterval < MaxTime)
        ~> (s \notin agents \/ ~up)

\* server.go:69: a Ping for a session that is not there is answered "Hello must
\* be called first"; no Ping takes the controller down.
PingNeverPanics == up
=============================================================================
