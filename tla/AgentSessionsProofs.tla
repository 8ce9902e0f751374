------------------------- MODULE AgentSessionsProofs -------------------------
(***************************************************************************)
(* Theorems of AgentSessions, for every number of sessions and every choice *)
(* of the periods and deadlines that satisfies its assumptions.             *)
(***************************************************************************)
EXTENDS AgentSessions, TLAPS

(***************************************************************************)
(* The inductive invariant.  A ping refreshes LastUse with a reading taken  *)
(* while the ping was in flight, so each state of the agent process bounds  *)
(* from below how old LastUse can be.                                       *)
(***************************************************************************)
ClocksBehind ==
    /\ reaperNow <= now
    /\ \A s \in Session : since[s] <= now /\ lastUse[s] <= now /\ reading[s] <= now

OffInv(s) == proc[s] = "off" => rpc[s] = "idle"

HelloInv(s) ==
    proc[s] = "hello" =>
        /\ rpc[s] \in {"hello", "ok"}
        /\ now <= since[s] + RpcTimeout
        /\ rpc[s] = "ok" => s \in agents /\ since[s] <= lastUse[s]

AsleepInv(s) ==
    proc[s] = "asleep" =>
        /\ rpc[s] = "idle"
        /\ s \in agents
        /\ now <= since[s] + TickTime
        /\ since[s] <= lastUse[s] + RpcTimeout

PingingInv(s) ==
    proc[s] = "pinging" =>
        /\ rpc[s] \in {"ping", "found", "clocked", "ok"}
        /\ s \in agents
        /\ now <= since[s] + RpcTimeout
        /\ since[s] <= lastUse[s] + RpcTimeout + TickTime
        /\ rpc[s] = "clocked" => since[s] <= reading[s]
        /\ rpc[s] = "ok" => since[s] <= lastUse[s]

ReadingInv(s) == rpc[s] = "clocked" => lastUse[s] <= reading[s]

EnteredInv(s) == s \in agents => Handled(s)

SessionInv(s) ==
    /\ OffInv(s) /\ HelloInv(s) /\ AsleepInv(s) /\ PingingInv(s)
    /\ ReadingInv(s) /\ EnteredInv(s)

IInv ==
    /\ TypeOK
    /\ ClocksBehind
    /\ \A s \in Session : SessionInv(s)
    /\ PanicNeedsDeadAgent

-----------------------------------------------------------------------------
(* Type correctness. *)

LEMMA InitTypeOK == Init => TypeOK
  BY ClockAssumption DEF Init, TypeOK, RpcStates

\* Every action keeps every variable in its type; the clock readings stay in
\* 0..MaxTime because they are readings of now.
LEMMA NextTypeOK == TypeOK /\ [Next]_vars => TypeOK'
<1> SUFFICES ASSUME TypeOK, [Next]_vars PROVE TypeOK'
  OBVIOUS
<1> USE ClockAssumption DEF TypeOK, RpcStates, controllerVars, agentVars, reaperVars
<1>1. ASSUME NEW s \in Session, AgentHello(s) PROVE TypeOK'
  BY <1>1 DEF AgentHello, Call
<1>2. ASSUME NEW s \in Session, AgentWelcomed(s) PROVE TypeOK'
  BY <1>2 DEF AgentWelcomed
<1>3. ASSUME NEW s \in Session, AgentPings(s) PROVE TypeOK'
  BY <1>3 DEF AgentPings, Call
<1>4. ASSUME NEW s \in Session, AgentPonged(s) PROVE TypeOK'
  BY <1>4 DEF AgentPonged
<1>5. ASSUME NEW s \in Session, AgentDies(s) PROVE TypeOK'
  BY <1>5 DEF AgentDies
<1>6. ASSUME NEW s \in Session, AgentGivesUp(s) PROVE TypeOK'
  BY <1>6 DEF AgentGivesUp, AgentDies
<1>7. ASSUME NEW s \in Session, Hello(s) PROVE TypeOK'
  BY <1>7 DEF Hello
<1>8. ASSUME NEW s \in Session, PingFinds(s) PROVE TypeOK'
  BY <1>8 DEF PingFinds
<1>9. ASSUME NEW s \in Session, PingReadsClock(s) PROVE TypeOK'
  BY <1>9 DEF PingReadsClock
<1>10. ASSUME NEW s \in Session, PingTouches(s) PROVE TypeOK'
  BY <1>10 DEF PingTouches
<1>11. ASSUME NEW s \in Session, PingPanics(s) PROVE TypeOK'
  BY <1>11 DEF PingPanics
<1>12. ASSUME NEW s \in Session, WaitForRequest(s) PROVE TypeOK'
  BY <1>12 DEF WaitForRequest
<1>13. ASSUME NEW s \in Session, WaitForRequestEnds(s) PROVE TypeOK'
  BY <1>13 DEF WaitForRequestEnds
<1>14. CASE ReaperWakes
  BY <1>14 DEF ReaperWakes
<1>15. CASE ExpireOldSessions
  BY <1>15 DEF ExpireOldSessions, Idle
<1>16. CASE Tick
  BY <1>16 DEF Tick
<1>17. CASE UNCHANGED vars
  BY <1>17 DEF vars
<1>18. QED
  BY <1>1, <1>2, <1>3, <1>4, <1>5, <1>6, <1>7, <1>8, <1>9, <1>10, <1>11, <1>12, <1>13,
        <1>14, <1>15, <1>16, <1>17 DEF Next, AgentStep, HandlerStep, ReaperStep

-----------------------------------------------------------------------------
(* The timing argument. *)

LEMMA InitIInv == Init => IInv
<1> SUFFICES ASSUME Init PROVE IInv
  OBVIOUS
<1>1. TypeOK
  BY InitTypeOK
<1>2. ClocksBehind
  BY DEF Init, ClocksBehind
<1>3. \A s \in Session : SessionInv(s)
  BY DEF Init, SessionInv, OffInv, HelloInv, AsleepInv, PingingInv, ReadingInv, EnteredInv
<1>4. PanicNeedsDeadAgent
  BY DEF Init, PanicNeedsDeadAgent
<1>5. QED
  BY <1>1, <1>2, <1>3, <1>4 DEF IInv

\* The clock only moves forward, and every reading is taken from it.
LEMMA NextClocksBehind == IInv /\ [Next]_vars => ClocksBehind'
<1> SUFFICES ASSUME IInv, [Next]_vars PROVE ClocksBehind'
  OBVIOUS
<1> USE ClockAssumption DEF IInv, TypeOK, ClocksBehind, controllerVars, agentVars, reaperVars
<1>1. ASSUME NEW s \in Session, AgentHello(s) PROVE ClocksBehind'
  BY <1>1 DEF AgentHello, Call
<1>2. ASSUME NEW s \in Session, AgentWelcomed(s) PROVE ClocksBehind'
  BY <1>2 DEF AgentWelcomed
<1>3. ASSUME NEW s \in Session, AgentPings(s) PROVE ClocksBehind'
  BY <1>3 DEF AgentPings, Call
<1>4. ASSUME NEW s \in Session, AgentPonged(s) PROVE ClocksBehind'
  BY <1>4 DEF AgentPonged
<1>5. ASSUME NEW s \in Session, AgentDies(s) PROVE ClocksBehind'
  BY <1>5 DEF AgentDies
<1>6. ASSUME NEW s \in Session, AgentGivesUp(s) PROVE ClocksBehind'
  BY <1>6 DEF AgentGivesUp, AgentDies
<1>7. ASSUME NEW s \in Session, Hello(s) PROVE ClocksBehind'
  BY <1>7 DEF Hello
<1>8. ASSUME NEW s \in Session, PingFinds(s) PROVE ClocksBehind'
  BY <1>8 DEF PingFinds
<1>9. ASSUME NEW s \in Session, PingReadsClock(s) PROVE ClocksBehind'
  BY <1>9 DEF PingReadsClock
<1>10. ASSUME NEW s \in Session, PingTouches(s) PROVE ClocksBehind'
  BY <1>10 DEF PingTouches
<1>11. ASSUME NEW s \in Session, PingPanics(s) PROVE ClocksBehind'
  BY <1>11 DEF PingPanics
<1>12. ASSUME NEW s \in Session, WaitForRequest(s) PROVE ClocksBehind'
  BY <1>12 DEF WaitForRequest
<1>13. ASSUME NEW s \in Session, WaitForRequestEnds(s) PROVE ClocksBehind'
  BY <1>13 DEF WaitForRequestEnds
<1>14. CASE ReaperWakes
  BY <1>14 DEF ReaperWakes
<1>15. CASE ExpireOldSessions
  BY <1>15 DEF ExpireOldSessions, Idle
<1>16. CASE Tick
  BY <1>16 DEF Tick
<1>17. CASE UNCHANGED vars
  BY <1>17 DEF vars
<1>18. QED
  BY <1>1, <1>2, <1>3, <1>4, <1>5, <1>6, <1>7, <1>8, <1>9, <1>10, <1>11, <1>12, <1>13,
        <1>14, <1>15, <1>16, <1>17 DEF Next, AgentStep, HandlerStep, ReaperStep

\* Each action keeps every session's bounds.  The reaper is the one that needs
\* TimeoutAssumption: a session it drops has no greeted agent.
LEMMA NextSessionInv ==
  ASSUME IInv, [Next]_vars, NEW t \in Session
  PROVE  SessionInv(t)'
<1>0. SessionInv(t) /\ ClocksBehind /\ TypeOK
  BY DEF IInv
<1> USE <1>0, ClockAssumption, TimeoutAssumption DEF TypeOK, ClocksBehind, SessionInv,
    OffInv, HelloInv, AsleepInv, PingingInv, ReadingInv, EnteredInv,
    Handled, controllerVars, agentVars, reaperVars
<1>1. ASSUME NEW s \in Session, AgentHello(s) PROVE SessionInv(t)'
  BY <1>1 DEF AgentHello, Call
<1>2. ASSUME NEW s \in Session, AgentWelcomed(s) PROVE SessionInv(t)'
  BY <1>2 DEF AgentWelcomed
<1>3. ASSUME NEW s \in Session, AgentPings(s) PROVE SessionInv(t)'
  BY <1>3 DEF AgentPings, Call
<1>4. ASSUME NEW s \in Session, AgentPonged(s) PROVE SessionInv(t)'
  BY <1>4 DEF AgentPonged
<1>5. ASSUME NEW s \in Session, AgentDies(s) PROVE SessionInv(t)'
  BY <1>5 DEF AgentDies
<1>6. ASSUME NEW s \in Session, AgentGivesUp(s) PROVE SessionInv(t)'
  BY <1>6 DEF AgentGivesUp, AgentDies
<1>7. ASSUME NEW s \in Session, Hello(s) PROVE SessionInv(t)'
  BY <1>7 DEF Hello
<1>8. ASSUME NEW s \in Session, PingFinds(s) PROVE SessionInv(t)'
  BY <1>8 DEF PingFinds
<1>9. ASSUME NEW s \in Session, PingReadsClock(s) PROVE SessionInv(t)'
  BY <1>9 DEF PingReadsClock
<1>10. ASSUME NEW s \in Session, PingTouches(s) PROVE SessionInv(t)'
  BY <1>10 DEF PingTouches
<1>11. ASSUME NEW s \in Session, PingPanics(s) PROVE SessionInv(t)'
  BY <1>11 DEF PingPanics
<1>12. ASSUME NEW s \in Session, WaitForRequest(s) PROVE SessionInv(t)'
  BY <1>12 DEF WaitForRequest
<1>13. ASSUME NEW s \in Session, WaitForRequestEnds(s) PROVE SessionInv(t)'
  BY <1>13 DEF WaitForRequestEnds
<1>14. CASE ReaperWakes
  BY <1>14 DEF ReaperWakes
<1>15. CASE ExpireOldSessions
  BY <1>15 DEF ExpireOldSessions, Idle
<1>16. CASE Tick
  BY <1>16 DEF Tick
<1>17. CASE UNCHANGED vars
  BY <1>17 DEF vars
<1>18. QED
  BY <1>1, <1>2, <1>3, <1>4, <1>5, <1>6, <1>7, <1>8, <1>9, <1>10, <1>11, <1>12, <1>13,
        <1>14, <1>15, <1>16, <1>17 DEF Next, AgentStep, HandlerStep, ReaperStep

\* A handler that is about to touch a session that is not there serves an agent
\* that has exited, since a greeted agent's session is there.
LEMMA NextPanicNeedsDeadAgent == IInv /\ [Next]_vars => PanicNeedsDeadAgent'
<1> SUFFICES ASSUME IInv, [Next]_vars PROVE PanicNeedsDeadAgent'
  OBVIOUS
<1>1. CASE UNCHANGED vars
  BY <1>1 DEF IInv, PanicNeedsDeadAgent, vars, controllerVars, agentVars
<1>2. ASSUME NEW s \in Session, PingPanics(s) PROVE PanicNeedsDeadAgent'
  <2>1. proc[s] = "exited"
    BY <1>2 DEF IInv, TypeOK, SessionInv, OffInv, HelloInv, AsleepInv, PingingInv, PingPanics
  <2>2. QED
    BY <1>2, <2>1 DEF PingPanics, PanicNeedsDeadAgent, agentVars
<1>3. ASSUME Next, ~ \E s \in Session : PingPanics(s) PROVE up'
  BY <1>3 DEF Next, AgentStep, HandlerStep, ReaperStep, AgentHello, AgentWelcomed,
    AgentPings, AgentPonged, AgentDies, AgentGivesUp, Hello, PingFinds, PingReadsClock,
    PingTouches, WaitForRequest, WaitForRequestEnds, ReaperWakes, ExpireOldSessions,
    Tick, controllerVars
<1>4. QED
  BY <1>1, <1>2, <1>3 DEF PanicNeedsDeadAgent

THEOREM Invariance == Spec => []IInv
<1>1. IInv /\ [Next]_vars => IInv'
  BY NextTypeOK, NextClocksBehind, NextSessionInv, NextPanicNeedsDeadAgent DEF IInv
<1>2. QED
  BY InitIInv, <1>1, PTL DEF Spec

-----------------------------------------------------------------------------
(* What follows from it. *)

\* The variables of the session table keep their types.
THEOREM TypeCorrect == Spec => []TypeOK
<1>1. IInv => TypeOK
  BY DEF IInv
<1>2. QED
  BY Invariance, <1>1, PTL

\* An agent that has been greeted and still runs is never dropped from the
\* table, whatever the number of agents and the periods, as long as a pause and
\* two deadlines fit in the idle timeout.
THEOREM LiveAgentsStay == Spec => []LiveAgentRegistered
<1>1. IInv => LiveAgentRegistered
  BY DEF IInv, SessionInv, HelloInv, AsleepInv, PingingInv, LiveAgentRegistered, Greeted
<1>2. QED
  BY Invariance, <1>1, PTL

\* Only a ping of an agent that is already dead can take the controller down.
THEOREM OnlyDeadAgentsPanic == Spec => []PanicNeedsDeadAgent
<1>1. IInv => PanicNeedsDeadAgent
  BY DEF IInv
<1>2. QED
  BY Invariance, <1>1, PTL

\* LastUse never goes back, although Ping reads the clock before it has the lock.
THEOREM LastUseNeverBack == Spec => LastUseMonotone
<1>1. IInv /\ [Next]_vars => [\A s \in Session : lastUse'[s] >= lastUse[s]]_vars
  <2> SUFFICES ASSUME IInv, [Next]_vars, NEW t \in Session
               PROVE  lastUse'[t] >= lastUse[t]
    OBVIOUS
  <2>1. /\ lastUse \in [Session -> Int] /\ lastUse[t] \in Int
        /\ lastUse[t] <= now
        /\ rpc[t] = "clocked" => lastUse[t] <= reading[t]
    BY ClockAssumption DEF IInv, TypeOK, ClocksBehind, SessionInv, ReadingInv
  <2>2. ASSUME NEW s \in Session, Hello(s) PROVE lastUse'[t] >= lastUse[t]
    BY <2>1, <2>2 DEF Hello, IInv, TypeOK
  <2>3. ASSUME NEW s \in Session, PingTouches(s) PROVE lastUse'[t] >= lastUse[t]
    BY <2>1, <2>3 DEF PingTouches, IInv, TypeOK
  <2>4. CASE lastUse' = lastUse
    BY <2>1, <2>4
  <2>5. QED
    BY <2>2, <2>3, <2>4 DEF vars, controllerVars, Next, AgentStep, HandlerStep, ReaperStep,
      AgentHello, AgentWelcomed, AgentPings, AgentPonged, AgentDies, AgentGivesUp,
      PingFinds, PingReadsClock, PingPanics, WaitForRequest, WaitForRequestEnds,
      ReaperWakes, ExpireOldSessions, Tick
<1>2. QED
  BY Invariance, <1>1, PTL DEF Spec, LastUseMonotone

-----------------------------------------------------------------------------
(* The table implements SessionTable. *)

\* The entry of every session, as the contract sees it.
Bar == [s \in Session |->
            IF s \in agents THEN "in" ELSE IF Handled(s) THEN "out" ELSE "none"]

LEMMA InitTable == Init => Table!Init
  BY DEF Init, Table!Init, Handled

\* A session that a step takes out of the table has no agent: it would still be
\* registered otherwise.
LEMMA RemovedIsGone ==
  ASSUME IInv, [Next]_vars, UNCHANGED <<proc, rpc>>, NEW t \in Session,
         t \in agents, t \notin agents'
  PROVE  proc[t] = "exited"
<1>1. SessionInv(t)' /\ EnteredInv(t) /\ TypeOK
  BY NextSessionInv DEF IInv, SessionInv
<1>2. QED
  BY <1>1 DEF TypeOK, SessionInv, EnteredInv, Handled, HelloInv, AsleepInv, PingingInv

\* A step in which only the sessions of dead agents leave the table is a Leave.
LEMMA RemovalIsLeave ==
  ASSUME IInv, [Next]_vars, UNCHANGED <<proc, rpc>>, agents' \subseteq agents
  PROVE  [Table!Next]_(Table!vars)
<1>1. PICK R \in SUBSET Session : R = agents \ agents'
  BY DEF IInv, TypeOK
<1>2. \A t \in R : Bar[t] = "in" /\ proc[t] = "exited"
  BY <1>1, RemovedIsGone DEF Bar
<1>3. \A t \in R : Handled(t)
  BY <1>1 DEF IInv, SessionInv, EnteredInv
<1>4. Bar' = [t \in Session |-> IF t \in R THEN "out" ELSE Bar[t]]
  BY <1>1, <1>3 DEF Bar, Handled
<1>5. Table!Leave(R)
  BY <1>1, <1>2, <1>4 DEF Table!Leave, Bar
<1>6. QED
  BY <1>5 DEF Table!Next

\* Each step of the table is a step of the contract, or none.  Hello enters, the death
\* of the process is AgentGoes, and the reaper and WaitForRequest let sessions leave.
LEMMA TableRefines ==
  ASSUME IInv, [Next]_vars
  PROVE  [Table!Next]_(Table!vars)
<1>0. TypeOK /\ \A t \in Session : OffInv(t) /\ AsleepInv(t) /\ EnteredInv(t)
  BY DEF IInv, SessionInv
<1> USE <1>0 DEF TypeOK, OffInv, AsleepInv, EnteredInv, Handled, controllerVars,
    agentVars, reaperVars, RpcStates, Table!vars
<1>1. ASSUME NEW s \in Session, AgentHello(s) PROVE [Table!Next]_(Table!vars)
  BY <1>1 DEF AgentHello, Call
<1>2. ASSUME NEW s \in Session, AgentWelcomed(s) PROVE [Table!Next]_(Table!vars)
  BY <1>2 DEF AgentWelcomed
<1>3. ASSUME NEW s \in Session, AgentPings(s) PROVE [Table!Next]_(Table!vars)
  BY <1>3 DEF AgentPings, Call
<1>4. ASSUME NEW s \in Session, AgentPonged(s) PROVE [Table!Next]_(Table!vars)
  BY <1>4 DEF AgentPonged
<1>5. ASSUME NEW s \in Session, AgentDies(s) PROVE [Table!Next]_(Table!vars)
  <2>1. Bar' = Bar
    BY <1>5 DEF AgentDies, Bar
  <2>2. {t \in Session : proc[t] = "exited"}' = {t \in Session : proc[t] = "exited"} \cup {s}
    BY <1>5 DEF AgentDies
  <2>3. Table!AgentGoes(s)
    BY <2>1, <2>2 DEF Table!AgentGoes, Bar
  <2>4. QED
    BY <2>3 DEF Table!Next
<1>6. ASSUME NEW s \in Session, AgentGivesUp(s) PROVE [Table!Next]_(Table!vars)
  BY <1>5, <1>6 DEF AgentGivesUp
<1>7. ASSUME NEW s \in Session, Hello(s) PROVE [Table!Next]_(Table!vars)
  <2>1. Bar[s] = "none"
    BY <1>7 DEF Hello, Bar
  <2>2. Bar' = [Bar EXCEPT ![s] = "in"]
    BY <1>7, <2>1 DEF Hello, Bar
  <2>3. Table!Enter(s)
    BY <1>7, <2>1, <2>2 DEF Hello, Table!Enter, Bar
  <2>4. QED
    BY <2>3 DEF Table!Next
<1>8. ASSUME NEW s \in Session, PingFinds(s) PROVE [Table!Next]_(Table!vars)
  BY <1>8 DEF PingFinds
<1>9. ASSUME NEW s \in Session, PingReadsClock(s) PROVE [Table!Next]_(Table!vars)
  BY <1>9 DEF PingReadsClock
<1>10. ASSUME NEW s \in Session, PingTouches(s) PROVE [Table!Next]_(Table!vars)
  BY <1>10 DEF PingTouches
<1>11. ASSUME NEW s \in Session, PingPanics(s) PROVE [Table!Next]_(Table!vars)
  BY <1>11 DEF PingPanics
<1>12. ASSUME NEW s \in Session, WaitForRequest(s) PROVE [Table!Next]_(Table!vars)
  BY <1>12 DEF WaitForRequest
<1>13. ASSUME NEW s \in Session, WaitForRequestEnds(s) PROVE [Table!Next]_(Table!vars)
  BY <1>13, RemovalIsLeave DEF WaitForRequestEnds
<1>14. CASE ReaperWakes
  BY <1>14 DEF ReaperWakes
<1>15. CASE ExpireOldSessions
  BY <1>15, RemovalIsLeave DEF ExpireOldSessions
<1>16. CASE Tick
  BY <1>16 DEF Tick
<1>17. CASE UNCHANGED vars
  BY <1>17 DEF vars
<1>18. QED
  BY <1>1, <1>2, <1>3, <1>4, <1>5, <1>6, <1>7, <1>8, <1>9, <1>10, <1>11, <1>12, <1>13,
        <1>14, <1>15, <1>16, <1>17 DEF Next, AgentStep, HandlerStep, ReaperStep

\* The table keeps its promise to any number of agents: a session is entered once,
\* stays while its agent lives, and does not come back.
THEOREM TableIsKept == Spec => TableContract
<1>1. IInv /\ [Next]_vars => [Table!Next]_(Table!vars)
  BY TableRefines
<1>2. QED
  BY InitTable, Invariance, <1>1, PTL DEF Spec, TableContract, Table!Spec
=============================================================================
