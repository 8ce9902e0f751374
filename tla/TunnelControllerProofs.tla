------------------------ MODULE TunnelControllerProofs ------------------------
(***************************************************************************)
(* Theorems of TunnelController, for every set of sessions and requests,    *)
(* every routing, and with or without orderly agents and losses.            *)
(***************************************************************************)
EXTENDS TunnelController, TLAPS

(***************************************************************************)
(* The inductive invariant, in four parts: when a session's handler gives   *)
(* up, who holds what (the lock, the request in a handler's hand, the       *)
(* streams of a session), what an agent has been asked, and how far a       *)
(* response is.                                                             *)
(***************************************************************************)

Started == {"echo", "done", "canceled", "failed", "left"}

\* A session in the table has had its Hello, and a handler gives up only on a
\* connection that is lost.
LinkInv(s) ==
    /\ s \in agents \/ wfr[s] # "none" => conn[s] # "none"
    /\ wfr[s] \in {"remove", "flush"} \cup Locked => conn[s] \in {"lost", "closed"}

\* The lock belongs to the handler that flushes, and its targets are exactly the
\* streams of its session: nobody registers or unregisters meanwhile.
HandlerInv(s) ==
    /\ wfr[s] \in Locked <=> lock = s
    /\ wfr[s] \in Locked => targets[s] = {r \in streams : route[r] = s}
    /\ wfr[s] \in {"register", "send", "cancel", "mark"} =>
        cur[s] \in Request /\ route[cur[s]] = s /\ http[cur[s]] \in Started
    /\ wfr[s] \in {"register", "send"} => cur[s] \notin asked
    /\ wfr[s] = "register" => http[cur[s]] \in {"echo", "left"}
    /\ wfr[s] = "send" => cur[s] \in streams
    /\ wfr[s] \in {"cancel", "mark"} => cur[s] \in targets[s]
    /\ wfr[s] = "mark" => http[cur[s]] \in EndStates

\* A stream belongs to a session whose handler can still flush it.
StreamInv(r) ==
    r \in streams =>
        /\ route[r] \in Session
        /\ wfr[route[r]] \notin {"none", Refused, "done"}
        /\ http[r] \in Started

\* A stream whose response the agent or a flush has ended is about to be deleted, by
\* its flow or by that flush.
EndedInv(r) ==
    r \in streams =>
        /\ http[r] \in {"done", "failed"} => flow[r] = "unregister"
        /\ http[r] = "canceled" =>
            flow[r] = "unregister" \/ (wfr[route[r]] = "mark" /\ cur[route[r]] = r)

\* A request that an agent was asked is registered until its flow has found it,
\* unless its session is being flushed.
AskedInv(r) ==
    /\ flow[r] # "idle" => r \in asked
    /\ r \in asked =>
        /\ route[r] \in Session
        /\ http[r] \in Started
        /\ flow[r] \in {"idle", "lookup"} =>
            r \in streams \/ wfr[route[r]] \in Locked \cup {"done"}

\* What was written to the client, for each place the flow can be in.
EchoInv(r) ==
    /\ http[r] \in {"idle", "body", "offer"} =>
        heads[r] = 0 /\ body[r] = <<>> /\ accepted[r] = <<>> /\ state[r] = "headers"
    /\ http[r] = "echo" =>
        /\ state[r] = "headers" \/ flow[r] = "headers" =>
            heads[r] = 0 /\ body[r] = <<>> /\ accepted[r] = <<>>
        /\ flow[r] = "headers" => state[r] = "data"
        /\ flow[r] = "data" =>
            state[r] = "data" /\ heads[r] = 1 /\ accepted[r] = Append(body[r], events[r])
        /\ flow[r] = "done" => state[r] = "data"
        /\ state[r] = "data" /\ flow[r] \notin {"headers", "data"} =>
            heads[r] = 1 /\ body[r] = accepted[r]
    /\ http[r] = "done" => flow[r] \in {"unregister", "ended"}

IInv ==
    /\ TypeOK
    /\ \A s \in Session : LinkInv(s) /\ HandlerInv(s)
    /\ \A r \in Request : StreamInv(r) /\ EndedInv(r) /\ AskedInv(r) /\ EchoInv(r)

-----------------------------------------------------------------------------
(* The initial states. *)

LEMMA InitIInv == Init => IInv
<1> SUFFICES ASSUME Init PROVE IInv
  OBVIOUS
<1>1. TypeOK
  BY BoundAssumption DEF Init, TypeOK, DataEvents, WFRStates, HTTPStates, FlowStates, Locked
<1>2. ASSUME NEW s \in Session PROVE LinkInv(s) /\ HandlerInv(s)
  BY SessionAssumption DEF Init, LinkInv, HandlerInv, Locked
<1>3. ASSUME NEW r \in Request
      PROVE  StreamInv(r) /\ EndedInv(r) /\ AskedInv(r) /\ EchoInv(r)
  BY DEF Init, StreamInv, EndedInv, AskedInv, EchoInv, Started, EndStates, Refused
<1>4. QED
  BY <1>1, <1>2, <1>3 DEF IInv

-----------------------------------------------------------------------------
(* Every step preserves each part. *)

LEMMA OneEventMore ==
  ASSUME NEW q \in DataEvents, NEW e \in 1..MaxEvents
  PROVE  Append(q, e) \in DataEvents
BY DEF DataEvents

\* What runEcho writes is what ServerEcho.Data has accepted last.
LEMMA EventInHand ==
  ASSUME IInv, NEW r \in Request, http[r] = "echo", flow[r] = "data"
  PROVE  Append(body[r], events[r]) \in DataEvents
<1>1. EchoInv(r) /\ accepted \in [Request -> DataEvents]
  BY DEF IInv, TypeOK
<1>2. QED
  BY <1>1 DEF EchoInv

\* Types; Register, FlushNext and FlushDelete need what the handler has in hand.
LEMMA NextTypeOK == IInv /\ [Next]_vars => TypeOK'
<1> SUFFICES ASSUME IInv, [Next]_vars PROVE TypeOK'
  OBVIOUS
<1>0. TypeOK /\ \A s \in Session : HandlerInv(s)
  BY DEF IInv
<1> USE <1>0, RouteAssumption, BoundAssumption DEF TypeOK, HandlerInv, WFRStates,
    HTTPStates, FlowStates, Locked, EndStates, Refused, sessionVars, managerVars,
    requestVars, flowVars, echoVars
<1>1. ASSUME NEW s \in Session, Hello(s) PROVE TypeOK'
  BY <1>1 DEF Hello
<1>2. ASSUME NEW s \in Session, AgentLost(s) PROVE TypeOK'
  BY <1>2 DEF AgentLost
<1>3. ASSUME NEW s \in Session, ConnectionCloses(s) PROVE TypeOK'
  BY <1>3 DEF ConnectionCloses
<1>4. ASSUME NEW s \in Session, Expire(s) PROVE TypeOK'
  BY <1>4 DEF Expire
<1>5. ASSUME NEW s \in Session, WaitForRequest(s) PROVE TypeOK'
  BY <1>5 DEF WaitForRequest, Goes
<1>6. ASSUME NEW s \in Session, Register(s) PROVE TypeOK'
  BY <1>6 DEF Register, Goes
<1>7. ASSUME NEW s \in Session, SendRequest(s) PROVE TypeOK'
  BY <1>7 DEF SendRequest, Goes
<1>8. ASSUME NEW s \in Session, SendFails(s) PROVE TypeOK'
  BY <1>8 DEF SendFails, Goes
<1>9. ASSUME NEW s \in Session, ContextDone(s) PROVE TypeOK'
  BY <1>9 DEF ContextDone, Goes
<1>10. ASSUME NEW s \in Session, RemoveSession(s) PROVE TypeOK'
  BY <1>10 DEF RemoveSession, Goes
<1>11. ASSUME NEW s \in Session, FlushLock(s) PROVE TypeOK'
  BY <1>11 DEF FlushLock, Goes
<1>12. ASSUME NEW s \in Session, FlushNext(s) PROVE TypeOK'
  BY <1>12 DEF FlushNext, Goes
<1>13. ASSUME NEW s \in Session, CancelStream(s) PROVE TypeOK'
  BY <1>13 DEF CancelStream, Goes
<1>14. ASSUME NEW s \in Session, FlushDelete(s) PROVE TypeOK'
  BY <1>14 DEF FlushDelete, Goes
<1>15. ASSUME NEW s \in Session, FlushUnlock(s) PROVE TypeOK'
  BY <1>15 DEF FlushUnlock, Goes
<1>16. ASSUME NEW s \in Session, NEW q \in Request, TakeRequest(s, q) PROVE TypeOK'
  BY <1>16 DEF TakeRequest, Goes
<1>17. ASSUME NEW q \in Request, FindSession(q) PROVE TypeOK'
  BY <1>17 DEF FindSession
<1>18. ASSUME NEW q \in Request, NoSuchAgent(q) PROVE TypeOK'
  BY <1>18 DEF NoSuchAgent, Refuse
<1>19. ASSUME NEW q \in Request, BadRequest(q) PROVE TypeOK'
  BY <1>19 DEF BadRequest, Refuse
<1>20. ASSUME NEW q \in Request, OfferRequest(q) PROVE TypeOK'
  BY <1>20 DEF OfferRequest
<1>21. ASSUME NEW q \in Request, ClientLeaves(q) PROVE TypeOK'
  BY <1>21 DEF ClientLeaves
<1>22. ASSUME NEW q \in Request, AgentOpens(q) PROVE TypeOK'
  BY <1>22 DEF AgentOpens
<1>23. ASSUME NEW q \in Request, LookupStream(q) PROVE TypeOK'
  BY <1>23 DEF LookupStream
<1>24. ASSUME NEW q \in Request, RecvHeaders(q) PROVE TypeOK'
  <2>1. events' \in [Request -> 0..MaxEvents]
    BY <1>24 DEF RecvHeaders, Receives
  <2>2. state' \in [Request -> {"headers", "data", "done", "canceled"}] /\ flow' \in
      [Request -> FlowStates]
    BY <1>24 DEF RecvHeaders
  <2>3. QED
    BY <1>24, <2>1, <2>2 DEF RecvHeaders
<1>25. ASSUME NEW q \in Request, RecvData(q) PROVE TypeOK'
  <2>1. events' \in [Request -> 0..MaxEvents] /\ events'[q] \in 1..MaxEvents
    BY <1>25 DEF RecvData, Receives
  <2>2. Append(accepted[q], events'[q]) \in DataEvents
    BY <2>1, OneEventMore
  <2>3. accepted' \in [Request -> DataEvents]
    <3>1. \/ accepted' = [accepted EXCEPT ![q] = Append(@, events'[q])]
          \/ UNCHANGED accepted
      BY <1>25 DEF RecvData
    <3> HIDE DEF HandlerInv
    <3>2. QED
      BY <2>2, <3>1
  <2>4. flow' \in [Request -> FlowStates]
    <3>1. flow' = [flow EXCEPT ![q] = "data"] \/ UNCHANGED flow
      BY <1>25 DEF RecvData
    <3>2. QED
      BY <3>1
  <2>5. QED
    BY <1>25, <2>1, <2>3, <2>4 DEF RecvData
<1>26. ASSUME NEW q \in Request, RecvDone(q) PROVE TypeOK'
  BY <1>26 DEF RecvDone
<1>27. ASSUME NEW q \in Request, RecvCancel(q) PROVE TypeOK'
  BY <1>27 DEF RecvCancel
<1>28. ASSUME NEW q \in Request, RecvEOF(q) PROVE TypeOK'
  BY <1>28 DEF RecvEOF, Fails
<1>29. ASSUME NEW q \in Request, RecvCanceled(q) PROVE TypeOK'
  BY <1>29 DEF RecvCanceled
<1>30. ASSUME NEW q \in Request, RecvError(q) PROVE TypeOK'
  BY <1>30 DEF RecvError, Fails
<1>31. ASSUME NEW q \in Request, UnregisterStream(q) PROVE TypeOK'
  BY <1>31 DEF UnregisterStream
<1>32. ASSUME NEW q \in Request, EchoHeaders(q) PROVE TypeOK'
  BY <1>32 DEF EchoHeaders, Meets
<1>33. ASSUME NEW q \in Request, EchoData(q) PROVE TypeOK'
  <2>1. http[q] = "echo" /\ flow[q] = "data"
    BY <1>33 DEF EchoData, Meets
  <2>2. Append(body[q], events[q]) \in DataEvents
    BY <2>1, EventInHand
  <2>3. body' \in [Request -> DataEvents]
    BY <1>33, <2>2 DEF EchoData
  <2>4. QED
    BY <1>33, <2>3 DEF EchoData, Meets
<1>34. ASSUME NEW q \in Request, EchoWriteFails(q) PROVE TypeOK'
  BY <1>34 DEF EchoWriteFails, Meets, Returns
<1>35. ASSUME NEW q \in Request, EchoDone(q) PROVE TypeOK'
  BY <1>35 DEF EchoDone, Meets, Returns
<1>36. ASSUME NEW q \in Request, EchoCanceled(q) PROVE TypeOK'
  BY <1>36 DEF EchoCanceled, Meets, Returns
<1>37. ASSUME NEW q \in Request, EchoFailed(q) PROVE TypeOK'
  BY <1>37 DEF EchoFailed, Meets, Returns
<1>38. ASSUME NEW q \in Request, EchoClientGone(q) PROVE TypeOK'
  BY <1>38 DEF EchoClientGone, Returns
<1>39. CASE UNCHANGED vars
  BY <1>39 DEF vars
<1>40. ASSUME NEW s \in Session, SessionStep(s) PROVE TypeOK'
  BY <1>40, <1>1, <1>2, <1>3, <1>4, <1>5, <1>6, <1>7, <1>8, <1>9, <1>10, <1>11, <1>12, <1>13,
      <1>14, <1>15, <1>16
    DEF SessionStep, SessionOwnStep
<1>41. ASSUME NEW q \in Request, RequestStep(q) PROVE TypeOK'
  BY <1>41, <1>17, <1>18, <1>19, <1>20, <1>21 DEF RequestStep
<1>42. ASSUME NEW q \in Request, FlowStep(q) PROVE TypeOK'
  BY <1>42, <1>22, <1>23, <1>24, <1>25, <1>26, <1>27, <1>28, <1>29, <1>30, <1>31
    DEF FlowStep, FlowOwnStep
<1>43. ASSUME NEW q \in Request, EchoStep(q) PROVE TypeOK'
  BY <1>43, <1>32, <1>33, <1>34, <1>35, <1>36, <1>37, <1>38 DEF EchoStep
<1>44. QED
  BY <1>39, <1>40, <1>41, <1>42, <1>43 DEF Next

\* What requests, flows and responses do leaves the sessions alone.
LEMMA OnlySessionsMove ==
  ASSUME NEW r \in Request, RequestStep(r) \/ FlowStep(r) \/ EchoStep(r)
  PROVE  UNCHANGED <<agents, conn>>
<1>1. CASE RequestStep(r)
  BY <1>1 DEF RequestStep, FindSession, NoSuchAgent, BadRequest, Refuse, OfferRequest,
    ClientLeaves, sessionVars
<1>2. CASE FlowStep(r)
  BY <1>2 DEF FlowStep, FlowOwnStep, AgentOpens, LookupStream, RecvHeaders, RecvData,
    RecvDone, RecvCancel, RecvEOF, RecvCanceled, RecvError, Fails, UnregisterStream,
    sessionVars
<1>3. CASE EchoStep(r)
  BY <1>3 DEF EchoStep, EchoHeaders, EchoData, EchoWriteFails, EchoDone, EchoCanceled,
    EchoFailed, EchoClientGone, Meets, sessionVars
<1>4. QED
  BY <1>1, <1>2, <1>3

LEMMA OnlySessionsWait ==
  ASSUME NEW r \in Request, RequestStep(r) \/ FlowStep(r) \/ EchoStep(r)
  PROVE  UNCHANGED <<wfr, cur, targets>>
<1>1. CASE RequestStep(r)
  BY <1>1 DEF RequestStep, FindSession, NoSuchAgent, BadRequest, Refuse, OfferRequest,
    ClientLeaves, sessionVars
<1>2. CASE FlowStep(r)
  BY <1>2 DEF FlowStep, FlowOwnStep, AgentOpens, LookupStream, RecvHeaders, RecvData,
    RecvDone, RecvCancel, RecvEOF, RecvCanceled, RecvError, Fails, UnregisterStream,
    sessionVars
<1>3. CASE EchoStep(r)
  BY <1>3 DEF EchoStep, EchoHeaders, EchoData, EchoWriteFails, EchoDone, EchoCanceled,
    EchoFailed, EchoClientGone, Meets, sessionVars
<1>4. QED
  BY <1>1, <1>2, <1>3

LEMMA NextLinkInv ==
  ASSUME IInv, [Next]_vars, NEW t \in Session
  PROVE  LinkInv(t)'
<1>0. TypeOK /\ \A s \in Session : LinkInv(s)
  BY DEF IInv
<1> USE <1>0 DEF TypeOK, LinkInv, WFRStates, Locked, Refused, sessionVars
<1>1. ASSUME NEW s \in Session,
             Hello(s) \/ AgentLost(s) \/ ConnectionCloses(s) \/ Expire(s)
      PROVE  LinkInv(t)'
  BY <1>1 DEF Hello, AgentLost, ConnectionCloses, Expire
<1>2. ASSUME NEW s \in Session, NEW r \in Request,
             WaitForRequest(s) \/ TakeRequest(s, r) \/ Register(s) \/ SendRequest(s)
      PROVE  LinkInv(t)'
  BY <1>2 DEF WaitForRequest, TakeRequest, Register, SendRequest, Goes
<1>3. ASSUME NEW s \in Session, SendFails(s) \/ ContextDone(s) \/ RemoveSession(s)
      PROVE  LinkInv(t)'
  BY <1>3 DEF SendFails, ContextDone, RemoveSession, Goes
<1>4. ASSUME NEW s \in Session, FlushLock(s) \/ FlushNext(s) \/ CancelStream(s)
      PROVE  LinkInv(t)'
  BY <1>4 DEF FlushLock, FlushNext, CancelStream, Goes
<1>5. ASSUME NEW s \in Session, FlushDelete(s) \/ FlushUnlock(s)
      PROVE  LinkInv(t)'
  BY <1>5 DEF FlushDelete, FlushUnlock, Goes
<1>6. ASSUME NEW r \in Request, RequestStep(r) \/ FlowStep(r) \/ EchoStep(r)
      PROVE  LinkInv(t)'
  BY <1>6, OnlySessionsMove, OnlySessionsWait
<1>7. CASE UNCHANGED vars
  BY <1>7 DEF vars
<1>8. ASSUME NEW s \in Session, SessionStep(s) PROVE LinkInv(t)'
  <2>1. CASE \E r \in Request : TakeRequest(s, r)
    BY <1>2, <2>1
  <2>2. CASE WaitForRequest(s) \/ Register(s) \/ SendRequest(s)
    BY <2>2 DEF WaitForRequest, Register, SendRequest, Goes
  <2>3. QED
    BY <1>8, <2>1, <2>2, <1>1, <1>3, <1>4, <1>5 DEF SessionStep, SessionOwnStep
<1>9. QED
  BY <1>6, <1>7, <1>8 DEF Next

LEMMA NextHandlerInv ==
  ASSUME IInv, [Next]_vars, NEW t \in Session
  PROVE  HandlerInv(t)'
<1>0. /\ TypeOK
      /\ \A s \in Session : HandlerInv(s)
      /\ \A r \in Request : StreamInv(r) /\ AskedInv(r)
  BY DEF IInv
<1> USE <1>0, SessionAssumption, RouteAssumption, BoundAssumption DEF TypeOK, HandlerInv,
    StreamInv, AskedInv, Started, WFRStates, HTTPStates, FlowStates, Locked, EndStates,
    Refused, sessionVars, managerVars, requestVars, flowVars, echoVars
<1>1. ASSUME NEW s \in Session, Hello(s) PROVE HandlerInv(t)'
  BY <1>1 DEF Hello
<1>2. ASSUME NEW s \in Session, AgentLost(s) PROVE HandlerInv(t)'
  BY <1>2 DEF AgentLost
<1>3. ASSUME NEW s \in Session, ConnectionCloses(s) PROVE HandlerInv(t)'
  BY <1>3 DEF ConnectionCloses
<1>4. ASSUME NEW s \in Session, Expire(s) PROVE HandlerInv(t)'
  BY <1>4 DEF Expire
<1>5. ASSUME NEW s \in Session, WaitForRequest(s) PROVE HandlerInv(t)'
  BY <1>5 DEF WaitForRequest, Goes
<1>6. ASSUME NEW s \in Session, Register(s) PROVE HandlerInv(t)'
  BY <1>6 DEF Register, Goes
<1>7. ASSUME NEW s \in Session, SendRequest(s) PROVE HandlerInv(t)'
  BY <1>7 DEF SendRequest, Goes
<1>8. ASSUME NEW s \in Session, SendFails(s) PROVE HandlerInv(t)'
  BY <1>8 DEF SendFails, Goes
<1>9. ASSUME NEW s \in Session, ContextDone(s) PROVE HandlerInv(t)'
  BY <1>9 DEF ContextDone, Goes
<1>10. ASSUME NEW s \in Session, RemoveSession(s) PROVE HandlerInv(t)'
  BY <1>10 DEF RemoveSession, Goes
<1>11. ASSUME NEW s \in Session, FlushLock(s) PROVE HandlerInv(t)'
  BY <1>11 DEF FlushLock, Goes
<1>12. ASSUME NEW s \in Session, FlushNext(s) PROVE HandlerInv(t)'
  BY <1>12 DEF FlushNext, Goes
<1>13. ASSUME NEW s \in Session, CancelStream(s) PROVE HandlerInv(t)'
  BY <1>13 DEF CancelStream, Goes
<1>14. ASSUME NEW s \in Session, FlushDelete(s) PROVE HandlerInv(t)'
  BY <1>14 DEF FlushDelete, Goes
<1>15. ASSUME NEW s \in Session, FlushUnlock(s) PROVE HandlerInv(t)'
  BY <1>15 DEF FlushUnlock, Goes
<1>16. ASSUME NEW s \in Session, NEW q \in Request, TakeRequest(s, q) PROVE HandlerInv(t)'
  BY <1>16 DEF TakeRequest, Goes
<1>17. ASSUME NEW q \in Request, FindSession(q) PROVE HandlerInv(t)'
  BY <1>17 DEF FindSession
<1>18. ASSUME NEW q \in Request, NoSuchAgent(q) PROVE HandlerInv(t)'
  BY <1>18 DEF NoSuchAgent, Refuse
<1>19. ASSUME NEW q \in Request, BadRequest(q) PROVE HandlerInv(t)'
  BY <1>19 DEF BadRequest, Refuse
<1>20. ASSUME NEW q \in Request, OfferRequest(q) PROVE HandlerInv(t)'
  BY <1>20 DEF OfferRequest
<1>21. ASSUME NEW q \in Request, ClientLeaves(q) PROVE HandlerInv(t)'
  BY <1>21 DEF ClientLeaves
<1>22. ASSUME NEW q \in Request, AgentOpens(q) PROVE HandlerInv(t)'
  BY <1>22 DEF AgentOpens
<1>23. ASSUME NEW q \in Request, LookupStream(q) PROVE HandlerInv(t)'
  BY <1>23 DEF LookupStream
<1>24. ASSUME NEW q \in Request, RecvHeaders(q) PROVE HandlerInv(t)'
  BY <1>24 DEF RecvHeaders, Receives
<1>25. ASSUME NEW q \in Request, RecvData(q) PROVE HandlerInv(t)'
  BY <1>25 DEF RecvData, Receives
<1>26. ASSUME NEW q \in Request, RecvDone(q) PROVE HandlerInv(t)'
  BY <1>26 DEF RecvDone
<1>27. ASSUME NEW q \in Request, RecvCancel(q) PROVE HandlerInv(t)'
  BY <1>27 DEF RecvCancel
<1>28. ASSUME NEW q \in Request, RecvEOF(q) PROVE HandlerInv(t)'
  BY <1>28 DEF RecvEOF, Fails
<1>29. ASSUME NEW q \in Request, RecvCanceled(q) PROVE HandlerInv(t)'
  BY <1>29 DEF RecvCanceled
<1>30. ASSUME NEW q \in Request, RecvError(q) PROVE HandlerInv(t)'
  BY <1>30 DEF RecvError, Fails
<1>31. ASSUME NEW q \in Request, UnregisterStream(q) PROVE HandlerInv(t)'
  BY <1>31 DEF UnregisterStream
<1>32. ASSUME NEW q \in Request, EchoHeaders(q) PROVE HandlerInv(t)'
  BY <1>32 DEF EchoHeaders, Meets
<1>33. ASSUME NEW q \in Request, EchoData(q) PROVE HandlerInv(t)'
  BY <1>33 DEF EchoData, Meets
<1>34. ASSUME NEW q \in Request, EchoWriteFails(q) PROVE HandlerInv(t)'
  BY <1>34 DEF EchoWriteFails, Meets, Returns
<1>35. ASSUME NEW q \in Request, EchoDone(q) PROVE HandlerInv(t)'
  BY <1>35 DEF EchoDone, Meets, Returns
<1>36. ASSUME NEW q \in Request, EchoCanceled(q) PROVE HandlerInv(t)'
  BY <1>36 DEF EchoCanceled, Meets, Returns
<1>37. ASSUME NEW q \in Request, EchoFailed(q) PROVE HandlerInv(t)'
  BY <1>37 DEF EchoFailed, Meets, Returns
<1>38. ASSUME NEW q \in Request, EchoClientGone(q) PROVE HandlerInv(t)'
  BY <1>38 DEF EchoClientGone, Returns
<1>39. CASE UNCHANGED vars
  BY <1>39 DEF vars
<1>40. ASSUME NEW s \in Session, SessionStep(s) PROVE HandlerInv(t)'
  BY <1>40, <1>1, <1>2, <1>3, <1>4, <1>5, <1>6, <1>7, <1>8, <1>9, <1>10, <1>11, <1>12, <1>13,
      <1>14, <1>15, <1>16
    DEF SessionStep, SessionOwnStep
<1>41. ASSUME NEW q \in Request, RequestStep(q) PROVE HandlerInv(t)'
  BY <1>41, <1>17, <1>18, <1>19, <1>20, <1>21 DEF RequestStep
<1>42. ASSUME NEW q \in Request, FlowStep(q) PROVE HandlerInv(t)'
  BY <1>42, <1>22, <1>23, <1>24, <1>25, <1>26, <1>27, <1>28, <1>29, <1>30, <1>31
    DEF FlowStep, FlowOwnStep
<1>43. ASSUME NEW q \in Request, EchoStep(q) PROVE HandlerInv(t)'
  BY <1>43, <1>32, <1>33, <1>34, <1>35, <1>36, <1>37, <1>38 DEF EchoStep
<1>44. QED
  BY <1>39, <1>40, <1>41, <1>42, <1>43 DEF Next

LEMMA NextStreamInv ==
  ASSUME IInv, [Next]_vars, NEW x \in Request
  PROVE  StreamInv(x)'
<1>0. /\ TypeOK
      /\ \A s \in Session : HandlerInv(s)
      /\ \A r \in Request : StreamInv(r) /\ AskedInv(r)
  BY DEF IInv
<1> USE <1>0, SessionAssumption, RouteAssumption, BoundAssumption DEF TypeOK, HandlerInv,
    StreamInv, AskedInv, Started, WFRStates, HTTPStates, FlowStates, Locked, EndStates,
    Refused, sessionVars, managerVars, requestVars, flowVars, echoVars
<1>1. ASSUME NEW s \in Session, Hello(s) PROVE StreamInv(x)'
  BY <1>1 DEF Hello
<1>2. ASSUME NEW s \in Session, AgentLost(s) PROVE StreamInv(x)'
  BY <1>2 DEF AgentLost
<1>3. ASSUME NEW s \in Session, ConnectionCloses(s) PROVE StreamInv(x)'
  BY <1>3 DEF ConnectionCloses
<1>4. ASSUME NEW s \in Session, Expire(s) PROVE StreamInv(x)'
  BY <1>4 DEF Expire
<1>5. ASSUME NEW s \in Session, WaitForRequest(s) PROVE StreamInv(x)'
  BY <1>5 DEF WaitForRequest, Goes
<1>6. ASSUME NEW s \in Session, Register(s) PROVE StreamInv(x)'
  BY <1>6 DEF Register, Goes
<1>7. ASSUME NEW s \in Session, SendRequest(s) PROVE StreamInv(x)'
  BY <1>7 DEF SendRequest, Goes
<1>8. ASSUME NEW s \in Session, SendFails(s) PROVE StreamInv(x)'
  BY <1>8 DEF SendFails, Goes
<1>9. ASSUME NEW s \in Session, ContextDone(s) PROVE StreamInv(x)'
  BY <1>9 DEF ContextDone, Goes
<1>10. ASSUME NEW s \in Session, RemoveSession(s) PROVE StreamInv(x)'
  BY <1>10 DEF RemoveSession, Goes
<1>11. ASSUME NEW s \in Session, FlushLock(s) PROVE StreamInv(x)'
  BY <1>11 DEF FlushLock, Goes
<1>12. ASSUME NEW s \in Session, FlushNext(s) PROVE StreamInv(x)'
  BY <1>12 DEF FlushNext, Goes
<1>13. ASSUME NEW s \in Session, CancelStream(s) PROVE StreamInv(x)'
  BY <1>13 DEF CancelStream, Goes
<1>14. ASSUME NEW s \in Session, FlushDelete(s) PROVE StreamInv(x)'
  BY <1>14 DEF FlushDelete, Goes
<1>15. ASSUME NEW s \in Session, FlushUnlock(s) PROVE StreamInv(x)'
  BY <1>15 DEF FlushUnlock, Goes
<1>16. ASSUME NEW s \in Session, NEW q \in Request, TakeRequest(s, q) PROVE StreamInv(x)'
  BY <1>16 DEF TakeRequest, Goes
<1>17. ASSUME NEW q \in Request, FindSession(q) PROVE StreamInv(x)'
  BY <1>17 DEF FindSession
<1>18. ASSUME NEW q \in Request, NoSuchAgent(q) PROVE StreamInv(x)'
  BY <1>18 DEF NoSuchAgent, Refuse
<1>19. ASSUME NEW q \in Request, BadRequest(q) PROVE StreamInv(x)'
  BY <1>19 DEF BadRequest, Refuse
<1>20. ASSUME NEW q \in Request, OfferRequest(q) PROVE StreamInv(x)'
  BY <1>20 DEF OfferRequest
<1>21. ASSUME NEW q \in Request, ClientLeaves(q) PROVE StreamInv(x)'
  BY <1>21 DEF ClientLeaves
<1>22. ASSUME NEW q \in Request, AgentOpens(q) PROVE StreamInv(x)'
  BY <1>22 DEF AgentOpens
<1>23. ASSUME NEW q \in Request, LookupStream(q) PROVE StreamInv(x)'
  BY <1>23 DEF LookupStream
<1>24. ASSUME NEW q \in Request, RecvHeaders(q) PROVE StreamInv(x)'
  BY <1>24 DEF RecvHeaders, Receives
<1>25. ASSUME NEW q \in Request, RecvData(q) PROVE StreamInv(x)'
  BY <1>25 DEF RecvData, Receives
<1>26. ASSUME NEW q \in Request, RecvDone(q) PROVE StreamInv(x)'
  BY <1>26 DEF RecvDone
<1>27. ASSUME NEW q \in Request, RecvCancel(q) PROVE StreamInv(x)'
  BY <1>27 DEF RecvCancel
<1>28. ASSUME NEW q \in Request, RecvEOF(q) PROVE StreamInv(x)'
  BY <1>28 DEF RecvEOF, Fails
<1>29. ASSUME NEW q \in Request, RecvCanceled(q) PROVE StreamInv(x)'
  BY <1>29 DEF RecvCanceled
<1>30. ASSUME NEW q \in Request, RecvError(q) PROVE StreamInv(x)'
  BY <1>30 DEF RecvError, Fails
<1>31. ASSUME NEW q \in Request, UnregisterStream(q) PROVE StreamInv(x)'
  BY <1>31 DEF UnregisterStream
<1>32. ASSUME NEW q \in Request, EchoHeaders(q) PROVE StreamInv(x)'
  BY <1>32 DEF EchoHeaders, Meets
<1>33. ASSUME NEW q \in Request, EchoData(q) PROVE StreamInv(x)'
  BY <1>33 DEF EchoData, Meets
<1>34. ASSUME NEW q \in Request, EchoWriteFails(q) PROVE StreamInv(x)'
  BY <1>34 DEF EchoWriteFails, Meets, Returns
<1>35. ASSUME NEW q \in Request, EchoDone(q) PROVE StreamInv(x)'
  BY <1>35 DEF EchoDone, Meets, Returns
<1>36. ASSUME NEW q \in Request, EchoCanceled(q) PROVE StreamInv(x)'
  BY <1>36 DEF EchoCanceled, Meets, Returns
<1>37. ASSUME NEW q \in Request, EchoFailed(q) PROVE StreamInv(x)'
  BY <1>37 DEF EchoFailed, Meets, Returns
<1>38. ASSUME NEW q \in Request, EchoClientGone(q) PROVE StreamInv(x)'
  BY <1>38 DEF EchoClientGone, Returns
<1>39. CASE UNCHANGED vars
  BY <1>39 DEF vars
<1>40. ASSUME NEW s \in Session, SessionStep(s) PROVE StreamInv(x)'
  BY <1>40, <1>1, <1>2, <1>3, <1>4, <1>5, <1>6, <1>7, <1>8, <1>9, <1>10, <1>11, <1>12, <1>13,
      <1>14, <1>15, <1>16
    DEF SessionStep, SessionOwnStep
<1>41. ASSUME NEW q \in Request, RequestStep(q) PROVE StreamInv(x)'
  BY <1>41, <1>17, <1>18, <1>19, <1>20, <1>21 DEF RequestStep
<1>42. ASSUME NEW q \in Request, FlowStep(q) PROVE StreamInv(x)'
  BY <1>42, <1>22, <1>23, <1>24, <1>25, <1>26, <1>27, <1>28, <1>29, <1>30, <1>31
    DEF FlowStep, FlowOwnStep
<1>43. ASSUME NEW q \in Request, EchoStep(q) PROVE StreamInv(x)'
  BY <1>43, <1>32, <1>33, <1>34, <1>35, <1>36, <1>37, <1>38 DEF EchoStep
<1>44. QED
  BY <1>39, <1>40, <1>41, <1>42, <1>43 DEF Next

\* CancelStream ends a response and is in state mark until it deletes the stream; a
\* flow that ends one is in state unregister until it does.
LEMMA NextEndedInv ==
  ASSUME IInv, [Next]_vars, NEW x \in Request
  PROVE  EndedInv(x)'
<1>0. /\ TypeOK /\ StreamInv(x) /\ EndedInv(x)
      /\ \A s \in Session : HandlerInv(s)
  BY DEF IInv
<1>1. x \in streams => x \in Request /\ route[x] \in Session /\ http[x] # Refused
  BY <1>0 DEF StreamInv, Started, Refused
<1> USE <1>0, <1>1 DEF TypeOK, HandlerInv, EndedInv, Locked, Refused, EndStates,
    sessionVars, managerVars, requestVars, flowVars, echoVars
<1>2. ASSUME NEW s \in Session,
             Hello(s) \/ AgentLost(s) \/ ConnectionCloses(s) \/ Expire(s)
      PROVE  EndedInv(x)'
  BY <1>2 DEF Hello, AgentLost, ConnectionCloses, Expire
<1>3. ASSUME NEW s \in Session, wfr[s] # "mark", wfr'[s] # "mark",
             \A t \in Session \ {s} : wfr'[t] = wfr[t] /\ cur'[t] = cur[t],
             UNCHANGED <<streams, http, route, flow>>
      PROVE  EndedInv(x)'
  BY <1>3
<1>4. ASSUME NEW s \in Session, WaitForRequest(s) PROVE EndedInv(x)'
  BY <1>3, <1>4 DEF WaitForRequest, Goes
<1>5. ASSUME NEW s \in Session, NEW q \in Request, TakeRequest(s, q) PROVE EndedInv(x)'
  BY <1>5 DEF TakeRequest, Goes
<1>6. ASSUME NEW s \in Session, Register(s) PROVE EndedInv(x)'
  BY <1>6 DEF Register, Goes
<1>7. ASSUME NEW s \in Session, SendRequest(s) PROVE EndedInv(x)'
  BY <1>3, <1>7 DEF SendRequest, Goes
<1>8. ASSUME NEW s \in Session, SendFails(s) PROVE EndedInv(x)'
  BY <1>3, <1>8 DEF SendFails, Goes
<1>9. ASSUME NEW s \in Session, ContextDone(s) PROVE EndedInv(x)'
  BY <1>3, <1>9 DEF ContextDone, Goes
<1>10. ASSUME NEW s \in Session, RemoveSession(s) PROVE EndedInv(x)'
  BY <1>3, <1>10 DEF RemoveSession, Goes
<1>11. ASSUME NEW s \in Session, FlushLock(s) PROVE EndedInv(x)'
  BY <1>3, <1>11 DEF FlushLock, Goes
<1>12. ASSUME NEW s \in Session, FlushNext(s) PROVE EndedInv(x)'
  BY <1>3, <1>12 DEF FlushNext, Goes
<1>13. ASSUME NEW s \in Session, CancelStream(s) PROVE EndedInv(x)'
  BY <1>13 DEF CancelStream, Goes
<1>14. ASSUME NEW s \in Session, FlushDelete(s) PROVE EndedInv(x)'
  BY <1>14 DEF FlushDelete, Goes
<1>15. ASSUME NEW s \in Session, FlushUnlock(s) PROVE EndedInv(x)'
  BY <1>3, <1>15 DEF FlushUnlock, Goes
<1>16. ASSUME NEW q \in Request, RequestStep(q) PROVE EndedInv(x)'
  <2>1. ASSUME FindSession(q) \/ OfferRequest(q) \/ ClientLeaves(q) PROVE EndedInv(x)'
    BY <2>1 DEF FindSession, OfferRequest, ClientLeaves
  <2>2. ASSUME NoSuchAgent(q) \/ BadRequest(q) PROVE EndedInv(x)'
    BY <2>2 DEF NoSuchAgent, BadRequest, Refuse
  <2>3. QED
    BY <1>16, <2>1, <2>2 DEF RequestStep
<1>17. ASSUME NEW q \in Request, FlowStep(q) PROVE EndedInv(x)'
  <2>1. ASSUME flow[q] # "unregister", UNCHANGED <<wfr, cur, streams, http, route>>,
               \A r \in Request \ {q} : flow'[r] = flow[r]
        PROVE  EndedInv(x)'
    BY <2>1
  <2>2. ASSUME AgentOpens(q) \/ LookupStream(q) PROVE EndedInv(x)'
    BY <2>1, <2>2 DEF AgentOpens, LookupStream
  <2>3. ASSUME RecvHeaders(q) \/ RecvData(q) PROVE EndedInv(x)'
    BY <2>1, <2>3 DEF RecvHeaders, RecvData, Receives
  <2>4. ASSUME RecvDone(q) \/ RecvCancel(q) \/ RecvCanceled(q) PROVE EndedInv(x)'
    BY <2>1, <2>4 DEF RecvDone, RecvCancel, RecvCanceled
  <2>5. ASSUME RecvEOF(q) \/ RecvError(q) PROVE EndedInv(x)'
    BY <2>1, <2>5 DEF RecvEOF, RecvError, Fails
  <2>6. ASSUME UnregisterStream(q) PROVE EndedInv(x)'
    BY <2>6 DEF UnregisterStream
  <2>7. QED
    BY <1>17, <2>2, <2>3, <2>4, <2>5, <2>6 DEF FlowStep, FlowOwnStep
<1>18. ASSUME NEW q \in Request, EchoStep(q) PROVE EndedInv(x)'
  <2>1. ASSUME EchoHeaders(q) \/ EchoData(q) PROVE EndedInv(x)'
    BY <2>1 DEF EchoHeaders, EchoData, Meets
  <2>2. ASSUME EchoWriteFails(q) \/ EchoClientGone(q) PROVE EndedInv(x)'
    BY <2>2 DEF EchoWriteFails, EchoClientGone, Meets, Returns
  <2>3. ASSUME EchoDone(q) \/ EchoCanceled(q) \/ EchoFailed(q) PROVE EndedInv(x)'
    BY <2>3 DEF EchoDone, EchoCanceled, EchoFailed, Meets, Returns
  <2>4. QED
    BY <1>18, <2>1, <2>2, <2>3 DEF EchoStep
<1>19. CASE UNCHANGED vars
  BY <1>19 DEF vars
<1>20. ASSUME NEW s \in Session, SessionStep(s) PROVE EndedInv(x)'
  BY <1>20, <1>2, <1>4, <1>5, <1>6, <1>7, <1>8, <1>9, <1>10, <1>11, <1>12, <1>13, <1>14,
      <1>15 DEF SessionStep, SessionOwnStep
<1>21. QED
  BY <1>16, <1>17, <1>18, <1>19, <1>20 DEF Next

LEMMA NextAskedInv ==
  ASSUME IInv, [Next]_vars, NEW x \in Request
  PROVE  AskedInv(x)'
<1>0. /\ TypeOK
      /\ \A s \in Session : HandlerInv(s)
      /\ \A r \in Request : StreamInv(r) /\ AskedInv(r)
  BY DEF IInv
<1> USE <1>0, SessionAssumption, RouteAssumption, BoundAssumption DEF TypeOK, HandlerInv,
    StreamInv, AskedInv, Started, WFRStates, HTTPStates, FlowStates, Locked, EndStates,
    Refused, sessionVars, managerVars, requestVars, flowVars, echoVars
<1>1. ASSUME NEW s \in Session, Hello(s) PROVE AskedInv(x)'
  BY <1>1 DEF Hello
<1>2. ASSUME NEW s \in Session, AgentLost(s) PROVE AskedInv(x)'
  BY <1>2 DEF AgentLost
<1>3. ASSUME NEW s \in Session, ConnectionCloses(s) PROVE AskedInv(x)'
  BY <1>3 DEF ConnectionCloses
<1>4. ASSUME NEW s \in Session, Expire(s) PROVE AskedInv(x)'
  BY <1>4 DEF Expire
<1>5. ASSUME NEW s \in Session, WaitForRequest(s) PROVE AskedInv(x)'
  BY <1>5 DEF WaitForRequest, Goes
<1>6. ASSUME NEW s \in Session, Register(s) PROVE AskedInv(x)'
  BY <1>6 DEF Register, Goes
<1>7. ASSUME NEW s \in Session, SendRequest(s) PROVE AskedInv(x)'
  BY <1>7 DEF SendRequest, Goes
<1>8. ASSUME NEW s \in Session, SendFails(s) PROVE AskedInv(x)'
  BY <1>8 DEF SendFails, Goes
<1>9. ASSUME NEW s \in Session, ContextDone(s) PROVE AskedInv(x)'
  BY <1>9 DEF ContextDone, Goes
<1>10. ASSUME NEW s \in Session, RemoveSession(s) PROVE AskedInv(x)'
  BY <1>10 DEF RemoveSession, Goes
<1>11. ASSUME NEW s \in Session, FlushLock(s) PROVE AskedInv(x)'
  BY <1>11 DEF FlushLock, Goes
<1>12. ASSUME NEW s \in Session, FlushNext(s) PROVE AskedInv(x)'
  BY <1>12 DEF FlushNext, Goes
<1>13. ASSUME NEW s \in Session, CancelStream(s) PROVE AskedInv(x)'
  BY <1>13 DEF CancelStream, Goes
<1>14. ASSUME NEW s \in Session, FlushDelete(s) PROVE AskedInv(x)'
  BY <1>14 DEF FlushDelete, Goes
<1>15. ASSUME NEW s \in Session, FlushUnlock(s) PROVE AskedInv(x)'
  BY <1>15 DEF FlushUnlock, Goes
<1>16. ASSUME NEW s \in Session, NEW q \in Request, TakeRequest(s, q) PROVE AskedInv(x)'
  BY <1>16 DEF TakeRequest, Goes
<1>17. ASSUME NEW q \in Request, FindSession(q) PROVE AskedInv(x)'
  BY <1>17 DEF FindSession
<1>18. ASSUME NEW q \in Request, NoSuchAgent(q) PROVE AskedInv(x)'
  BY <1>18 DEF NoSuchAgent, Refuse
<1>19. ASSUME NEW q \in Request, BadRequest(q) PROVE AskedInv(x)'
  BY <1>19 DEF BadRequest, Refuse
<1>20. ASSUME NEW q \in Request, OfferRequest(q) PROVE AskedInv(x)'
  BY <1>20 DEF OfferRequest
<1>21. ASSUME NEW q \in Request, ClientLeaves(q) PROVE AskedInv(x)'
  BY <1>21 DEF ClientLeaves
<1>22. ASSUME NEW q \in Request, AgentOpens(q) PROVE AskedInv(x)'
  BY <1>22 DEF AgentOpens
<1>23. ASSUME NEW q \in Request, LookupStream(q) PROVE AskedInv(x)'
  BY <1>23 DEF LookupStream
<1>24. ASSUME NEW q \in Request, RecvHeaders(q) PROVE AskedInv(x)'
  BY <1>24 DEF RecvHeaders, Receives
<1>25. ASSUME NEW q \in Request, RecvData(q) PROVE AskedInv(x)'
  BY <1>25 DEF RecvData, Receives
<1>26. ASSUME NEW q \in Request, RecvDone(q) PROVE AskedInv(x)'
  BY <1>26 DEF RecvDone
<1>27. ASSUME NEW q \in Request, RecvCancel(q) PROVE AskedInv(x)'
  BY <1>27 DEF RecvCancel
<1>28. ASSUME NEW q \in Request, RecvEOF(q) PROVE AskedInv(x)'
  BY <1>28 DEF RecvEOF, Fails
<1>29. ASSUME NEW q \in Request, RecvCanceled(q) PROVE AskedInv(x)'
  BY <1>29 DEF RecvCanceled
<1>30. ASSUME NEW q \in Request, RecvError(q) PROVE AskedInv(x)'
  BY <1>30 DEF RecvError, Fails
<1>31. ASSUME NEW q \in Request, UnregisterStream(q) PROVE AskedInv(x)'
  BY <1>31 DEF UnregisterStream
<1>32. ASSUME NEW q \in Request, EchoHeaders(q) PROVE AskedInv(x)'
  BY <1>32 DEF EchoHeaders, Meets
<1>33. ASSUME NEW q \in Request, EchoData(q) PROVE AskedInv(x)'
  BY <1>33 DEF EchoData, Meets
<1>34. ASSUME NEW q \in Request, EchoWriteFails(q) PROVE AskedInv(x)'
  BY <1>34 DEF EchoWriteFails, Meets, Returns
<1>35. ASSUME NEW q \in Request, EchoDone(q) PROVE AskedInv(x)'
  BY <1>35 DEF EchoDone, Meets, Returns
<1>36. ASSUME NEW q \in Request, EchoCanceled(q) PROVE AskedInv(x)'
  BY <1>36 DEF EchoCanceled, Meets, Returns
<1>37. ASSUME NEW q \in Request, EchoFailed(q) PROVE AskedInv(x)'
  BY <1>37 DEF EchoFailed, Meets, Returns
<1>38. ASSUME NEW q \in Request, EchoClientGone(q) PROVE AskedInv(x)'
  BY <1>38 DEF EchoClientGone, Returns
<1>39. CASE UNCHANGED vars
  BY <1>39 DEF vars
<1>40. ASSUME NEW s \in Session, SessionStep(s) PROVE AskedInv(x)'
  BY <1>40, <1>1, <1>2, <1>3, <1>4, <1>5, <1>6, <1>7, <1>8, <1>9, <1>10, <1>11, <1>12, <1>13,
      <1>14, <1>15, <1>16
    DEF SessionStep, SessionOwnStep
<1>41. ASSUME NEW q \in Request, RequestStep(q) PROVE AskedInv(x)'
  BY <1>41, <1>17, <1>18, <1>19, <1>20, <1>21 DEF RequestStep
<1>42. ASSUME NEW q \in Request, FlowStep(q) PROVE AskedInv(x)'
  BY <1>42, <1>22, <1>23, <1>24, <1>25, <1>26, <1>27, <1>28, <1>29, <1>30, <1>31
    DEF FlowStep, FlowOwnStep
<1>43. ASSUME NEW q \in Request, EchoStep(q) PROVE AskedInv(x)'
  BY <1>43, <1>32, <1>33, <1>34, <1>35, <1>36, <1>37, <1>38 DEF EchoStep
<1>44. QED
  BY <1>39, <1>40, <1>41, <1>42, <1>43 DEF Next

LEMMA NextEchoInv ==
  ASSUME IInv, [Next]_vars, NEW x \in Request
  PROVE  EchoInv(x)'
<1>0. /\ TypeOK
      /\ \A s \in Session : HandlerInv(s)
      /\ \A r \in Request : StreamInv(r) /\ AskedInv(r) /\ EchoInv(r)
  BY DEF IInv
<1> USE <1>0, SessionAssumption, RouteAssumption, BoundAssumption DEF TypeOK, HandlerInv,
    StreamInv, AskedInv, EchoInv, Started, WFRStates, HTTPStates, FlowStates, Locked,
    EndStates, Refused, sessionVars, managerVars, requestVars, flowVars, echoVars
<1>1. ASSUME NEW s \in Session, Hello(s) PROVE EchoInv(x)'
  BY <1>1 DEF Hello
<1>2. ASSUME NEW s \in Session, AgentLost(s) PROVE EchoInv(x)'
  BY <1>2 DEF AgentLost
<1>3. ASSUME NEW s \in Session, ConnectionCloses(s) PROVE EchoInv(x)'
  BY <1>3 DEF ConnectionCloses
<1>4. ASSUME NEW s \in Session, Expire(s) PROVE EchoInv(x)'
  BY <1>4 DEF Expire
<1>5. ASSUME NEW s \in Session, WaitForRequest(s) PROVE EchoInv(x)'
  BY <1>5 DEF WaitForRequest, Goes
<1>6. ASSUME NEW s \in Session, Register(s) PROVE EchoInv(x)'
  BY <1>6 DEF Register, Goes
<1>7. ASSUME NEW s \in Session, SendRequest(s) PROVE EchoInv(x)'
  BY <1>7 DEF SendRequest, Goes
<1>8. ASSUME NEW s \in Session, SendFails(s) PROVE EchoInv(x)'
  BY <1>8 DEF SendFails, Goes
<1>9. ASSUME NEW s \in Session, ContextDone(s) PROVE EchoInv(x)'
  BY <1>9 DEF ContextDone, Goes
<1>10. ASSUME NEW s \in Session, RemoveSession(s) PROVE EchoInv(x)'
  BY <1>10 DEF RemoveSession, Goes
<1>11. ASSUME NEW s \in Session, FlushLock(s) PROVE EchoInv(x)'
  BY <1>11 DEF FlushLock, Goes
<1>12. ASSUME NEW s \in Session, FlushNext(s) PROVE EchoInv(x)'
  BY <1>12 DEF FlushNext, Goes
<1>13. ASSUME NEW s \in Session, CancelStream(s) PROVE EchoInv(x)'
  BY <1>13 DEF CancelStream, Goes
<1>14. ASSUME NEW s \in Session, FlushDelete(s) PROVE EchoInv(x)'
  <2>1. http[cur[s]] \in EndStates /\ UNCHANGED <<http, flow, events, accepted, heads, body>>
    BY <1>14 DEF FlushDelete
  <2>2. x # cur[s] => state'[x] = state[x]
    BY <1>14 DEF FlushDelete
  <2>3. EchoInv(x)
    OBVIOUS
  <2> HIDE <1>0 DEF TypeOK
  <2>4. QED
    BY <2>1, <2>2, <2>3
<1>15. ASSUME NEW s \in Session, FlushUnlock(s) PROVE EchoInv(x)'
  BY <1>15 DEF FlushUnlock, Goes
<1>16. ASSUME NEW s \in Session, NEW q \in Request, TakeRequest(s, q) PROVE EchoInv(x)'
  BY <1>16 DEF TakeRequest, Goes
<1>17. ASSUME NEW q \in Request, FindSession(q) PROVE EchoInv(x)'
  BY <1>17 DEF FindSession
<1>18. ASSUME NEW q \in Request, NoSuchAgent(q) PROVE EchoInv(x)'
  BY <1>18 DEF NoSuchAgent, Refuse
<1>19. ASSUME NEW q \in Request, BadRequest(q) PROVE EchoInv(x)'
  BY <1>19 DEF BadRequest, Refuse
<1>20. ASSUME NEW q \in Request, OfferRequest(q) PROVE EchoInv(x)'
  BY <1>20 DEF OfferRequest
<1>21. ASSUME NEW q \in Request, ClientLeaves(q) PROVE EchoInv(x)'
  BY <1>21 DEF ClientLeaves
<1>22. ASSUME NEW q \in Request, AgentOpens(q) PROVE EchoInv(x)'
  BY <1>22 DEF AgentOpens
<1>23. ASSUME NEW q \in Request, LookupStream(q) PROVE EchoInv(x)'
  BY <1>23 DEF LookupStream
<1>24. ASSUME NEW q \in Request, RecvHeaders(q) PROVE EchoInv(x)'
  BY <1>24 DEF RecvHeaders, Receives
<1>25. ASSUME NEW q \in Request, RecvData(q) PROVE EchoInv(x)'
  BY <1>25 DEF RecvData, Receives
<1>26. ASSUME NEW q \in Request, RecvDone(q) PROVE EchoInv(x)'
  BY <1>26 DEF RecvDone
<1>27. ASSUME NEW q \in Request, RecvCancel(q) PROVE EchoInv(x)'
  BY <1>27 DEF RecvCancel
<1>28. ASSUME NEW q \in Request, RecvEOF(q) PROVE EchoInv(x)'
  <2>1. UNCHANGED <<http, events, accepted, heads, body>> /\ http[q] \in Started
    BY <1>28 DEF RecvEOF, Fails
  <2>2. CASE x = q
    <3>1. \/ state'[q] = "done" /\ flow'[q] = "fail"
          \/ state[q] = "data" /\ UNCHANGED state /\ flow'[q] = "done"
      BY <1>28 DEF RecvEOF, Fails
    <3>2. flow[q] = "recv" /\ EchoInv(q)
      BY <1>28 DEF RecvEOF, Fails
    <3> HIDE <1>0 DEF TypeOK
    <3>3. QED
      BY <2>1, <2>2, <3>1, <3>2
  <2>3. CASE x # q
    <3>1. state'[x] = state[x] /\ flow'[x] = flow[x] /\ EchoInv(x)
      BY <1>28, <2>3 DEF RecvEOF, Fails
    <3> HIDE <1>0 DEF TypeOK
    <3>2. QED
      BY <2>1, <3>1
  <2>4. QED
    BY <2>2, <2>3
<1>29. ASSUME NEW q \in Request, RecvCanceled(q) PROVE EchoInv(x)'
  BY <1>29 DEF RecvCanceled
<1>30. ASSUME NEW q \in Request, RecvError(q) PROVE EchoInv(x)'
  <2>1. UNCHANGED <<http, events, accepted, heads, body>> /\ http[q] \in Started
    BY <1>30 DEF RecvError, Fails
  <2>2. CASE x = q
    <3>1. \/ state'[q] = "done" /\ flow'[q] = "fail"
          \/ state[q] = "data" /\ UNCHANGED state /\ flow'[q] = "done"
      BY <1>30 DEF RecvError, Fails
    <3>2. flow[q] = "recv" /\ EchoInv(q)
      BY <1>30 DEF RecvError, Fails
    <3> HIDE <1>0 DEF TypeOK
    <3>3. QED
      BY <2>1, <2>2, <3>1, <3>2
  <2>3. CASE x # q
    <3>1. state'[x] = state[x] /\ flow'[x] = flow[x] /\ EchoInv(x)
      BY <1>30, <2>3 DEF RecvError, Fails
    <3> HIDE <1>0 DEF TypeOK
    <3>2. QED
      BY <2>1, <3>1
  <2>4. QED
    BY <2>2, <2>3
<1>31. ASSUME NEW q \in Request, UnregisterStream(q) PROVE EchoInv(x)'
  BY <1>31 DEF UnregisterStream
<1>32. ASSUME NEW q \in Request, EchoHeaders(q) PROVE EchoInv(x)'
  BY <1>32 DEF EchoHeaders, Meets
<1>33. ASSUME NEW q \in Request, EchoData(q) PROVE EchoInv(x)'
  BY <1>33 DEF EchoData, Meets
<1>34. ASSUME NEW q \in Request, EchoWriteFails(q) PROVE EchoInv(x)'
  BY <1>34 DEF EchoWriteFails, Meets, Returns
<1>35. ASSUME NEW q \in Request, EchoDone(q) PROVE EchoInv(x)'
  BY <1>35 DEF EchoDone, Meets, Returns
<1>36. ASSUME NEW q \in Request, EchoCanceled(q) PROVE EchoInv(x)'
  BY <1>36 DEF EchoCanceled, Meets, Returns
<1>37. ASSUME NEW q \in Request, EchoFailed(q) PROVE EchoInv(x)'
  BY <1>37 DEF EchoFailed, Meets, Returns
<1>38. ASSUME NEW q \in Request, EchoClientGone(q) PROVE EchoInv(x)'
  BY <1>38 DEF EchoClientGone, Returns
<1>39. CASE UNCHANGED vars
  BY <1>39 DEF vars
<1>40. ASSUME NEW s \in Session, SessionStep(s) PROVE EchoInv(x)'
  BY <1>40, <1>1, <1>2, <1>3, <1>4, <1>5, <1>6, <1>7, <1>8, <1>9, <1>10, <1>11, <1>12, <1>13,
      <1>14, <1>15, <1>16
    DEF SessionStep, SessionOwnStep
<1>41. ASSUME NEW q \in Request, RequestStep(q) PROVE EchoInv(x)'
  BY <1>41, <1>17, <1>18, <1>19, <1>20, <1>21 DEF RequestStep
<1>42. ASSUME NEW q \in Request, FlowStep(q) PROVE EchoInv(x)'
  BY <1>42, <1>22, <1>23, <1>24, <1>25, <1>26, <1>27, <1>28, <1>29, <1>30, <1>31
    DEF FlowStep, FlowOwnStep
<1>43. ASSUME NEW q \in Request, EchoStep(q) PROVE EchoInv(x)'
  BY <1>43, <1>32, <1>33, <1>34, <1>35, <1>36, <1>37, <1>38 DEF EchoStep
<1>44. QED
  BY <1>39, <1>40, <1>41, <1>42, <1>43 DEF Next

LEMMA StepInvariant == IInv /\ [Next]_vars => IInv'
  BY NextTypeOK, NextLinkInv, NextHandlerInv, NextStreamInv, NextEndedInv, NextAskedInv,
     NextEchoInv DEF IInv

\* The three parts together are an invariant of the specification.
THEOREM Invariance == Spec => []IInv
  BY InitIInv, StepInvariant, PTL DEF Spec

-----------------------------------------------------------------------------
(* What follows from it. *)

\* The variables of the data path keep their types.
THEOREM TypeCorrect == Spec => []TypeOK
<1>1. IInv => TypeOK
  BY DEF IInv
<1>2. QED
  BY Invariance, <1>1, PTL

\* A WaitForRequest handler that has returned leaves no stream of its session
\* behind, whatever the other sessions, flows and clients did meanwhile.
THEOREM FlushIsComplete == Spec => []FlushComplete
<1>1. IInv => FlushComplete
  BY DEF IInv, TypeOK, StreamInv, FlushComplete
<1>2. QED
  BY Invariance, <1>1, PTL

\* An agent that answers what it was asked finds its stream, or its session is
\* being closed.
THEOREM AskedStreamsAreKnown == Spec => []AskedStreamIsKnown
<1>1. IInv => AskedStreamIsKnown
  BY DEF IInv, AskedInv, AskedStreamIsKnown
<1>2. QED
  BY Invariance, <1>1, PTL

\* A flush that waits in Cancel for nobody waits behind a client that has left or a
\* data flow that waits for the flush: there is no third way to be stuck.
THEOREM StuckOnlyBehind == Spec => []StuckBehind
<1>1. IInv => StuckBehind
  <2> SUFFICES ASSUME IInv, NEW s \in Session, wfr[s] = "cancel"
               PROVE  \/ http[cur[s]] \in {"echo", "left"}
                      \/ /\ http[cur[s]] \in {"done", "canceled", "failed"}
                         /\ flow[cur[s]] = "unregister"
    BY DEF StuckBehind
  <2>1. cur[s] \in Request /\ route[cur[s]] = s /\ cur[s] \in streams
    BY DEF IInv, HandlerInv, Locked
  <2>2. http[cur[s]] \in Started /\ EndedInv(cur[s])
    BY <2>1 DEF IInv, StreamInv
  <2>3. QED
    BY <2>1, <2>2 DEF Started, EndedInv
<1>2. QED
  BY Invariance, <1>1, PTL

-----------------------------------------------------------------------------
(* A flush counts down. *)

\* While s has the lock, only its own flush changes where it is, what it has left to
\* do and the table: who else would, waits for the lock.
LEMMA OthersWait ==
  ASSUME IInv, [Next]_vars, NEW s \in Session, lock = s,
         ~(FlushNext(s) \/ CancelStream(s) \/ FlushDelete(s) \/ FlushUnlock(s))
  PROVE  UNCHANGED <<lock, streams, wfr[s], targets[s]>>
<1>0. /\ TypeOK /\ s # NoSession /\ wfr[s] \in Locked
      /\ \A t \in Session : wfr[t] \in Locked => t = s
  BY SessionAssumption DEF IInv, HandlerInv
<1> USE <1>0 DEF TypeOK, Locked, sessionVars, managerVars
<1>1. ASSUME NEW t \in Session,
             Hello(t) \/ AgentLost(t) \/ ConnectionCloses(t) \/ Expire(t)
      PROVE  UNCHANGED <<lock, streams, wfr[s], targets[s]>>
  BY <1>1 DEF Hello, AgentLost, ConnectionCloses, Expire
<1>2. ASSUME NEW t \in Session,
             WaitForRequest(t) \/ (\E r \in Request : TakeRequest(t, r)) \/ Register(t)
                \/ SendRequest(t)
      PROVE  UNCHANGED <<lock, streams, wfr[s], targets[s]>>
  BY <1>2 DEF WaitForRequest, TakeRequest, Register, SendRequest, Goes
<1>3. ASSUME NEW t \in Session, SendFails(t) \/ ContextDone(t) \/ RemoveSession(t)
                \/ FlushLock(t)
      PROVE  UNCHANGED <<lock, streams, wfr[s], targets[s]>>
  BY <1>3 DEF SendFails, ContextDone, RemoveSession, FlushLock, Goes
<1>4. ASSUME NEW t \in Session,
             FlushNext(t) \/ CancelStream(t) \/ FlushDelete(t) \/ FlushUnlock(t)
      PROVE  UNCHANGED <<lock, streams, wfr[s], targets[s]>>
  BY <1>4 DEF FlushNext, CancelStream, FlushDelete, FlushUnlock
<1>5. ASSUME NEW r \in Request, RequestStep(r) \/ FlowStep(r) \/ EchoStep(r)
      PROVE  UNCHANGED <<lock, streams>>
  <2>1. CASE RequestStep(r)
    BY <2>1 DEF RequestStep, FindSession, NoSuchAgent, BadRequest, Refuse, OfferRequest,
      ClientLeaves
  <2>2. CASE FlowStep(r)
    BY <2>2 DEF FlowStep, FlowOwnStep, AgentOpens, LookupStream, RecvHeaders, RecvData,
      RecvDone, RecvCancel, RecvEOF, RecvCanceled, RecvError, Fails, UnregisterStream
  <2>3. CASE EchoStep(r)
    BY <2>3 DEF EchoStep, EchoHeaders, EchoData, EchoWriteFails, EchoDone, EchoCanceled,
      EchoFailed, EchoClientGone, Meets
  <2>4. QED
    BY <1>5, <2>1, <2>2, <2>3
<1>6. ASSUME NEW r \in Request, RequestStep(r) \/ FlowStep(r) \/ EchoStep(r)
      PROVE  UNCHANGED <<lock, streams, wfr[s], targets[s]>>
  BY <1>5, <1>6, OnlySessionsWait
<1>7. CASE UNCHANGED vars
  BY <1>7 DEF vars
<1>8. ASSUME NEW t \in Session, SessionStep(t)
      PROVE  UNCHANGED <<lock, streams, wfr[s], targets[s]>>
  BY <1>8, <1>1, <1>2, <1>3, <1>4 DEF SessionStep, SessionOwnStep
<1>9. QED
  BY <1>6, <1>7, <1>8 DEF Next

\* Each step of a flush takes it down: a stream is chosen, canceled, deleted, and once
\* none is left the lock is given back.
LEMMA FlushGoesDown ==
  ASSUME IInv, NEW s \in Session, lock = s,
         FlushNext(s) \/ CancelStream(s) \/ FlushDelete(s) \/ FlushUnlock(s)
  PROVE  /\ \/ lock' = s /\ targets'[s] \subseteq targets[s] /\ targets'[s] # targets[s]
            \/ /\ lock' = s /\ targets'[s] = targets[s]
               /\ FlushStage[wfr'[s]] < FlushStage[wfr[s]]
            \/ lock' = NoSession /\ targets[s] = {}
         /\ streams' \subseteq streams /\ streams \ streams' \subseteq targets[s]
<1> USE DEF TypeOK, managerVars
<1>1. TypeOK /\ HandlerInv(s)
  BY DEF IInv
<1>2. CASE FlushNext(s)
  BY <1>1, <1>2 DEF FlushNext, Goes, FlushStage
<1>3. CASE CancelStream(s)
  BY <1>1, <1>3 DEF CancelStream, Goes, FlushStage
<1>4. CASE FlushDelete(s)
  BY <1>1, <1>4 DEF FlushDelete, Goes, HandlerInv
<1>5. CASE FlushUnlock(s)
  BY <1>1, <1>5 DEF FlushUnlock
<1>6. QED
  BY <1>2, <1>3, <1>4, <1>5

\* A flush never turns back and nobody changes the table under it, whatever the number
\* of streams: it can only be held up in Cancel.
THEOREM FlushGetsOn == Spec => FlushCountsDown
<1>1. IInv /\ [Next]_vars =>
        [\A s \in Session : lock = s =>
            /\ \/ lock' = s /\ UNCHANGED <<wfr[s], targets[s]>>
               \/ lock' = s /\ targets'[s] \subseteq targets[s] /\ targets'[s] # targets[s]
               \/ lock' = s /\ targets'[s] = targets[s] /\ FlushStage[wfr'[s]] < FlushStage[wfr[s]]
               \/ lock' = NoSession /\ targets[s] = {}
            /\ streams' \subseteq streams /\ streams \ streams' \subseteq targets[s]]_vars
  BY OthersWait, FlushGoesDown
<1>2. QED
  BY Invariance, <1>1, PTL DEF Spec, FlushCountsDown

-----------------------------------------------------------------------------
(* The data path implements the contract of SessionTable, too. *)

\* The entry of every session, as that contract sees it.
Entry == [s \in Session |->
            IF s \in agents THEN "in" ELSE IF conn[s] = "none" THEN "none" ELSE "out"]

LEMMA InitTable == Init => Table!Init
  BY DEF Init, Table!Init

\* A session is taken out, by the reaper, by removeSession, or once more by the
\* deferred one, when its connection is lost.
LEMMA RemovalIsLeave ==
  ASSUME IInv, NEW s \in Session, conn[s] \in {"lost", "closed"},
         agents' = agents \ {s}, UNCHANGED conn
  PROVE  [Table!Next]_(Table!vars)
<1>1. CASE s \notin agents
  BY <1>1 DEF Table!vars
<1>2. CASE s \in agents
  <2>1. Entry[s] = "in" /\ Entry' = [t \in Session |-> IF t \in {s} THEN "out" ELSE Entry[t]]
    BY <1>2 DEF Entry, IInv, TypeOK
  <2>2. Table!Leave({s})
    BY <2>1 DEF Table!Leave, Entry
  <2>3. QED
    BY <2>2 DEF Table!Next
<1>3. QED
  BY <1>1, <1>2

LEMMA TableRefines ==
  ASSUME IInv, [Next]_vars
  PROVE  [Table!Next]_(Table!vars)
<1>0. TypeOK /\ \A s \in Session : LinkInv(s)
  BY DEF IInv
<1> USE <1>0 DEF TypeOK, LinkInv, Locked
<1>1. ASSUME NEW s \in Session, Hello(s) PROVE [Table!Next]_(Table!vars)
  <2>1. Entry[s] = "none" /\ Entry' = [Entry EXCEPT ![s] = "in"]
    BY <1>1 DEF Hello, Entry
  <2>2. Table!Enter(s)
    BY <1>1, <2>1 DEF Hello, Table!Enter, Entry
  <2>3. QED
    BY <2>2 DEF Table!Next
<1>2. ASSUME NEW s \in Session, AgentLost(s) PROVE [Table!Next]_(Table!vars)
  <2>1. Entry' = Entry
    BY <1>2 DEF AgentLost, Entry
  <2>2. {t \in Session : conn[t] \in {"lost", "closed"}}'
            = {t \in Session : conn[t] \in {"lost", "closed"}} \cup {s}
    BY <1>2 DEF AgentLost
  <2>3. Table!AgentGoes(s)
    BY <2>1, <2>2 DEF Table!AgentGoes, Entry
  <2>4. QED
    BY <2>3 DEF Table!Next
<1>3. ASSUME NEW s \in Session, ConnectionCloses(s) PROVE [Table!Next]_(Table!vars)
  BY <1>3 DEF ConnectionCloses, Table!vars
<1>4. ASSUME NEW s \in Session, Expire(s) \/ RemoveSession(s) \/ FlushUnlock(s)
      PROVE  [Table!Next]_(Table!vars)
  BY <1>4, RemovalIsLeave DEF Expire, RemoveSession, FlushUnlock
<1>5. CASE UNCHANGED <<agents, conn>>
  BY <1>5 DEF Table!vars
<1>6. ASSUME NEW s \in Session, SessionStep(s) PROVE [Table!Next]_(Table!vars)
  BY <1>1, <1>2, <1>3, <1>4, <1>5, <1>6 DEF SessionStep, SessionOwnStep, WaitForRequest,
    TakeRequest, Register, SendRequest, SendFails, ContextDone, FlushLock, FlushNext,
    CancelStream, FlushDelete
<1>7. CASE UNCHANGED vars
  BY <1>5, <1>7 DEF vars, sessionVars
<1>8. QED
  BY <1>5, <1>6, <1>7, OnlySessionsMove DEF Next

\* What AgentSessions promises of the table (TableIsKept), the end of WaitForRequest
\* keeps as well, with all that a flush does between its two removals.
THEOREM TableIsKept == Spec => TableContract
<1>1. IInv /\ [Next]_vars => [Table!Next]_(Table!vars)
  BY TableRefines
<1>2. QED
  BY InitTable, Invariance, <1>1, PTL DEF Spec, TableContract, Table!Spec

-----------------------------------------------------------------------------
(* The data path implements the contract of HTTPResponse. *)

\* The phase of every response, as the contract sees it.
Bar == [r \in Request |-> Phase(http[r])]

LEMMA InitRefines == Init => Response!Init
  BY DEF Init, Response!Init, Phase

\* Each step of the data path is a step of one response, or none of the contract.
LEMMA StepRefines ==
  ASSUME IInv, [Next]_vars
  PROVE  [Response!Next]_(Response!vars)
<1>0. /\ TypeOK
      /\ \A r \in Request : AskedInv(r) /\ EchoInv(r)
      /\ \A s \in Session : HandlerInv(s)
  BY DEF IInv
<1> USE <1>0 DEF TypeOK, AskedInv, EchoInv, Started, EndStates, Refused, sessionVars,
    managerVars, requestVars, flowVars, echoVars, Response!vars
<1>1. ASSUME NEW s \in Session, Hello(s) PROVE [Response!Next]_(Response!vars)
  BY <1>1 DEF Hello
<1>2. ASSUME NEW s \in Session, AgentLost(s) PROVE [Response!Next]_(Response!vars)
  BY <1>2 DEF AgentLost
<1>3. ASSUME NEW s \in Session, ConnectionCloses(s) PROVE [Response!Next]_(Response!vars)
  BY <1>3 DEF ConnectionCloses
<1>4. ASSUME NEW s \in Session, Expire(s) PROVE [Response!Next]_(Response!vars)
  BY <1>4 DEF Expire
<1>5. ASSUME NEW s \in Session, WaitForRequest(s) PROVE [Response!Next]_(Response!vars)
  BY <1>5 DEF WaitForRequest, Goes
<1>6. ASSUME NEW s \in Session, Register(s) PROVE [Response!Next]_(Response!vars)
  BY <1>6 DEF Register, Goes
<1>7. ASSUME NEW s \in Session, SendRequest(s) PROVE [Response!Next]_(Response!vars)
  BY <1>7 DEF SendRequest, Goes
<1>8. ASSUME NEW s \in Session, SendFails(s) PROVE [Response!Next]_(Response!vars)
  BY <1>8 DEF SendFails, Goes
<1>9. ASSUME NEW s \in Session, ContextDone(s) PROVE [Response!Next]_(Response!vars)
  BY <1>9 DEF ContextDone, Goes
<1>10. ASSUME NEW s \in Session, RemoveSession(s) PROVE [Response!Next]_(Response!vars)
  BY <1>10 DEF RemoveSession, Goes
<1>11. ASSUME NEW s \in Session, FlushLock(s) PROVE [Response!Next]_(Response!vars)
  BY <1>11 DEF FlushLock, Goes
<1>12. ASSUME NEW s \in Session, FlushNext(s) PROVE [Response!Next]_(Response!vars)
  BY <1>12 DEF FlushNext, Goes
<1>13. ASSUME NEW s \in Session, CancelStream(s) PROVE [Response!Next]_(Response!vars)
  <2>1. cur[s] \in Request /\ http[cur[s]] = "echo" /\ Bar[cur[s]] = "open"
    BY <1>13 DEF CancelStream, Goes, HandlerInv, Bar, Phase
  <2>2. Bar' = [Bar EXCEPT ![cur[s]] = "cut"]
    BY <1>13, <2>1 DEF CancelStream, Goes, HandlerInv, Bar, Phase
  <2>3. Response!Cut(cur[s])
    BY <1>13, <2>1, <2>2 DEF CancelStream, Goes, HandlerInv, Response!Cut, Bar
  <2>4. QED
    BY <2>1, <2>3 DEF Response!Next
<1>14. ASSUME NEW s \in Session, FlushDelete(s) PROVE [Response!Next]_(Response!vars)
  BY <1>14 DEF FlushDelete, Goes
<1>15. ASSUME NEW s \in Session, FlushUnlock(s) PROVE [Response!Next]_(Response!vars)
  BY <1>15 DEF FlushUnlock, Goes
<1>16. ASSUME NEW s \in Session, NEW q \in Request, TakeRequest(s, q) PROVE
    [Response!Next]_(Response!vars)
  <2>1. Bar' = Bar
    BY <1>16 DEF TakeRequest, Goes, Bar, Phase
  <2>2. QED
    BY <1>16, <2>1 DEF TakeRequest, Goes, Bar
<1>17. ASSUME NEW q \in Request, FindSession(q) PROVE [Response!Next]_(Response!vars)
  <2>1. q \in Request /\ http[q] = "idle" /\ Bar[q] = "none"
    BY <1>17 DEF FindSession, Bar, Phase
  <2>2. Bar' = [Bar EXCEPT ![q] = "open"]
    BY <1>17, <2>1 DEF FindSession, Bar, Phase
  <2>3. Response!Open(q)
    BY <1>17, <2>1, <2>2 DEF FindSession, Response!Open, Bar
  <2>4. QED
    BY <2>1, <2>3 DEF Response!Next
<1>18. ASSUME NEW q \in Request, NoSuchAgent(q) PROVE [Response!Next]_(Response!vars)
  <2>0. heads[q] = 0
    BY <1>18 DEF NoSuchAgent, Refuse
  <2>1. q \in Request /\ http[q] = "idle" /\ Bar[q] = "none"
    BY <1>18 DEF NoSuchAgent, Refuse, Bar, Phase
  <2>2. Bar' = [Bar EXCEPT ![q] = "cut"]
    BY <1>18, <2>1 DEF NoSuchAgent, Refuse, Bar, Phase
  <2>3. Response!Cut(q)
    BY <1>18, <2>0, <2>1, <2>2 DEF NoSuchAgent, Refuse, Response!Cut, Bar
  <2>4. QED
    BY <2>1, <2>3 DEF Response!Next
<1>19. ASSUME NEW q \in Request, BadRequest(q) PROVE [Response!Next]_(Response!vars)
  <2>0. heads[q] = 0
    BY <1>19 DEF BadRequest, Refuse
  <2>1. q \in Request /\ http[q] = "body" /\ Bar[q] = "open"
    BY <1>19 DEF BadRequest, Refuse, Bar, Phase
  <2>2. Bar' = [Bar EXCEPT ![q] = "cut"]
    BY <1>19, <2>1 DEF BadRequest, Refuse, Bar, Phase
  <2>3. Response!Cut(q)
    BY <1>19, <2>0, <2>1, <2>2 DEF BadRequest, Refuse, Response!Cut, Bar
  <2>4. QED
    BY <2>1, <2>3 DEF Response!Next
<1>20. ASSUME NEW q \in Request, OfferRequest(q) PROVE [Response!Next]_(Response!vars)
  <2>1. Bar' = Bar
    BY <1>20 DEF OfferRequest, Bar, Phase
  <2>2. QED
    BY <1>20, <2>1 DEF OfferRequest, Bar
<1>21. ASSUME NEW q \in Request, ClientLeaves(q) PROVE [Response!Next]_(Response!vars)
  BY <1>21 DEF ClientLeaves
<1>22. ASSUME NEW q \in Request, AgentOpens(q) PROVE [Response!Next]_(Response!vars)
  BY <1>22 DEF AgentOpens
<1>23. ASSUME NEW q \in Request, LookupStream(q) PROVE [Response!Next]_(Response!vars)
  BY <1>23 DEF LookupStream
<1>24. ASSUME NEW q \in Request, RecvHeaders(q) PROVE [Response!Next]_(Response!vars)
  BY <1>24 DEF RecvHeaders, Receives
<1>25. ASSUME NEW q \in Request, RecvData(q) PROVE [Response!Next]_(Response!vars)
  <2>1. CASE UNCHANGED accepted
    BY <1>25, <2>1 DEF RecvData
  <2>2. CASE state[q] = "data"
    <3>1. accepted' = [accepted EXCEPT ![q] = Append(@, events'[q])]
          /\ events'[q] \in 1..MaxEvents
      BY <1>25, <2>2, BoundAssumption DEF RecvData, Receives
    <3>2. Phase(http[q]) # "complete" /\ Bar' = Bar
      <4>1. UNCHANGED http /\ http[q] # "done"
        BY <1>25 DEF RecvData, Receives
      <4>2. Phase(http[q]) # "complete"
        BY <4>1 DEF Phase
      <4>3. QED
        BY <4>1, <4>2 DEF Bar
    <3>3. UNCHANGED <<heads, body>>
      BY <1>25 DEF RecvData
    <3>4. Response!Say(q)
      <4> HIDE <1>0 DEF TypeOK
      <4>1. QED
        BY <3>1, <3>2, <3>3 DEF Response!Say, Bar
    <3>5. QED
      BY <3>4 DEF Response!Next
  <2>3. QED
    BY <1>25, <2>1, <2>2 DEF RecvData
<1>26. ASSUME NEW q \in Request, RecvDone(q) PROVE [Response!Next]_(Response!vars)
  BY <1>26 DEF RecvDone
<1>27. ASSUME NEW q \in Request, RecvCancel(q) PROVE [Response!Next]_(Response!vars)
  BY <1>27 DEF RecvCancel
<1>28. ASSUME NEW q \in Request, RecvEOF(q) PROVE [Response!Next]_(Response!vars)
  BY <1>28 DEF RecvEOF, Fails
<1>29. ASSUME NEW q \in Request, RecvCanceled(q) PROVE [Response!Next]_(Response!vars)
  BY <1>29 DEF RecvCanceled
<1>30. ASSUME NEW q \in Request, RecvError(q) PROVE [Response!Next]_(Response!vars)
  BY <1>30 DEF RecvError, Fails
<1>31. ASSUME NEW q \in Request, UnregisterStream(q) PROVE [Response!Next]_(Response!vars)
  BY <1>31 DEF UnregisterStream
<1>32. ASSUME NEW q \in Request, EchoHeaders(q) PROVE [Response!Next]_(Response!vars)
  <2>0. heads[q] = 0
    BY <1>32 DEF EchoHeaders, Meets
  <2>1. q \in Request /\ http[q] = "echo" /\ Bar[q] = "open"
    BY <1>32 DEF EchoHeaders, Meets, Bar, Phase
  <2>2. Bar' = Bar
    BY <1>32 DEF EchoHeaders, Meets, Bar
  <2>3. Response!StatusLine(q)
    BY <1>32, <2>0, <2>1, <2>2 DEF EchoHeaders, Meets, Response!StatusLine, Bar
  <2>4. QED
    BY <2>1, <2>3 DEF Response!Next
<1>33. ASSUME NEW q \in Request, EchoData(q) PROVE [Response!Next]_(Response!vars)
  <2>1. q \in Request /\ http[q] = "echo" /\ Bar[q] = "open"
    BY <1>33 DEF EchoData, Meets, Bar, Phase
  <2>2. Bar' = Bar
    BY <1>33 DEF EchoData, Meets, Bar
  <2>3. accepted[q] = Append(body[q], events[q]) /\ heads[q] = 1
    BY <1>33 DEF EchoData, Meets
  <2>4. Len(body[q]) < Len(accepted[q]) /\ events[q] = accepted[q][Len(body[q]) + 1]
    <3>1. body[q] \in Seq(1..MaxEvents)
      BY DEF DataEvents
    <3> HIDE <1>0 DEF TypeOK
    <3>2. QED
      BY <2>3, <3>1
  <2>5. body' = [body EXCEPT ![q] = Append(@, accepted[q][Len(@) + 1])]
    BY <1>33, <2>4 DEF EchoData
  <2>6. heads' = heads /\ UNCHANGED accepted
    BY <1>33, <2>3 DEF EchoData, Meets
  <2>7. Response!Chunk(q)
    <3> HIDE <1>0 DEF TypeOK
    <3>1. QED
      BY <2>1, <2>2, <2>3, <2>4, <2>5, <2>6 DEF Response!Chunk, Bar
  <2>8. QED
    BY <2>1, <2>7 DEF Response!Next
<1>34. ASSUME NEW q \in Request, EchoWriteFails(q) PROVE [Response!Next]_(Response!vars)
  <2>1. q \in Request /\ http[q] = "echo" /\ Bar[q] = "open"
    BY <1>34 DEF EchoWriteFails, Meets, Returns, Bar, Phase
  <2>2. Bar' = [Bar EXCEPT ![q] = "cut"]
    BY <1>34, <2>1 DEF EchoWriteFails, Meets, Returns, Bar, Phase
  <2>3. Response!Cut(q)
    BY <1>34, <2>1, <2>2 DEF EchoWriteFails, Meets, Returns, Response!Cut, Bar
  <2>4. QED
    BY <2>1, <2>3 DEF Response!Next
<1>35. ASSUME NEW q \in Request, EchoDone(q) PROVE [Response!Next]_(Response!vars)
  <2>1. q \in Request /\ http[q] = "echo" /\ Bar[q] = "open"
    BY <1>35 DEF EchoDone, Meets, Returns, Bar, Phase
  <2>2. Bar' = [Bar EXCEPT ![q] = "complete"]
    BY <1>35, <2>1 DEF EchoDone, Meets, Returns, Bar, Phase
  <2>3. Response!Complete(q)
    BY <1>35, <2>1, <2>2 DEF EchoDone, Meets, Returns, Response!Complete, Bar
  <2>4. QED
    BY <2>1, <2>3 DEF Response!Next
<1>36. ASSUME NEW q \in Request, EchoCanceled(q) PROVE [Response!Next]_(Response!vars)
  <2>1. q \in Request /\ http[q] = "echo" /\ Bar[q] = "open"
    BY <1>36 DEF EchoCanceled, Meets, Returns, Bar, Phase
  <2>2. Bar' = [Bar EXCEPT ![q] = "cut"]
    BY <1>36, <2>1 DEF EchoCanceled, Meets, Returns, Bar, Phase
  <2>3. Response!Cut(q)
    BY <1>36, <2>1, <2>2 DEF EchoCanceled, Meets, Returns, Response!Cut, Bar
  <2>4. QED
    BY <2>1, <2>3 DEF Response!Next
<1>37. ASSUME NEW q \in Request, EchoFailed(q) PROVE [Response!Next]_(Response!vars)
  <2>1. q \in Request /\ http[q] = "echo" /\ Bar[q] = "open"
    BY <1>37 DEF EchoFailed, Meets, Returns, Bar, Phase
  <2>2. Bar' = [Bar EXCEPT ![q] = "cut"]
    BY <1>37, <2>1 DEF EchoFailed, Meets, Returns, Bar, Phase
  <2>3. Response!Cut(q)
    BY <1>37, <2>1, <2>2 DEF EchoFailed, Meets, Returns, Response!Cut, Bar
  <2>4. QED
    BY <2>1, <2>3 DEF Response!Next
<1>38. ASSUME NEW q \in Request, EchoClientGone(q) PROVE [Response!Next]_(Response!vars)
  <2>1. q \in Request /\ http[q] = "echo" /\ Bar[q] = "open"
    BY <1>38 DEF EchoClientGone, Returns, Bar, Phase
  <2>2. Bar' = [Bar EXCEPT ![q] = "cut"]
    BY <1>38, <2>1 DEF EchoClientGone, Returns, Bar, Phase
  <2>3. Response!Cut(q)
    BY <1>38, <2>1, <2>2 DEF EchoClientGone, Returns, Response!Cut, Bar
  <2>4. QED
    BY <2>1, <2>3 DEF Response!Next
<1>39. CASE UNCHANGED vars
  BY <1>39 DEF vars
<1>40. ASSUME NEW s \in Session, SessionStep(s) PROVE [Response!Next]_(Response!vars)
  BY <1>40, <1>1, <1>2, <1>3, <1>4, <1>5, <1>6, <1>7, <1>8, <1>9, <1>10, <1>11, <1>12, <1>13,
      <1>14, <1>15, <1>16
    DEF SessionStep, SessionOwnStep
<1>41. ASSUME NEW q \in Request, RequestStep(q) PROVE
    [Response!Next]_(Response!vars)
  BY <1>41, <1>17, <1>18, <1>19, <1>20, <1>21 DEF RequestStep
<1>42. ASSUME NEW q \in Request, FlowStep(q) PROVE
    [Response!Next]_(Response!vars)
  BY <1>42, <1>22, <1>23, <1>24, <1>25, <1>26, <1>27, <1>28, <1>29, <1>30, <1>31
    DEF FlowStep, FlowOwnStep
<1>43. ASSUME NEW q \in Request, EchoStep(q) PROVE
    [Response!Next]_(Response!vars)
  BY <1>43, <1>32, <1>33, <1>34, <1>35, <1>36, <1>37, <1>38 DEF EchoStep
<1>44. QED
  BY <1>39, <1>40, <1>41, <1>42, <1>43 DEF Next

\* Whatever agents, clients, losses and interleavings do, the client of each
\* request sees a response that keeps the contract of HTTPResponse.
THEOREM KeepsContract == Spec => ResponseContract
<1>1. IInv /\ [Next]_vars => [Response!Next]_(Response!vars)
  BY StepRefines
<1>2. QED
  BY InitRefines, Invariance, <1>1, PTL DEF Spec, ResponseContract, Response!Spec
=============================================================================
