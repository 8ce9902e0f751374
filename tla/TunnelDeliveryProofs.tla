------------------------- MODULE TunnelDeliveryProofs -------------------------
(***************************************************************************)
(* Theorem of Tunnel about the delivery of requests and answers: while the *)
(* connection is up, a request whose runEcho waits is in exactly one place *)
(* on its way to the agent, and once it is there its answer is on the way. *)
(***************************************************************************)
EXTENDS TunnelProofs

(***************************************************************************)
(* The inductive invariant, on top of that of TunnelProofs: where the      *)
(* agent's requests are, and what the requests that wait have behind them. *)
(***************************************************************************)

\* What an agent is asked it has received or will receive, and once.
PlaceInv ==
    /\ \A i, j \in DOMAIN inbox : inbox[i] = inbox[j] => i = j
    /\ \A r \in Request :
        /\ r \in asked <=> Queued(r) \/ caller[r] # "none"
        /\ ~(Queued(r) /\ caller[r] # "none")

InHandler(r) == wfr[session] \in {"register", "send"} /\ cur[session] = r

\* A request that waits has been sent or is about to be, and no data flow of it has
\* been turned away or has come to its end.
WaitInv ==
    link = "up" => \A r \in Request : http[r] = "echo" =>
        /\ r \in asked \/ InHandler(r)
        /\ flow[r] \notin {"rejected", "unregister", "ended"}

WayInv == PlaceInv /\ WaitInv

-----------------------------------------------------------------------------
(* Where the requests are. *)

LEMMA PlacesRest ==
    ASSUME PlaceInv, UNCHANGED <<inbox, asked>>,
           \A r \in Request : caller'[r] = "none" <=> caller[r] = "none"
    PROVE  PlaceInv'
BY DEF PlaceInv, Queued

\* No step of a caller or a sender receives a request or forgets one.
LEMMA CallersRemain ==
    ASSUME AgentP!TypeOK, NEW r \in Request, AgentP!CallerStep(r) \/ AgentP!SenderStep(r)
    PROVE  \A q \in Request : caller'[q] = "none" <=> caller[q] = "none"
<1> USE DEF AgentP!TypeOK, AgentP!callVars, AgentP!Goes
<1>1. CASE AgentP!CallerStep(r)
    BY <1>1 DEF AgentP!CallerStep, AgentP!DoFails, AgentP!DoReturns, AgentP!CheckContext,
        AgentP!BodyFills, AgentP!ReadsData, AgentP!ReadsNothing, AgentP!ReadsOn,
        AgentP!ReadEnds, AgentP!ReadFails, AgentP!DataPanics, AgentP!FailPanics,
        AgentP!Panics, AgentP!Shutdown, AgentP!Ends
<1>2. CASE AgentP!SenderStep(r)
    BY <1>2 DEF AgentP!SenderStep, AgentP!SenderOwnStep, AgentP!SenderOpens,
        AgentP!SenderFails, AgentP!HandHeaders, AgentP!HandData, AgentP!HandDone,
        AgentP!HandCancel, AgentP!HandFailure, AgentP!HandShutdown, AgentP!Hand,
        AgentP!SenderSends, AgentP!SenderDrops, AgentP!SenderCloses, AgentP!SenderReturns
<1> QED
    BY <1>1, <1>2

\* The handler sends a request that the agent has not been asked.
LEMMA SendPlaces ==
    ASSUME IInv, PlaceInv, SendRequest
    PROVE  PlaceInv'
<1>1. /\ ControllerP!SendRequest(session) /\ caller' = caller
      /\ inbox' = IF conn[session] = "up" THEN Append(inbox, cur[session]) ELSE inbox
    BY SameController DEF SendRequest, agentVars
<1>2. /\ inbox \in Seq(Request) /\ cur[session] \in Request /\ cur[session] \notin asked
    BY <1>1 DEF IInv, ControllerP!IInv, ControllerP!HandlerInv, ControllerP!SendRequest
<1>3. CASE conn[session] # "up"
    BY <1>1, <1>3, PlacesRest DEF ControllerP!SendRequest
<1>4. CASE conn[session] = "up"
    <2> DEFINE c == cur[session]
    <2>1. inbox' = Append(inbox, c) /\ asked' = asked \cup {c}
        BY <1>1, <1>4 DEF ControllerP!SendRequest
    <2>2. /\ DOMAIN inbox = 1..Len(inbox) /\ Len(inbox) \in Nat
          /\ DOMAIN inbox' = 1..(Len(inbox) + 1)
          /\ inbox'[Len(inbox) + 1] = c
          /\ \A i \in 1..Len(inbox) : inbox'[i] = inbox[i]
        BY <1>2, <2>1
    <2>3. ~Queued(c) /\ caller[c] = "none"
        BY <1>2 DEF PlaceInv
    <2>4. \A r : Queued(r)' <=> Queued(r) \/ r = c
        BY <2>2 DEF Queued
    <2>5. \A i, j \in DOMAIN inbox' : inbox'[i] = inbox'[j] => i = j
        <3> SUFFICES ASSUME NEW i \in DOMAIN inbox', NEW j \in DOMAIN inbox',
                            inbox'[i] = inbox'[j]
                     PROVE  i = j
            OBVIOUS
        <3>1. \A k \in DOMAIN inbox : inbox[k] # c
            BY <2>3 DEF Queued
        <3> QED
            BY <2>2, <3>1 DEF PlaceInv
    <2> QED
        BY <1>1, <2>1, <2>3, <2>4, <2>5 DEF PlaceInv
<1> QED
    BY <1>3, <1>4

\* The receive loop takes the first, and it is not to come again.
LEMMA ReceivePlaces ==
    ASSUME IInv, PlaceInv, LoopReceives
    PROVE  PlaceInv'
<1>0. /\ inbox # <<>> /\ inbox' = Tail(inbox) /\ AgentP!LoopReceives(Head(inbox))
      /\ asked' = asked
    BY SameAgent DEF LoopReceives, controllerVars
<1>1. PICK h \in Request : h = Head(inbox) /\ AgentP!LoopReceives(h)
    BY <1>0 DEF IInv
<1>2. inbox \in Seq(Request) /\ AgentP!TypeOK
    BY DEF IInv, AgentP!IInv
<1>3. /\ DOMAIN inbox = 1..Len(inbox) /\ Len(inbox) \in Nat \ {0}
      /\ DOMAIN inbox' = 1..(Len(inbox) - 1)
      /\ inbox[1] = h
      /\ \A i \in 1..(Len(inbox) - 1) : inbox'[i] = inbox[i + 1]
    BY <1>0, <1>1, <1>2
<1>4. \A r : Queued(r) <=> Queued(r)' \/ r = h
    <2>1. ASSUME NEW r, Queued(r), r # h PROVE Queued(r)'
        <3>1. PICK i \in 1..Len(inbox) : inbox[i] = r
            BY <1>3, <2>1 DEF Queued
        <3>2. i # 1
            BY <1>3, <2>1, <3>1
        <3>3. i - 1 \in 1..(Len(inbox) - 1) /\ (i - 1) + 1 = i
            BY <1>3, <3>2
        <3>4. inbox'[i - 1] = r
            BY <1>3, <3>1, <3>3
        <3> QED
            BY <1>3, <3>3, <3>4 DEF Queued
    <2>2. ASSUME NEW r, Queued(r)' PROVE Queued(r)
        <3>1. PICK i \in 1..(Len(inbox) - 1) : inbox'[i] = r
            BY <1>3, <2>2 DEF Queued
        <3>2. i + 1 \in DOMAIN inbox /\ inbox[i + 1] = r
            BY <1>3, <3>1
        <3> QED
            BY <3>2 DEF Queued
    <2>3. Queued(h)
        <3>1. 1 \in DOMAIN inbox
            BY <1>3
        <3> QED
            BY <1>3, <3>1 DEF Queued
    <2> QED
        BY <2>1, <2>2, <2>3
<1>5. ~Queued(h)'
    <2> SUFFICES ASSUME NEW i \in 1..(Len(inbox) - 1), inbox'[i] = h PROVE FALSE
        BY <1>3 DEF Queued
    <2>1. inbox[i + 1] = inbox[1] /\ i + 1 \in DOMAIN inbox /\ 1 \in DOMAIN inbox
        BY <1>3
    <2>2. i + 1 = 1
        BY <2>1 DEF PlaceInv
    <2> QED
        BY <2>2
<1>6. \A i, j \in DOMAIN inbox' : inbox'[i] = inbox'[j] => i = j
    <2> SUFFICES ASSUME NEW i \in DOMAIN inbox', NEW j \in DOMAIN inbox',
                        inbox'[i] = inbox'[j]
                 PROVE  i = j
        OBVIOUS
    <2>1. inbox[i + 1] = inbox[j + 1] /\ i + 1 \in DOMAIN inbox /\ j + 1 \in DOMAIN inbox
        BY <1>3
    <2>2. i + 1 = j + 1
        BY <2>1 DEF PlaceInv
    <2> QED
        BY <1>3, <2>2
<1>7. /\ caller[h] = "none" /\ caller'[h] # "none"
      /\ \A r \in Request : r # h => caller'[r] = caller[r]
    BY <1>1, <1>2 DEF AgentP!LoopReceives, AgentP!Goes, AgentP!TypeOK
<1> QED
    BY <1>0, <1>4, <1>5, <1>6, <1>7 DEF PlaceInv

-----------------------------------------------------------------------------
(* What the requests that wait have behind them. *)

\* A step keeps it that lets no new request wait, takes none out of the handler's
\* hand, and ends no flow.
LEMMA WaitRests ==
    ASSUME WaitInv, link' = "up" => link = "up", asked \subseteq asked',
           \A r \in Request :
             /\ http'[r] = "echo" => http[r] = "echo"
             /\ InHandler(r) => InHandler(r)' \/ r \in asked'
             /\ flow'[r] = flow[r] \/ flow'[r] \notin {"rejected", "unregister", "ended"}
    PROVE  WaitInv'
BY DEF WaitInv

\* The handlers of the session.
LEMMA SessionWaits ==
    ASSUME IInv, WaitInv, ControllerP!SessionOwnStep(session), UNCHANGED link
    PROVE  WaitInv' /\ asked' = asked
<1> USE DEF ControllerP!managerVars, ControllerP!requestVars, ControllerP!flowVars,
            ControllerP!echoVars, ControllerP!Goes
<1>0. /\ ControllerP!TypeOK /\ ControllerP!HandlerInv(session) /\ Alive
      /\ \A r \in Request : ControllerP!AskedInv(r)
    BY DEF IInv, ControllerP!IInv
<1>1. CASE ControllerP!Hello(session) \/ ControllerP!ConnectionCloses(session)
             \/ ControllerP!Expire(session)
    <2>1. UNCHANGED <<asked, http, flow, wfr, cur>>
        BY <1>1 DEF ControllerP!Hello, ControllerP!ConnectionCloses, ControllerP!Expire
    <2> QED
        BY <2>1, WaitRests DEF InHandler
<1>2. CASE ControllerP!WaitForRequest(session) \/ ControllerP!ContextDone(session)
             \/ ControllerP!RemoveSession(session) \/ ControllerP!FlushLock(session)
             \/ ControllerP!FlushNext(session) \/ ControllerP!FlushUnlock(session)
             \/ ControllerP!FlushDelete(session)
    <2>1. UNCHANGED <<asked, http, flow>> /\ wfr[session] \notin {"register", "send"}
        BY <1>2 DEF ControllerP!WaitForRequest, ControllerP!ContextDone,
            ControllerP!RemoveSession, ControllerP!FlushLock, ControllerP!FlushNext,
            ControllerP!FlushUnlock, ControllerP!FlushDelete
    <2> QED
        BY <2>1, WaitRests DEF InHandler
<1>3. CASE ControllerP!CancelStream(session)
    <2>1. /\ UNCHANGED <<asked, flow>> /\ wfr[session] = "cancel"
          /\ http' = [http EXCEPT ![cur[session]] = "canceled"]
        BY <1>3 DEF ControllerP!CancelStream
    <2>2. \A r \in Request : http'[r] = "echo" => http[r] = "echo"
        BY <1>0, <2>1 DEF ControllerP!TypeOK
    <2> QED
        BY <2>1, <2>2, WaitRests DEF InHandler
<1>4. CASE ControllerP!SendFails(session)
    <2>1. link # "up" /\ asked' = asked
        BY <1>0, <1>4 DEF ControllerP!SendFails, Alive
    <2> QED
        BY <2>1 DEF WaitInv
<1>5. CASE ControllerP!Register(session)
    <2>1. /\ UNCHANGED <<asked, http, flow>>
          /\ wfr'[session] = "send" /\ cur'[session] = cur[session]
        BY <1>0, <1>5 DEF ControllerP!Register, ControllerP!TypeOK
    <2> QED
        BY <2>1, WaitRests DEF InHandler
<1>6. ASSUME NEW q \in Request, ControllerP!TakeRequest(session, q)
      PROVE  WaitInv' /\ asked' = asked
    <2>1. /\ UNCHANGED <<asked, flow>> /\ wfr[session] = "select" /\ http[q] = "offer"
          /\ wfr'[session] = "register" /\ cur'[session] = q
          /\ \A r \in Request : r # q => http'[r] = http[r]
        BY <1>0, <1>6 DEF ControllerP!TakeRequest, ControllerP!TypeOK
    <2>2. flow[q] = "idle"
        BY <1>0, <2>1 DEF ControllerP!AskedInv, ControllerP!Started
    <2>3. ASSUME NEW r \in Request, link' = "up", http'[r] = "echo"
          PROVE  /\ r \in asked' \/ InHandler(r)'
                 /\ flow'[r] \notin {"rejected", "unregister", "ended"}
        <3>1. CASE r = q
            BY <2>1, <2>2, <3>1 DEF InHandler
        <3>2. CASE r # q
            BY <2>1, <2>3, <3>2 DEF WaitInv, InHandler
        <3> QED
            BY <3>1, <3>2
    <2> QED
        BY <2>1, <2>3 DEF WaitInv
<1> QED
    BY <1>1, <1>2, <1>3, <1>4, <1>5, <1>6 DEF ControllerP!SessionOwnStep

\* The HTTP handlers before runEcho, and runEcho itself, which only ends.
LEMMA RequestWaits ==
    ASSUME IInv, WaitInv, UNCHANGED link, NEW r \in Request,
           ControllerP!RequestStep(r) \/ ControllerP!EchoStep(r)
    PROVE  WaitInv' /\ asked' = asked
<1> USE DEF ControllerP!sessionVars, ControllerP!managerVars, ControllerP!requestVars,
            ControllerP!flowVars, ControllerP!echoVars
<1>0. ControllerP!TypeOK
    BY DEF IInv, ControllerP!IInv
<1>1. CASE ControllerP!RequestStep(r)
    <2>1. /\ UNCHANGED <<asked, flow, wfr, cur>>
          /\ \/ http' = http
             \/ \E h \in {"body", "offer", "refused"} : http' = [http EXCEPT ![r] = h]
        BY <1>1 DEF ControllerP!RequestStep, ControllerP!FindSession, ControllerP!NoSuchAgent,
            ControllerP!BadRequest, ControllerP!OfferRequest, ControllerP!ClientLeaves,
            ControllerP!Refuse, ControllerP!Refused
    <2>2. \A q \in Request : http'[q] = "echo" => http[q] = "echo"
        BY <1>0, <2>1 DEF ControllerP!TypeOK
    <2> QED
        BY <2>1, <2>2, WaitRests DEF InHandler
<1>2. CASE ControllerP!EchoStep(r)
    <2>1. /\ UNCHANGED <<asked, wfr, cur>>
          /\ \A q \in Request : q # r => flow'[q] = flow[q] /\ http'[q] = http[q]
          /\ \/ http'[r] # "echo"
             \/ http' = http /\ flow'[r] = "recv"
        BY <1>0, <1>2 DEF ControllerP!TypeOK, ControllerP!EchoStep, ControllerP!EchoHeaders,
            ControllerP!EchoData, ControllerP!EchoWriteFails, ControllerP!EchoDone,
            ControllerP!EchoCanceled, ControllerP!EchoFailed, ControllerP!EchoClientGone,
            ControllerP!Meets, ControllerP!Returns
    <2> QED
        BY <2>1 DEF WaitInv, InHandler
<1> QED
    BY <1>1, <1>2

\* The data flow of a request, when no message comes: it is known until its end.
LEMMA FlowWaits ==
    ASSUME IInv, WaitInv, UNCHANGED link, NEW r \in Request,
           ControllerP!AgentOpens(r) \/ ControllerP!FlowOwnStep(r)
    PROVE  WaitInv' /\ asked' = asked
<1> USE DEF ControllerP!sessionVars, ControllerP!managerVars, ControllerP!requestVars
<1>0. /\ ControllerP!TypeOK /\ ControllerP!AskedInv(r) /\ Alive /\ FlushInv
    BY DEF IInv, ControllerP!IInv
<1>1. /\ UNCHANGED <<asked, http, wfr, cur>>
      /\ \A q \in Request : q # r => flow'[q] = flow[q]
    BY <1>0 DEF ControllerP!TypeOK, ControllerP!AgentOpens, ControllerP!FlowOwnStep,
        ControllerP!LookupStream, ControllerP!RecvCanceled, ControllerP!RecvError,
        ControllerP!Fails, ControllerP!UnregisterStream
<1>2. ASSUME link = "up", http[r] = "echo"
      PROVE  flow'[r] \notin {"rejected", "unregister", "ended"}
    <2>1. conn[session] \in {"none", "up"} /\ flow[r] # "unregister"
        BY <1>0, <1>2 DEF Alive, WaitInv
    <2>2. CASE ControllerP!AgentOpens(r)
        BY <1>0, <2>2 DEF ControllerP!AgentOpens, ControllerP!TypeOK
    <2>3. CASE ControllerP!LookupStream(r)
        <3>1. r \in asked /\ flow[r] = "lookup" /\ route[r] = session
            BY <1>0, <2>3 DEF ControllerP!LookupStream, ControllerP!AskedInv
        <3>2. wfr[session] \notin {"flushing", "cancel", "mark", "done"}
            BY <1>0, <2>1 DEF FlushInv
        <3>3. r \in streams
            BY <1>0, <3>1, <3>2 DEF ControllerP!AskedInv, ControllerP!Locked
        <3> QED
            BY <1>0, <2>3, <3>3 DEF ControllerP!LookupStream, ControllerP!TypeOK
    <2>4. ~ControllerP!RecvCanceled(r)
        <3>1. flow[r] = "recv" => route[r] = session
            BY <1>0 DEF ControllerP!AskedInv
        <3> QED
            BY <2>1, <3>1 DEF ControllerP!RecvCanceled
    <2>5. CASE ControllerP!RecvError(r)
        BY <1>0, <2>5 DEF ControllerP!RecvError, ControllerP!Fails, ControllerP!TypeOK
    <2>6. ~ControllerP!UnregisterStream(r)
        BY <2>1 DEF ControllerP!UnregisterStream
    <2> QED
        BY <2>2, <2>3, <2>4, <2>5, <2>6 DEF ControllerP!FlowOwnStep
<1> QED
    BY <1>1, <1>2 DEF WaitInv, InHandler

\* The data flow receives a message: what it makes of the first end is runEcho's.
LEMMA RecvWaits ==
    ASSUME IInv, WaitInv, NEW r \in Request, Recv(r)
    PROVE  WaitInv' /\ UNCHANGED <<asked, inbox, caller>>
<1> USE DEF ControllerP!sessionVars, ControllerP!managerVars, ControllerP!requestVars
<1> DEFINE e == wire[r][read[r] + 1]
<1>1. /\ read[r] < Len(wire[r]) /\ Receive(r, e) /\ UNCHANGED <<agentVars, inbox>>
    BY RecvReceives
<1>2. /\ ControllerP!TypeOK /\ EchoedInv(r) /\ AgentP!TypeOK
      /\ WireInv(r) /\ ChunkInv(r) /\ ReadInv(r)
    BY DEF IInv, ControllerP!IInv, AgentP!IInv, AgentInv
<1>3. e \notin {"cancel", "eof"} /\ flow[r] = "recv" /\ (e = "headers" <=> read[r] = 0)
    BY <1>1, <1>2, Received
<1>4. \/ ControllerP!RecvHeaders(r) \/ ControllerP!RecvData(r)
      \/ e = "done" /\ ControllerP!RecvDone(r)
    BY <1>1, <1>3 DEF Receive
<1>5. UNCHANGED <<asked, http, wfr, cur>>
    BY <1>4 DEF ControllerP!RecvHeaders, ControllerP!RecvData, ControllerP!RecvDone
<1>6. \A q \in Request : q # r => flow'[q] = flow[q]
    BY <1>2, <1>4 DEF ControllerP!RecvHeaders, ControllerP!RecvData, ControllerP!RecvDone,
        ControllerP!TypeOK
<1>7. ASSUME http[r] = "echo" PROVE flow'[r] \in {"recv", "headers", "data", "done"}
    <2>1. CASE ControllerP!RecvHeaders(r) \/ ControllerP!RecvData(r)
        BY <1>2, <1>3, <2>1 DEF ControllerP!RecvHeaders, ControllerP!RecvData,
            ControllerP!TypeOK
    <2>2. CASE e = "done" /\ ControllerP!RecvDone(r)
        <3>1. state[r] = "data"
            BY <1>2, <1>3, <1>7, <2>2 DEF EchoedInv
        <3> QED
            BY <1>2, <2>2, <3>1 DEF ControllerP!RecvDone, ControllerP!TypeOK
    <2> QED
        BY <1>4, <2>1, <2>2
<1> QED
    BY <1>1, <1>5, <1>6, <1>7 DEF WaitInv, InHandler, agentVars

-----------------------------------------------------------------------------
(* The invariant, and what follows from it. *)

LEMMA InitWay == Init => WayInv
<1> SUFFICES ASSUME Init PROVE WayInv
    OBVIOUS
<1>1. AgentP!Init /\ ControllerP!Init /\ inbox = <<>>
    BY SameAgent, SameController DEF Init
<1>2. PlaceInv
    BY <1>1 DEF AgentP!Init, ControllerP!Init, PlaceInv, Queued
<1>3. WaitInv
    BY <1>1 DEF ControllerP!Init, WaitInv
<1> QED
    BY <1>2, <1>3 DEF WayInv

LEMMA StepWay == IInv /\ WayInv /\ [Next]_vars => WayInv'
<1> SUFFICES ASSUME IInv, PlaceInv, WaitInv, [Next]_vars
             PROVE  PlaceInv' /\ WaitInv'
    BY DEF WayInv
<1>1. CASE LinkBreaks
    <2>1. AgentP!LinkBreaks /\ ControllerP!AgentLost(session) /\ inbox' = inbox
        BY <1>1, SameAgent, SameController DEF LinkBreaks
    <2>2. link' = "down" /\ UNCHANGED <<inbox, asked, caller>>
        BY <2>1 DEF AgentP!LinkBreaks, AgentP!callVars, ControllerP!AgentLost,
            ControllerP!requestVars
    <2> QED
        BY <2>2, PlacesRest DEF WaitInv
<1>2. CASE SendRequest
    <2>1. ControllerP!SendRequest(session) /\ link' = link
        BY <1>2, SameController DEF SendRequest, agentVars
    <2>2. /\ ControllerP!TypeOK /\ ControllerP!LinkInv(session) /\ Alive
          /\ wfr[session] = "send" /\ UNCHANGED <<http, flow>>
        BY <2>1 DEF IInv, ControllerP!IInv, ControllerP!SendRequest, ControllerP!flowVars
    <2>3. link = "up" => conn[session] = "up"
        BY <2>2 DEF Alive, ControllerP!LinkInv
    <2>4. link = "up" => asked' = asked \cup {cur[session]}
        BY <2>1, <2>3 DEF ControllerP!SendRequest
    <2> QED
        BY <1>2, <2>1, <2>2, <2>4, SendPlaces DEF WaitInv, InHandler
<1>3. CASE LoopReceives \/ \E r \in Request : SenderStep(r) \/ CallerStep(r)
    <2>1. PICK r \in Request : AgentMoves(r) /\ UNCHANGED controllerVars
        BY <1>3, AgentSteps
    <2>2. link' = link
        <3>1. AgentP!SenderInv(r)
            BY DEF IInv, AgentInv
        <3> QED
            BY <2>1, <3>1, AgentStays
    <2>3. WaitInv'
        BY <2>1, <2>2, WaitRests DEF InHandler, controllerVars
    <2>4. ASSUME NEW q \in Request, SenderStep(q) \/ CallerStep(q)
          PROVE  PlaceInv'
        <3>1. /\ AgentP!SenderStep(q) \/ AgentP!CallerStep(q)
              /\ UNCHANGED <<inbox, asked>> /\ AgentP!TypeOK
            BY <2>4, SameAgent
                DEF SenderStep, CallerStep, controllerVars, IInv, AgentP!IInv
        <3> QED
            BY <3>1, CallersRemain, PlacesRest
    <2> QED
        BY <1>3, <2>3, <2>4, ReceivePlaces
<1>4. ASSUME NEW r \in Request, AgentOpens(r)
      PROVE  PlaceInv' /\ WaitInv'
    <2>1. ControllerP!AgentOpens(r) /\ UNCHANGED <<link, inbox, caller>>
        BY <1>4, SameController DEF AgentOpens, agentVars
    <2> QED
        BY <2>1, FlowWaits, PlacesRest
<1>5. ASSUME NEW r \in Request, Recv(r)
      PROVE  PlaceInv' /\ WaitInv'
    BY <1>5, RecvWaits, PlacesRest
<1>6. CASE ControllerStep
    <2>1. UNCHANGED <<link, inbox, caller>>
        BY <1>6 DEF ControllerStep, agentVars
    <2>2. \/ ControllerP!SessionOwnStep(session)
          \/ \E r \in Request : \/ ControllerP!RequestStep(r) \/ ControllerP!FlowOwnStep(r)
                                \/ ControllerP!EchoStep(r)
        BY <1>6, SameController DEF ControllerStep
    <2>3. WaitInv' /\ asked' = asked
        BY <2>1, <2>2, SessionWaits, RequestWaits, FlowWaits
    <2> QED
        BY <2>1, <2>3, PlacesRest
<1>7. CASE UNCHANGED vars
    BY <1>7, PlacesRest, WaitRests DEF vars, agentVars, controllerVars, InHandler
<1> QED
    BY <1>1, <1>2, <1>3, <1>4, <1>5, <1>6, <1>7 DEF Next

\* The sender of an answer has closed its stream only after the answer's first end, and a flow
\* that still receives has not read that far.
LEMMA AnswersCome ==
    ASSUME IInv, WaitInv, link = "up", NEW r \in Request, http[r] = "echo"
    PROVE  Answering(r)
<1>1. AgentP!TypeOK /\ AgentP!Holding /\ AgentInv(r) /\ ReadInv(r)
    BY DEF IInv, AgentP!IInv
<1>2. flow[r] \notin {"rejected", "unregister", "ended"}
    BY DEF WaitInv
<1>3. ASSUME flow[r] \in {"idle", "lookup", "recv"}, sender[r] \in {"closing", "returned"}
      PROVE  read[r] < Len(wire[r])
    <2>1. caller[r] \in {"shutdown", "end"} /\ held[r] = "none"
        BY <1>1, <1>3 DEF AgentInv, AgentP!SenderInv, AgentP!Holding, AgentP!TypeOK
    <2>2. AgentP!Last(r) \in {"done", "eof"}
        BY <1>1, <2>1 DEF AgentInv, AgentP!CallerInv, AgentP!Said
    <2>3. wire[r] \in Seq(AgentP!Kinds \cup {"eof"}) /\ Len(wire[r]) \in Nat
        BY <1>1 DEF AgentP!TypeOK
    <2>4. wire[r] # <<>> /\ wire[r][Len(wire[r])] \in {"done", "eof"}
        BY <2>2 DEF AgentP!Last
    <2>5. Len(wire[r]) # 0
        BY <2>3, <2>4
    <2>6. read[r] \in 0..Len(wire[r])
        BY <1>1 DEF ReadInv
    <2>7. read[r] # Len(wire[r])
        <3> SUFFICES ASSUME read[r] = Len(wire[r]) PROVE FALSE
            OBVIOUS
        <3>1. flow[r] = "recv"
            BY <1>1, <1>3, <2>5 DEF ReadInv
        <3>2. wire[r][Len(wire[r])] \in {"headers", "data"}
            BY <1>1, <2>3, <2>5, <3>1 DEF ReadInv
        <3> QED
            BY <2>4, <3>2
    <2> QED
        BY <2>3, <2>6, <2>7
<1> QED
    BY <1>2, <1>3 DEF Answering

\* A request that has not been asked of the agent is with the handler, and one that has
\* been is on the stream or with the agent, and nowhere else.
LEMMA OnePlace ==
    ASSUME IInv, WayInv, link = "up", NEW r \in Request, http[r] = "echo"
    PROVE  \E p \in {"handler", "inbox", "agent"} : Places(r) = {p}
<1>1. InHandler(r) => r \notin asked
    BY DEF IInv, ControllerP!IInv, ControllerP!HandlerInv, InHandler
<1>2. r \in asked \/ InHandler(r)
    BY DEF WayInv, WaitInv
<1>3. (r \in asked <=> Queued(r) \/ caller[r] # "none") /\ ~(Queued(r) /\ caller[r] # "none")
    BY DEF WayInv, PlaceInv
<1>4. CASE InHandler(r)
    <2>1. Places(r) = {"handler"}
        BY <1>1, <1>3, <1>4 DEF Places, InHandler
    <2> QED
        BY <2>1
<1>5. CASE ~InHandler(r) /\ Queued(r)
    <2>1. Places(r) = {"inbox"}
        BY <1>3, <1>5 DEF Places, InHandler
    <2> QED
        BY <2>1
<1>6. CASE ~InHandler(r) /\ ~Queued(r)
    <2>1. Places(r) = {"agent"}
        BY <1>2, <1>3, <1>6 DEF Places, InHandler
    <2> QED
        BY <2>1
<1> QED
    BY <1>4, <1>5, <1>6

\* Whatever the two processes do, and in whatever order, as long as their connection is
\* up no request is lost between them, or told twice, and no runEcho waits in vain.
THEOREM RequestsAreOnTheirWay == Spec => []RequestOnItsWay
<1>1. Spec => []WayInv
    BY InitWay, StepWay, Invariance, PTL DEF Spec
<1>2. IInv /\ WayInv => RequestOnItsWay
    BY AnswersCome, OnePlace DEF RequestOnItsWay, WayInv
<1> QED
    BY <1>1, <1>2, Invariance, PTL
=============================================================================
