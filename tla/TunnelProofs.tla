----------------------------- MODULE TunnelProofs -----------------------------
(***************************************************************************)
(* Theorems of Tunnel, for any number of requests, any length of their     *)
(* answers and any window, with and without losses.  What is known of each *)
(* side alone is taken from the proofs of its own module.                  *)
(***************************************************************************)
EXTENDS Tunnel, TLAPS

AgentP == INSTANCE AgentEchoProofs
ControllerP == INSTANCE TunnelControllerProofs WITH
    Session <- {session},
    Route <- [r \in Request |-> {session}],
    MaxEvents <- MaxChunks + 1,
    Orderly <- FALSE

(***************************************************************************)
(* The inductive invariant: those of the two sides, with that of the agent *)
(* frozen at the moment the connection breaks, and what relates them.      *)
(***************************************************************************)

\* While the connection is up the agent runs; both sides agree that it is up.
Alive ==
    /\ process = "running" /\ ctx = "live"
    /\ link = "up" <=> conn[session] \in {"none", "up"}

\* A stream is headers, then data, then ends, and never a cancel.
WireInv(r) ==
    /\ held[r] # "cancel"
    /\ \A i \in DOMAIN wire[r] :
        /\ wire[r][i] # "cancel"
        /\ wire[r][i] = "headers" <=> i = 1
        /\ wire[r][i] = "eof" => i > 1 /\ wire[r][i - 1] \notin {"headers", "data"}
        /\ wire[r][i] \in {"done", "eof"} => AgentP!Last(r) \in {"done", "eof"}

\* The chunks that have been read and not been sent.
InHand(r) ==
    IF caller[r] \in {"fill", "data"} THEN (IF held[r] = "data" THEN 2 ELSE 1)
                                     ELSE (IF held[r] = "data" THEN 1 ELSE 0)

\* The chunks read are those sent, the one held and the one to be handed over;
\* when the first end is said, all have been sent.
ChunkInv(r) ==
    /\ buf[r] = Len(chunks[r]) + InHand(r)
    /\ wire[r] = <<>> => chunks[r] = <<>>
    /\ AgentP!Last(r) \in {"headers", "data"} => Len(chunks[r]) + 1 = Len(wire[r])
    /\ \A i \in DOMAIN wire[r] :
        wire[r][i] = "done" /\ wire[r][i - 1] \in {"headers", "data"} => buf[r] + 2 = i

HasDone(r) == \E i \in DOMAIN wire[r] : wire[r][i] = "done"

\* How far the controller has read, and what it has made of that.
ReadInv(r) ==
    /\ read[r] \in 0..Len(wire[r])
    /\ flow[r] # "cancel"
    /\ flow[r] \in {"idle", "lookup"} => read[r] = 0 /\ events[r] = 0
    /\ flow[r] \in {"recv", "headers", "data"} =>
        events[r] = read[r] /\ \A i \in 1..read[r] : wire[r][i] \in {"headers", "data"}

\* The data events of a stream of which n were received, all but the first.
AllAfterHead(s, n) == Len(s) + 1 = n /\ \A i \in 1..Len(s) : s[i] = i + 1

EchoedInv(r) ==
    /\ http[r] = "echo" /\ flow[r] \in {"idle", "lookup", "recv", "headers", "data"} =>
        IF read[r] = 0 THEN state[r] = "headers" /\ accepted[r] = <<>>
                       ELSE state[r] = "data" /\ AllAfterHead(accepted[r], read[r])
    /\ http[r] = "echo" /\ flow[r] = "done" =>
        AllAfterHead(accepted[r], buf[r] + 1) /\ HasDone(r)
    /\ http[r] = "done" =>
        heads[r] = 1 /\ AllAfterHead(body[r], buf[r] + 1) /\ HasDone(r)

\* A session is flushed only once its connection is lost.
FlushInv ==
    /\ wfr[session] \in {"remove", "flush", "flushing", "cancel", "mark", "done"} =>
        conn[session] \in {"lost", "closed"}
    /\ \A r \in Request : http[r] = "canceled" => conn[session] \in {"lost", "closed"}

AgentInv(r) == AgentP!CallerInv(r) /\ AgentP!SenderInv(r) /\ WireInv(r) /\ ChunkInv(r)

IInv ==
    /\ Alive /\ FlushInv
    /\ inbox \in Seq(Request) /\ read \in [Request -> Nat]
    /\ AgentP!IInv /\ ControllerP!IInv
    /\ \A r \in Request : AgentInv(r) /\ ReadInv(r) /\ EchoedInv(r)

-----------------------------------------------------------------------------
(* The steps of each side are those of its own module. *)

LEMMA SameAgent ==
    /\ Agent!Init <=> AgentP!Init
    /\ Agent!Next <=> AgentP!Next
    /\ \A r : Agent!LoopReceives(r) <=> AgentP!LoopReceives(r)
    /\ \A r : Agent!CallerStep(r) <=> AgentP!CallerStep(r)
    /\ \A r : Agent!SenderStep(r) <=> AgentP!SenderStep(r)
    /\ Agent!LinkBreaks <=> AgentP!LinkBreaks
BY DEF
    Agent!callVars, AgentP!callVars, Agent!echoVars, AgentP!echoVars, Agent!senderVars,
    AgentP!senderVars, Agent!wireVars, AgentP!wireVars, Agent!vars, AgentP!vars,
    Agent!Message, AgentP!Message, Agent!Sending, AgentP!Sending, Agent!Kinds, AgentP!Kinds,
    Agent!Init, AgentP!Init, Agent!Goes, AgentP!Goes, Agent!LoopReceives,
    AgentP!LoopReceives, Agent!LinkBreaks, AgentP!LinkBreaks, Agent!LoopFails,
    AgentP!LoopFails, Agent!ProcessExits, AgentP!ProcessExits, Agent!DoFails,
    AgentP!DoFails, Agent!DoReturns, AgentP!DoReturns, Agent!CheckContext,
    AgentP!CheckContext, Agent!BodyFills, AgentP!BodyFills, Agent!ReadsData,
    AgentP!ReadsData, Agent!Bytes, AgentP!Bytes, Agent!ReadsNothing, AgentP!ReadsNothing,
    Agent!Panics, AgentP!Panics, Agent!DataPanics, AgentP!DataPanics, Agent!FailPanics,
    AgentP!FailPanics, Agent!ReadsOn, AgentP!ReadsOn, Agent!ReadEnds, AgentP!ReadEnds,
    Agent!ReadFails, AgentP!ReadFails, Agent!Ends, AgentP!Ends, Agent!Shutdown,
    AgentP!Shutdown, Agent!SenderOpens, AgentP!SenderOpens, Agent!SenderFails,
    AgentP!SenderFails, Agent!Hand, AgentP!Hand, Agent!HandHeaders, AgentP!HandHeaders,
    Agent!HandData, AgentP!HandData, Agent!HandDone, AgentP!HandDone, Agent!HandCancel,
    AgentP!HandCancel, Agent!HandFailure, AgentP!HandFailure, Agent!HandShutdown,
    AgentP!HandShutdown, Agent!SenderSends, AgentP!SenderSends, Agent!SenderDrops,
    AgentP!SenderDrops, Agent!SenderCloses, AgentP!SenderCloses, Agent!SenderReturns,
    AgentP!SenderReturns, Agent!CallerStep, AgentP!CallerStep, Agent!SenderOwnStep,
    AgentP!SenderOwnStep, Agent!SenderStep, AgentP!SenderStep, Agent!Next, AgentP!Next

LEMMA SameController ==
    /\ Controller!Init <=> ControllerP!Init
    /\ Controller!Next <=> ControllerP!Next
    /\ \A s : Controller!SessionOwnStep(s) <=> ControllerP!SessionOwnStep(s)
    /\ \A s : Controller!SendRequest(s) <=> ControllerP!SendRequest(s)
    /\ \A s : Controller!AgentLost(s) <=> ControllerP!AgentLost(s)
    /\ \A r : Controller!RequestStep(r) <=> ControllerP!RequestStep(r)
    /\ \A r : Controller!AgentOpens(r) <=> ControllerP!AgentOpens(r)
    /\ \A r : Controller!FlowOwnStep(r) <=> ControllerP!FlowOwnStep(r)
    /\ \A r : Controller!EchoStep(r) <=> ControllerP!EchoStep(r)
    /\ \A r : Controller!RecvHeaders(r) <=> ControllerP!RecvHeaders(r)
    /\ \A r : Controller!RecvData(r) <=> ControllerP!RecvData(r)
    /\ \A r : Controller!RecvDone(r) <=> ControllerP!RecvDone(r)
    /\ \A r : Controller!RecvCancel(r) <=> ControllerP!RecvCancel(r)
    /\ \A r : Controller!RecvEOF(r) <=> ControllerP!RecvEOF(r)
BY DEF
    Controller!sessionVars, ControllerP!sessionVars, Controller!managerVars,
    ControllerP!managerVars, Controller!requestVars, ControllerP!requestVars,
    Controller!flowVars, ControllerP!flowVars, Controller!echoVars,
    ControllerP!echoVars, Controller!vars, ControllerP!vars, Controller!Refused,
    ControllerP!Refused, Controller!EndStates, ControllerP!EndStates, Controller!Locked,
    ControllerP!Locked, Controller!Init, ControllerP!Init, Controller!Hello,
    ControllerP!Hello, Controller!AgentLost, ControllerP!AgentLost,
    Controller!ConnectionCloses, ControllerP!ConnectionCloses, Controller!Expire,
    ControllerP!Expire, Controller!FindSession, ControllerP!FindSession,
    Controller!Refuse, ControllerP!Refuse, Controller!NoSuchAgent,
    ControllerP!NoSuchAgent, Controller!BadRequest, ControllerP!BadRequest,
    Controller!OfferRequest, ControllerP!OfferRequest, Controller!ClientLeaves,
    ControllerP!ClientLeaves, Controller!Goes, ControllerP!Goes,
    Controller!WaitForRequest, ControllerP!WaitForRequest, Controller!TakeRequest,
    ControllerP!TakeRequest, Controller!Register, ControllerP!Register,
    Controller!SendRequest, ControllerP!SendRequest, Controller!SendFails,
    ControllerP!SendFails, Controller!ContextDone, ControllerP!ContextDone,
    Controller!RemoveSession, ControllerP!RemoveSession, Controller!FlushLock,
    ControllerP!FlushLock, Controller!FlushNext, ControllerP!FlushNext,
    Controller!CancelStream, ControllerP!CancelStream, Controller!FlushDelete,
    ControllerP!FlushDelete, Controller!FlushUnlock, ControllerP!FlushUnlock,
    Controller!AgentOpens, ControllerP!AgentOpens, Controller!LookupStream,
    ControllerP!LookupStream, Controller!Receives, ControllerP!Receives,
    Controller!RecvHeaders, ControllerP!RecvHeaders, Controller!RecvData,
    ControllerP!RecvData, Controller!RecvDone, ControllerP!RecvDone,
    Controller!RecvCancel, ControllerP!RecvCancel, Controller!Fails, ControllerP!Fails,
    Controller!RecvEOF, ControllerP!RecvEOF, Controller!RecvCanceled,
    ControllerP!RecvCanceled, Controller!RecvError, ControllerP!RecvError,
    Controller!UnregisterStream, ControllerP!UnregisterStream, Controller!Meets,
    ControllerP!Meets, Controller!Returns, ControllerP!Returns, Controller!EchoHeaders,
    ControllerP!EchoHeaders, Controller!EchoData, ControllerP!EchoData,
    Controller!EchoWriteFails, ControllerP!EchoWriteFails, Controller!EchoDone,
    ControllerP!EchoDone, Controller!EchoCanceled, ControllerP!EchoCanceled,
    Controller!EchoFailed, ControllerP!EchoFailed, Controller!EchoClientGone,
    ControllerP!EchoClientGone, Controller!SessionOwnStep, ControllerP!SessionOwnStep,
    Controller!SessionStep, ControllerP!SessionStep, Controller!RequestStep,
    ControllerP!RequestStep, Controller!FlowOwnStep, ControllerP!FlowOwnStep,
    Controller!FlowStep, ControllerP!FlowStep, Controller!EchoStep,
    ControllerP!EchoStep, Controller!Next, ControllerP!Next

-----------------------------------------------------------------------------
(* Steps of the agent. *)

AgentMoves(r) == AgentP!LoopReceives(r) \/ AgentP!CallerStep(r) \/ AgentP!SenderStep(r)

\* What a step for r leaves to the other requests.
LEMMA AgentOthers ==
    ASSUME AgentP!TypeOK, NEW r \in Request, AgentMoves(r), NEW q \in Request, q # r
    PROVE  /\ caller'[q] = caller[q] /\ held'[q] = held[q] /\ wire'[q] = wire[q]
           /\ buf'[q] = buf[q] /\ chunks'[q] = chunks[q]
<1> USE DEF AgentP!TypeOK, AgentP!callVars, AgentP!echoVars, AgentP!senderVars,
            AgentP!wireVars, AgentP!Goes
<1>1. CASE AgentP!LoopReceives(r)
    BY <1>1 DEF AgentP!LoopReceives
<1>2. CASE AgentP!CallerStep(r)
    BY <1>2 DEF AgentP!CallerStep, AgentP!DoFails, AgentP!DoReturns, AgentP!CheckContext,
        AgentP!BodyFills, AgentP!ReadsData, AgentP!ReadsNothing, AgentP!ReadsOn,
        AgentP!ReadEnds, AgentP!ReadFails, AgentP!DataPanics, AgentP!FailPanics,
        AgentP!Panics, AgentP!Shutdown, AgentP!Ends
<1>3. CASE AgentP!SenderStep(r)
    BY <1>3 DEF AgentP!SenderStep, AgentP!SenderOwnStep, AgentP!SenderOpens, AgentP!SenderFails,
        AgentP!HandHeaders, AgentP!HandData, AgentP!HandDone, AgentP!HandCancel,
        AgentP!HandFailure, AgentP!HandShutdown, AgentP!Hand, AgentP!SenderSends,
        AgentP!SenderDrops, AgentP!SenderCloses, AgentP!SenderReturns
<1> QED
    BY <1>1, <1>2, <1>3 DEF AgentMoves

\* The agent does not panic while the connection is up, and only LinkBreaks breaks it.
LEMMA AgentStays ==
    ASSUME NEW r \in Request, AgentP!SenderInv(r), AgentMoves(r)
    PROVE  UNCHANGED <<process, link, ctx>>
<1>1. CASE AgentP!LoopReceives(r) \/ AgentP!SenderStep(r)
    BY <1>1 DEF AgentP!LoopReceives, AgentP!SenderStep, AgentP!SenderOwnStep,
        AgentP!SenderOpens, AgentP!SenderFails, AgentP!HandHeaders, AgentP!HandData,
        AgentP!HandDone, AgentP!HandCancel, AgentP!HandFailure, AgentP!HandShutdown,
        AgentP!Hand, AgentP!SenderSends, AgentP!SenderDrops, AgentP!SenderCloses,
        AgentP!SenderReturns
<1>2. ~AgentP!DataPanics(r) /\ ~AgentP!FailPanics(r)
    BY DEF AgentP!SenderInv, AgentP!DataPanics, AgentP!FailPanics
<1>3. CASE AgentP!CallerStep(r)
    BY <1>2, <1>3 DEF AgentP!CallerStep, AgentP!DoFails, AgentP!DoReturns,
        AgentP!CheckContext, AgentP!BodyFills, AgentP!ReadsData, AgentP!ReadsNothing,
        AgentP!ReadsOn, AgentP!ReadEnds, AgentP!ReadFails, AgentP!Shutdown
<1> QED
    BY <1>1, <1>3 DEF AgentMoves

\* A message e appended to a stream that it may follow keeps the stream's order.
LEMMA AppendKeeps ==
    ASSUME NEW r \in Request, AgentP!TypeOK, WireInv(r),
           NEW e \in {"headers", "data", "done", "eof"},
           wire'[r] = Append(wire[r], e),
           \/ e # "eof" /\ AgentP!MayFollow(e, AgentP!Last(r))
           \/ e = "eof" /\ AgentP!Last(r) = "done",
           held'[r] # "cancel"
    PROVE  /\ WireInv(r)'
           /\ AgentP!Last(r)' = e
           /\ Len(wire'[r]) = Len(wire[r]) + 1
           /\ \A i \in DOMAIN wire[r] : wire'[r][i] = wire[r][i]
<1> DEFINE w == wire[r]
<1>1. w \in Seq(AgentP!Kinds \cup {"eof"}) /\ Len(w) \in Nat /\ DOMAIN w = 1..Len(w)
    BY DEF AgentP!TypeOK
<1>2. /\ Len(wire'[r]) = Len(w) + 1
      /\ DOMAIN wire'[r] = 1..(Len(w) + 1)
      /\ wire'[r][Len(w) + 1] = e
      /\ \A i \in 1..Len(w) : wire'[r][i] = w[i]
      /\ wire'[r] # <<>>
    <2>1. e \in AgentP!Kinds \cup {"eof"}
        BY DEF AgentP!Kinds
    <2> QED
        BY <1>1, <2>1
<1>3. AgentP!Last(r)' = e
    BY <1>2 DEF AgentP!Last
<1>4. AgentP!Last(r) = IF Len(w) = 0 THEN "none" ELSE w[Len(w)]
    BY <1>1 DEF AgentP!Last
<1>5. ASSUME NEW i \in DOMAIN wire'[r]
      PROVE  /\ wire'[r][i] # "cancel"
             /\ wire'[r][i] = "headers" <=> i = 1
             /\ wire'[r][i] = "eof" => i > 1 /\ wire'[r][i - 1] \notin {"headers", "data"}
             /\ wire'[r][i] \in {"done", "eof"} => e \in {"done", "eof"}
    <2>1. CASE i \in 1..Len(w)
        <3>1. /\ wire'[r][i] = w[i]
              /\ i > 1 => wire'[r][i - 1] = w[i - 1]
            BY <1>1, <1>2, <2>1
        <3>2. w[i] \in {"done", "eof"} => e \in {"done", "eof"}
            BY <1>1, <2>1 DEF WireInv, AgentP!MayFollow
        <3> QED
            BY <1>1, <2>1, <3>1, <3>2 DEF WireInv
    <2>2. CASE i = Len(w) + 1
        <3>1. wire'[r][i] = e
            BY <1>2, <2>2
        <3>2. e = "headers" <=> Len(w) = 0
            <4>1. Len(w) > 0 => AgentP!Last(r) \in AgentP!Kinds \cup {"eof"}
                BY <1>1, <1>4
            <4> QED
                BY <1>1, <1>4, <4>1 DEF AgentP!MayFollow, AgentP!Kinds
        <3>3. e = "eof" => i > 1 /\ wire'[r][i - 1] = "done"
            BY <1>1, <1>2, <1>4, <2>2
        <3> QED
            BY <1>1, <2>2, <3>1, <3>2, <3>3
    <2> QED
        BY <1>1, <1>2, <2>1, <2>2
<1> QED
    BY <1>1, <1>2, <1>3, <1>5 DEF WireInv

\* A step that only moves the caller, not to or from the handing over of a chunk.
LEMMA SameStream ==
    ASSUME NEW r \in Request, WireInv(r), ChunkInv(r),
           held'[r] = held[r], wire'[r] = wire[r], buf'[r] = buf[r], chunks'[r] = chunks[r],
           caller'[r] \in {"fill", "data"} <=> caller[r] \in {"fill", "data"}
    PROVE  WireInv(r)' /\ ChunkInv(r)'
BY DEF WireInv, ChunkInv, InHand, AgentP!Last

\* A chunk is read: the first end of the answer has not been said.
LEMMA FillKeeps ==
    ASSUME NEW r \in Request, AgentP!TypeOK, AgentP!CallerInv(r), AgentP!SenderInv(r),
           WireInv(r), ChunkInv(r), AgentP!BodyFills(r)
    PROVE  WireInv(r)' /\ ChunkInv(r)'
<1>1. /\ buf'[r] = buf[r] + 1 /\ caller[r] = "read" /\ caller'[r] = "fill"
      /\ UNCHANGED <<held, wire, chunks>> /\ buf[r] \in Nat
    BY ChunkAssumption DEF AgentP!TypeOK, AgentP!BodyFills, AgentP!Goes, AgentP!echoVars,
        AgentP!wireVars, AgentP!Reads
<1>2. AgentP!Last(r) \notin {"done", "eof"}
    BY <1>1 DEF AgentP!CallerInv, AgentP!SenderInv, AgentP!Said, AgentP!MayFollow
<1>3. \A i \in DOMAIN wire[r] : wire[r][i] # "done"
    BY <1>2 DEF WireInv
<1>4. Len(chunks[r]) \in Nat
    BY DEF AgentP!TypeOK
<1>5. WireInv(r)' /\ AgentP!Last(r)' = AgentP!Last(r)
    BY <1>1 DEF WireInv, AgentP!Last
<1>6. buf'[r] = Len(chunks'[r]) + InHand(r)'
    <2>1. InHand(r) \in Nat /\ InHand(r)' = InHand(r) + 1
        BY <1>1 DEF InHand
    <2>2. buf[r] = Len(chunks[r]) + InHand(r)
        BY DEF ChunkInv
    <2> QED
        BY <1>1, <1>4, <2>1, <2>2
<1>7. /\ wire'[r] = <<>> => chunks'[r] = <<>>
      /\ AgentP!Last(r)' \in {"headers", "data"} => Len(chunks'[r]) + 1 = Len(wire'[r])
    BY <1>1, <1>5 DEF ChunkInv
<1>8. \A i \in DOMAIN wire'[r] : wire'[r][i] # "done"
    BY <1>1, <1>3
<1> QED
    BY <1>5, <1>6, <1>7, <1>8 DEF ChunkInv

\* A message is handed over to the sender.
LEMMA HandKeeps ==
    ASSUME NEW r \in Request, AgentP!TypeOK, AgentP!Holding, AgentP!CallerInv(r),
           WireInv(r), ChunkInv(r),
           \/ AgentP!HandHeaders(r) \/ AgentP!HandData(r) \/ AgentP!HandDone(r)
           \/ AgentP!HandCancel(r) \/ AgentP!HandFailure(r) \/ AgentP!HandShutdown(r)
    PROVE  WireInv(r)' /\ ChunkInv(r)'
<1>1. held[r] = "none" /\ caller[r] # "cancel"
    BY DEF AgentP!Holding, AgentP!CallerInv, AgentP!HandHeaders, AgentP!HandData,
        AgentP!HandDone, AgentP!HandCancel, AgentP!HandFailure, AgentP!HandShutdown, AgentP!Hand
<1>2. /\ UNCHANGED <<wire, chunks, buf>>
      /\ \/ caller[r] \notin {"fill", "data"} /\ caller'[r] \notin {"fill", "data"}
            /\ held'[r] \in {"headers", "done"}
         \/ caller[r] = "data" /\ caller'[r] = "check" /\ held'[r] = "data"
    BY <1>1 DEF AgentP!TypeOK, AgentP!Goes, AgentP!Hand, AgentP!wireVars, AgentP!HandHeaders,
        AgentP!HandData, AgentP!HandDone, AgentP!HandCancel, AgentP!HandFailure,
        AgentP!HandShutdown, AgentP!Message
<1>3. WireInv(r)' /\ AgentP!Last(r)' = AgentP!Last(r)
    BY <1>2 DEF WireInv, AgentP!Last
<1>4. Len(chunks[r]) \in Nat
    BY DEF AgentP!TypeOK
<1>5. buf'[r] = Len(chunks'[r]) + InHand(r)'
    <2>1. InHand(r)' = InHand(r)
        BY <1>1, <1>2 DEF InHand
    <2> QED
        BY <1>2, <2>1 DEF ChunkInv
<1>6. /\ wire'[r] = <<>> => chunks'[r] = <<>>
      /\ AgentP!Last(r)' \in {"headers", "data"} => Len(chunks'[r]) + 1 = Len(wire'[r])
      /\ \A i \in DOMAIN wire'[r] :
            wire'[r][i] = "done" /\ wire'[r][i - 1] \in {"headers", "data"} => buf'[r] + 2 = i
    BY <1>2, <1>3 DEF ChunkInv
<1> QED
    BY <1>3, <1>5, <1>6 DEF ChunkInv

\* The sender sends what it holds.
LEMMA SendKeeps ==
    ASSUME NEW r \in Request, AgentP!TypeOK, AgentP!Holding, AgentP!CallerInv(r),
           AgentP!SenderInv(r), WireInv(r), ChunkInv(r), AgentP!SenderSends(r)
    PROVE  WireInv(r)' /\ ChunkInv(r)'
<1>1. /\ held[r] \in {"headers", "data", "done"}
      /\ AgentP!MayFollow(held[r], AgentP!Last(r))
      /\ held[r] = "done" => caller[r] \notin {"fill", "data"}
    BY DEF AgentP!TypeOK, AgentP!SenderSends, AgentP!Holding, AgentP!SenderInv, AgentP!Kinds,
        AgentP!CallerInv, AgentP!Said, WireInv
<1>2. /\ wire'[r] = Append(wire[r], held[r]) /\ held'[r] = "none"
      /\ caller'[r] = caller[r] /\ buf'[r] = buf[r]
      /\ IF held[r] = "data" THEN \E c \in AgentP!Bytes(r) : chunks'[r] = Append(chunks[r], c)
                             ELSE chunks'[r] = chunks[r]
    BY DEF AgentP!TypeOK, AgentP!SenderSends, AgentP!callVars
<1>3. /\ buf[r] \in AgentP!Reads
      /\ chunks[r] \in Seq(SUBSET AgentP!Reads) /\ Len(chunks[r]) \in Nat
      /\ wire[r] \in Seq(AgentP!Kinds \cup {"eof"}) /\ Len(wire[r]) \in Nat
      /\ DOMAIN wire[r] = 1..Len(wire[r])
    BY DEF AgentP!TypeOK
<1>4. /\ WireInv(r)' /\ AgentP!Last(r)' = held[r]
      /\ Len(wire'[r]) = Len(wire[r]) + 1
      /\ \A i \in DOMAIN wire[r] : wire'[r][i] = wire[r][i]
    BY <1>1, <1>2, AppendKeeps
<1>5. /\ wire'[r] # <<>> /\ wire'[r][Len(wire[r]) + 1] = held[r]
      /\ DOMAIN wire'[r] = 1..(Len(wire[r]) + 1)
    <2>1. held[r] \in AgentP!Kinds \cup {"eof"}
        BY <1>1 DEF AgentP!Kinds
    <2>2. ASSUME NEW S, NEW w \in Seq(S), NEW e \in S
          PROVE  /\ Append(w, e) # <<>> /\ Append(w, e)[Len(w) + 1] = e
                 /\ DOMAIN Append(w, e) = 1..(Len(w) + 1)
        OBVIOUS
    <2> QED
        BY <1>2, <1>3, <2>1, <2>2
<1>6. /\ held[r] = "data" => Len(chunks'[r]) = Len(chunks[r]) + 1
      /\ held[r] # "data" => chunks'[r] = chunks[r]
    BY <1>2, <1>3
<1>7. Len(wire[r]) = 0 => AgentP!Last(r) = "none" /\ Len(chunks[r]) = 0
    BY <1>3 DEF AgentP!Last, ChunkInv
<1>8. ASSUME NEW i \in DOMAIN wire'[r], wire'[r][i] = "done",
             wire'[r][i - 1] \in {"headers", "data"}
      PROVE  buf[r] + 2 = i
    <2>1. i # 1
        BY <1>4, <1>8 DEF WireInv
    <2>2. CASE i \in DOMAIN wire[r]
        <3>1. i - 1 \in DOMAIN wire[r]
            BY <1>3, <2>1, <2>2
        <3>2. wire[r][i] = "done" /\ wire[r][i - 1] \in {"headers", "data"}
            BY <1>4, <1>8, <2>2, <3>1
        <3> QED
            BY <2>2, <3>2 DEF ChunkInv
    <2>3. CASE i = Len(wire[r]) + 1
        <3>1. held[r] = "done"
            BY <1>5, <1>8, <2>3
        <3>2. wire[r][Len(wire[r])] \in {"headers", "data"} /\ Len(wire[r]) > 0
            BY <1>3, <1>4, <1>8, <2>1, <2>3
        <3>3. AgentP!Last(r) \in {"headers", "data"}
            BY <1>3, <3>2 DEF AgentP!Last
        <3>4. InHand(r) = 0 /\ buf[r] = Len(chunks[r]) + InHand(r)
            BY <1>1, <3>1 DEF InHand, ChunkInv
        <3>5. Len(chunks[r]) + 1 = Len(wire[r])
            BY <3>3 DEF ChunkInv
        <3> QED
            BY <1>3, <2>3, <3>4, <3>5
    <2> QED
        BY <1>3, <1>5, <2>2, <2>3
<1>9. buf'[r] = Len(chunks'[r]) + InHand(r)'
    <2>1. buf[r] = Len(chunks[r]) + InHand(r) /\ InHand(r)' \in Nat
        BY DEF ChunkInv, InHand
    <2>2. CASE held[r] = "data"
        <3>1. InHand(r) = InHand(r)' + 1
            BY <1>2, <2>2 DEF InHand
        <3>2. Len(chunks'[r]) = Len(chunks[r]) + 1 /\ buf'[r] = buf[r]
            BY <1>2, <1>6, <2>2
        <3>3. Len(chunks[r]) \in Nat /\ InHand(r)' \in Nat
            BY <1>3, <2>1
        <3>4. buf[r] = Len(chunks[r]) + (InHand(r)' + 1)
            BY <2>1, <3>1
        <3>5. \A l \in Nat, h \in Nat : l + (h + 1) = (l + 1) + h
            OBVIOUS
        <3> QED
            BY <3>2, <3>3, <3>4, <3>5
    <2>3. CASE held[r] # "data"
        <3>1. InHand(r) = InHand(r)'
            BY <1>2, <2>3 DEF InHand
        <3> QED
            BY <1>2, <1>6, <2>1, <2>3, <3>1
    <2> QED
        BY <2>2, <2>3
<1>10. AgentP!Last(r)' \in {"headers", "data"} => Len(chunks'[r]) + 1 = Len(wire'[r])
    <2>1. CASE held[r] = "headers"
        <3>1. AgentP!Last(r) = "none"
            BY <1>1, <2>1 DEF AgentP!MayFollow
        <3>2. Len(wire[r]) = 0
            BY <1>3, <3>1 DEF AgentP!Last, AgentP!Kinds
        <3> QED
            BY <1>4, <1>6, <1>7, <2>1, <3>2
    <2>2. CASE held[r] = "data"
        <3>1. AgentP!Last(r) \in {"headers", "data"}
            BY <1>1, <2>2 DEF AgentP!MayFollow
        <3> QED
            BY <1>3, <1>4, <1>6, <2>2, <3>1 DEF ChunkInv
    <2> QED
        BY <1>1, <1>4, <2>1, <2>2
<1> QED
    BY <1>2, <1>4, <1>5, <1>8, <1>9, <1>10 DEF ChunkInv

\* The sender ends the stream.
LEMMA CloseKeeps ==
    ASSUME NEW r \in Request, AgentP!TypeOK, AgentP!Holding, AgentP!CallerInv(r),
           AgentP!SenderInv(r), WireInv(r), ChunkInv(r), link = "up", ctx = "live",
           AgentP!SenderCloses(r)
    PROVE  WireInv(r)' /\ ChunkInv(r)'
<1>1. /\ sender[r] = "select" /\ closed[r] /\ caller[r] \notin AgentP!Sending
      /\ wire'[r] = Append(wire[r], "eof")
      /\ held'[r] = held[r] /\ caller'[r] = caller[r] /\ buf'[r] = buf[r]
      /\ chunks'[r] = chunks[r]
    BY DEF AgentP!TypeOK, AgentP!SenderCloses, AgentP!callVars
<1>2. held[r] = "none" /\ caller[r] \in {"shutdown", "end"}
    BY <1>1, AgentP!Callers, KnownAssumption, ChunkAssumption
        DEF AgentP!Holding, AgentP!SenderInv, AgentP!TypeOK
<1>3. AgentP!Last(r) = "done"
    BY <1>1, <1>2 DEF AgentP!CallerInv, AgentP!Said
<1>4. /\ WireInv(r)' /\ AgentP!Last(r)' = "eof"
      /\ Len(wire'[r]) = Len(wire[r]) + 1
      /\ \A i \in DOMAIN wire[r] : wire'[r][i] = wire[r][i]
    BY <1>1, <1>2, <1>3, AppendKeeps
<1>5. /\ wire[r] \in Seq(AgentP!Kinds \cup {"eof"}) /\ Len(wire[r]) \in Nat
      /\ DOMAIN wire[r] = 1..Len(wire[r])
    BY DEF AgentP!TypeOK
<1>6. /\ wire'[r] # <<>> /\ wire'[r][Len(wire[r]) + 1] = "eof"
      /\ DOMAIN wire'[r] = 1..(Len(wire[r]) + 1)
    BY <1>1, <1>5
<1>7. ASSUME NEW i \in DOMAIN wire'[r], wire'[r][i] = "done",
             wire'[r][i - 1] \in {"headers", "data"}
      PROVE  buf[r] + 2 = i
    <2>1. i # 1 /\ i \in DOMAIN wire[r]
        BY <1>4, <1>5, <1>6, <1>7 DEF WireInv
    <2>2. wire[r][i] = "done" /\ wire[r][i - 1] \in {"headers", "data"}
        BY <1>4, <1>5, <1>7, <2>1
    <2> QED
        BY <2>1, <2>2 DEF ChunkInv
<1> QED
    BY <1>1, <1>2, <1>4, <1>6, <1>7 DEF ChunkInv, InHand

LEMMA AgentStreams ==
    ASSUME NEW r \in Request, AgentP!TypeOK, AgentP!Holding, AgentP!CallerInv(r),
           AgentP!SenderInv(r), WireInv(r), ChunkInv(r), link = "up", ctx = "live",
           AgentMoves(r)
    PROVE  WireInv(r)' /\ ChunkInv(r)'
<1>1. ASSUME \/ AgentP!LoopReceives(r) \/ AgentP!DoFails(r) \/ AgentP!DoReturns(r)
             \/ AgentP!CheckContext(r) \/ AgentP!ReadsNothing(r) \/ AgentP!ReadsOn(r)
             \/ AgentP!ReadsData(r)
             \/ AgentP!ReadEnds(r) \/ AgentP!ReadFails(r) \/ AgentP!Shutdown(r)
             \/ AgentP!DataPanics(r) \/ AgentP!FailPanics(r)
             \/ AgentP!SenderOpens(r) \/ AgentP!SenderFails(r) \/ AgentP!SenderReturns(r)
      PROVE  /\ UNCHANGED <<held, wire, buf, chunks>>
             /\ caller'[r] \in {"fill", "data"} <=> caller[r] \in {"fill", "data"}
    BY <1>1 DEF AgentP!TypeOK, AgentP!Goes, AgentP!callVars, AgentP!echoVars,
        AgentP!senderVars, AgentP!wireVars, AgentP!LoopReceives, AgentP!DoFails,
        AgentP!DoReturns, AgentP!CheckContext, AgentP!ReadsNothing, AgentP!ReadsOn,
        AgentP!ReadsData, AgentP!ReadEnds, AgentP!ReadFails, AgentP!Shutdown, AgentP!Ends,
        AgentP!DataPanics, AgentP!FailPanics, AgentP!Panics, AgentP!SenderOpens,
        AgentP!SenderFails, AgentP!SenderReturns
<1>2. ~AgentP!SenderDrops(r)
    BY DEF AgentP!SenderDrops
<1> QED
    BY <1>1, <1>2, SameStream, FillKeeps, HandKeeps, SendKeeps, CloseKeeps DEF AgentMoves,
        AgentP!CallerStep, AgentP!SenderStep, AgentP!SenderOwnStep, AgentP!SenderOwnStep

\* A step of the agent, while the connection is up, keeps its part of the invariant.
LEMMA AgentKeeps ==
    ASSUME Alive, link = "up", AgentP!IInv, \A q \in Request : AgentInv(q),
           NEW r \in Request, AgentMoves(r)
    PROVE  /\ AgentP!IInv' /\ UNCHANGED <<process, link, ctx>>
           /\ \A q \in Request : AgentInv(q)'
<1>1. AgentP!TypeOK /\ AgentP!Holding /\ AgentInv(r)
    BY DEF AgentP!IInv
<1>2. UNCHANGED <<process, link, ctx>>
    BY <1>1, AgentStays DEF AgentInv
<1>3. AgentP!Next
    BY DEF Alive, AgentMoves, AgentP!Next
<1>4. AgentP!IInv'
    BY <1>3, AgentP!StepInvariant, KnownAssumption, ChunkAssumption
<1>5. AgentP!Live'
    BY <1>2 DEF Alive, AgentP!Live
<1>6. ASSUME NEW q \in Request
      PROVE  AgentInv(q)'
    <2>1. AgentP!CallerInv(q)' /\ AgentP!SenderInv(q)'
        BY <1>4, <1>5 DEF AgentP!IInv
    <2>2. WireInv(q)' /\ ChunkInv(q)'
        <3>1. CASE q = r
            BY <1>1, <3>1, AgentStreams DEF AgentInv, Alive
        <3>2. CASE q # r
            <4>1. WireInv(q) /\ ChunkInv(q)
                BY DEF AgentInv
            <4> QED
                BY <1>1, <3>2, <4>1, AgentOthers, SameStream
        <3> QED
            BY <3>1, <3>2
    <2> QED
        BY <2>1, <2>2 DEF AgentInv
<1> QED
    BY <1>2, <1>4, <1>6

-----------------------------------------------------------------------------
(* Steps of the controller. *)

\* A step of the controller keeps what its own module proves of it.
LEMMA ControllerStays ==
    ASSUME ControllerP!IInv, ControllerP!Next \/ UNCHANGED controllerVars
    PROVE  ControllerP!IInv'
<1>1. /\ NoSession \notin {session}
      /\ [r \in Request |-> {session}] \in [Request -> SUBSET {session}]
      /\ MaxChunks + 1 \in Nat
      /\ FALSE \in BOOLEAN /\ CanLose \in BOOLEAN
    BY SessionAssumption, ChunkAssumption, SwitchAssumption
<1>2. [ControllerP!Next]_(ControllerP!vars)
    BY DEF controllerVars, ControllerP!vars, ControllerP!sessionVars,
        ControllerP!managerVars, ControllerP!requestVars, ControllerP!flowVars,
        ControllerP!echoVars
<1> QED
    BY <1>1, <1>2, RequestAssumption, ControllerP!StepInvariant

\* What a step of the session's handlers does to the requests.
LEMMA SessionKeeps ==
    ASSUME ControllerP!IInv, FlushInv, UNCHANGED <<wire, buf, read>>,
           \A r \in Request : ReadInv(r) /\ EchoedInv(r),
           ControllerP!SessionOwnStep(session)
    PROVE  /\ FlushInv'
           /\ conn'[session] \in {"none", "up"} <=> conn[session] \in {"none", "up"}
           /\ \A r \in Request : ReadInv(r)' /\ EchoedInv(r)'
<1> USE DEF ControllerP!sessionVars, ControllerP!managerVars, ControllerP!requestVars,
            ControllerP!flowVars, ControllerP!echoVars, ControllerP!Goes
<1>0. /\ ControllerP!TypeOK /\ ControllerP!HandlerInv(session)
      /\ \A r \in Request : ControllerP!AskedInv(r) /\ ControllerP!EchoInv(r)
    BY DEF ControllerP!IInv
<1>1. ASSUME UNCHANGED <<flow, events, state, accepted, heads, body, http>>
      PROVE  \A r \in Request : ReadInv(r)' /\ EchoedInv(r)'
    BY <1>1 DEF ReadInv, EchoedInv, HasDone
<1>2. CASE ControllerP!Hello(session) \/ ControllerP!ConnectionCloses(session)
             \/ ControllerP!Expire(session)
    <2>1. UNCHANGED <<flow, events, state, accepted, heads, body, http, wfr>>
        BY <1>2 DEF ControllerP!Hello, ControllerP!ConnectionCloses, ControllerP!Expire
    <2>2. /\ conn'[session] \in {"none", "up"} <=> conn[session] \in {"none", "up"}
          /\ conn[session] \in {"lost", "closed"} => conn'[session] \in {"lost", "closed"}
        BY <1>0, <1>2 DEF ControllerP!Hello, ControllerP!ConnectionCloses, ControllerP!Expire,
            ControllerP!TypeOK
    <2> QED
        BY <1>1, <2>1, <2>2 DEF FlushInv
<1>3. CASE ControllerP!WaitForRequest(session) \/ ControllerP!Register(session)
             \/ ControllerP!SendFails(session) \/ ControllerP!ContextDone(session)
             \/ ControllerP!RemoveSession(session) \/ ControllerP!FlushLock(session)
             \/ ControllerP!FlushNext(session) \/ ControllerP!FlushUnlock(session)
    <2>1. UNCHANGED <<flow, events, state, accepted, heads, body, http, conn>>
        BY <1>3 DEF ControllerP!WaitForRequest, ControllerP!Register, ControllerP!SendFails,
            ControllerP!ContextDone, ControllerP!RemoveSession, ControllerP!FlushLock,
            ControllerP!FlushNext, ControllerP!FlushUnlock
    <2>2. wfr'[session] \in {"remove", "flush", "flushing", "cancel", "mark", "done"} =>
            \/ wfr[session] \in {"remove", "flush", "flushing", "cancel", "mark", "done"}
            \/ conn[session] \in {"lost", "closed"}
        BY <1>0, <1>3 DEF ControllerP!WaitForRequest, ControllerP!Register,
            ControllerP!SendFails, ControllerP!ContextDone, ControllerP!RemoveSession,
            ControllerP!FlushLock, ControllerP!FlushNext, ControllerP!FlushUnlock,
            ControllerP!TypeOK, ControllerP!Refused
    <2> QED
        BY <1>1, <2>1, <2>2 DEF FlushInv
<1>4. ASSUME NEW q \in Request, ControllerP!TakeRequest(session, q)
      PROVE  /\ FlushInv' /\ conn' = conn
             /\ \A r \in Request : ReadInv(r)' /\ EchoedInv(r)'
    <2>1. /\ http[q] = "offer" /\ http' = [http EXCEPT ![q] = "echo"]
          /\ UNCHANGED <<flow, events, state, accepted, heads, body, conn>>
          /\ wfr'[session] = "register"
        BY <1>0, <1>4 DEF ControllerP!TakeRequest, ControllerP!TypeOK
    <2>2. flow[q] = "idle" /\ state[q] = "headers" /\ accepted[q] = <<>>
        BY <1>0, <2>1 DEF ControllerP!AskedInv, ControllerP!EchoInv, ControllerP!Started,
            ControllerP!EndStates, ControllerP!Refused
    <2>3. \A r \in Request : r # q => http'[r] = http[r]
        BY <1>0, <2>1 DEF ControllerP!TypeOK
    <2>4. http'[q] = "echo"
        BY <1>0, <2>1 DEF ControllerP!TypeOK
    <2>5. FlushInv'
        BY <2>1, <2>3, <2>4 DEF FlushInv
    <2>6. ASSUME NEW r \in Request
          PROVE  ReadInv(r)' /\ EchoedInv(r)'
        BY <2>1, <2>2, <2>3, <2>4 DEF ReadInv, EchoedInv, HasDone
    <2> QED
        BY <2>1, <2>5, <2>6
<1>5. CASE ControllerP!CancelStream(session)
    <2>1. /\ wfr[session] = "cancel" /\ cur[session] \in Request
          /\ http' = [http EXCEPT ![cur[session]] = "canceled"]
          /\ UNCHANGED <<flow, events, state, accepted, heads, body, conn>>
        BY <1>0, <1>5 DEF ControllerP!CancelStream, ControllerP!HandlerInv
    <2>2. \A r \in Request : http'[r] = http[r] \/ http'[r] = "canceled"
        BY <1>0, <2>1 DEF ControllerP!TypeOK
    <2>3. FlushInv'
        BY <2>1, <2>2 DEF FlushInv
    <2>4. ASSUME NEW r \in Request
          PROVE  ReadInv(r)' /\ EchoedInv(r)'
        BY <2>1, <2>2 DEF ReadInv, EchoedInv, HasDone
    <2> QED
        BY <2>1, <2>3, <2>4
<1>6. CASE ControllerP!FlushDelete(session)
    <2>1. /\ wfr[session] = "mark" /\ cur[session] \in Request
          /\ http[cur[session]] # "echo"
          /\ state' = [state EXCEPT ![cur[session]] = "canceled"]
          /\ UNCHANGED <<flow, events, http, accepted, heads, body, conn>>
        BY <1>0, <1>6 DEF ControllerP!FlushDelete, ControllerP!HandlerInv,
            ControllerP!EndStates, ControllerP!Refused
    <2>2. \A r \in Request : http[r] = "echo" => state'[r] = state[r]
        BY <1>0, <2>1 DEF ControllerP!TypeOK
    <2>3. FlushInv'
        BY <2>1 DEF FlushInv
    <2>4. ASSUME NEW r \in Request
          PROVE  ReadInv(r)' /\ EchoedInv(r)'
        BY <2>1, <2>2 DEF ReadInv, EchoedInv, HasDone
    <2> QED
        BY <2>1, <2>3, <2>4
<1> QED
    BY <1>2, <1>3, <1>4, <1>5, <1>6 DEF ControllerP!SessionOwnStep

\* A step that changes nothing of a request keeps what is known of it.
LEMMA OtherRequest ==
    ASSUME NEW q \in Request, ReadInv(q), EchoedInv(q), UNCHANGED <<wire, buf>>,
           read'[q] = read[q], flow'[q] = flow[q], events'[q] = events[q],
           http'[q] = http[q], state'[q] = state[q], accepted'[q] = accepted[q],
           heads'[q] = heads[q], body'[q] = body[q]
    PROVE  ReadInv(q)' /\ EchoedInv(q)'
BY DEF ReadInv, EchoedInv, HasDone

\* The HTTP handler before runEcho, and the opening of the data flow.
LEMMA RequestKeeps ==
    ASSUME ControllerP!IInv, FlushInv, UNCHANGED <<wire, buf, read>>,
           \A q \in Request : ReadInv(q) /\ EchoedInv(q),
           NEW r \in Request, ControllerP!RequestStep(r) \/ ControllerP!AgentOpens(r)
    PROVE  /\ FlushInv' /\ conn' = conn
           /\ \A q \in Request : ReadInv(q)' /\ EchoedInv(q)'
<1> USE DEF ControllerP!sessionVars, ControllerP!managerVars, ControllerP!requestVars,
            ControllerP!flowVars, ControllerP!echoVars
<1>0. ControllerP!TypeOK
    BY DEF ControllerP!IInv
<1>1. CASE ControllerP!RequestStep(r)
    <2>1. /\ UNCHANGED <<flow, events, state, accepted, body, wfr, conn>>
          /\ \/ UNCHANGED <<http, heads>>
             \/ /\ http[r] \in {"idle", "body"}
                /\ \E h \in {"body", "offer", "refused"} : http' = [http EXCEPT ![r] = h]
                /\ UNCHANGED heads \/ heads' = [heads EXCEPT ![r] = @ + 1]
        BY <1>1 DEF ControllerP!RequestStep, ControllerP!FindSession, ControllerP!NoSuchAgent,
            ControllerP!BadRequest, ControllerP!OfferRequest, ControllerP!ClientLeaves,
            ControllerP!Refuse, ControllerP!Refused
    <2>2. /\ \A q \in Request : q # r => http'[q] = http[q] /\ heads'[q] = heads[q]
          /\ \/ http'[r] = http[r] /\ heads'[r] = heads[r]
             \/ http'[r] \in {"body", "offer", "refused"}
        BY <1>0, <2>1 DEF ControllerP!TypeOK
    <2>3. FlushInv'
        BY <2>1, <2>2 DEF FlushInv
    <2>4. ASSUME NEW q \in Request
          PROVE  ReadInv(q)' /\ EchoedInv(q)'
        <3>1. CASE http'[q] = http[q] /\ heads'[q] = heads[q]
            BY <2>1, <3>1, OtherRequest
        <3>2. CASE http'[q] \in {"body", "offer", "refused"}
            BY <2>1, <3>2 DEF ReadInv, EchoedInv
        <3> QED
            BY <2>2, <3>1, <3>2
    <2> QED
        BY <2>1, <2>3, <2>4
<1>2. CASE ControllerP!AgentOpens(r)
    <2>1. /\ flow[r] = "idle" /\ flow'[r] = "lookup"
          /\ \A q \in Request : q # r => flow'[q] = flow[q]
          /\ UNCHANGED <<events, http, state, accepted, heads, body, wfr, conn>>
        BY <1>0, <1>2 DEF ControllerP!AgentOpens, ControllerP!TypeOK
    <2>2. ReadInv(r)' /\ EchoedInv(r)'
        BY <2>1 DEF ReadInv, EchoedInv, HasDone
    <2>3. \A q \in Request : q # r => ReadInv(q)' /\ EchoedInv(q)'
        BY <2>1, OtherRequest
    <2> QED
        BY <2>1, <2>2, <2>3 DEF FlushInv
<1> QED
    BY <1>1, <1>2

\* The data flow handler, when it receives no message, and runEcho.
LEMMA FlowKeeps ==
    ASSUME ControllerP!IInv, FlushInv, UNCHANGED <<wire, buf, read>>,
           \A q \in Request : ReadInv(q) /\ EchoedInv(q),
           NEW r \in Request, ControllerP!FlowOwnStep(r) \/ ControllerP!EchoStep(r)
    PROVE  /\ FlushInv' /\ conn' = conn
           /\ \A q \in Request : ReadInv(q)' /\ EchoedInv(q)'
<1> USE DEF ControllerP!sessionVars, ControllerP!managerVars, ControllerP!requestVars,
            ControllerP!flowVars, ControllerP!echoVars, ControllerP!Meets, ControllerP!Returns
<1>0. ControllerP!TypeOK /\ ControllerP!EchoInv(r) /\ ReadInv(r) /\ EchoedInv(r)
    BY DEF ControllerP!IInv
<1>1. /\ UNCHANGED <<wfr, conn, events, accepted>>
      /\ \A q \in Request : q # r =>
            /\ flow'[q] = flow[q] /\ http'[q] = http[q] /\ state'[q] = state[q]
            /\ heads'[q] = heads[q] /\ body'[q] = body[q]
    BY <1>0 DEF ControllerP!TypeOK, ControllerP!FlowOwnStep, ControllerP!LookupStream,
        ControllerP!RecvCanceled, ControllerP!RecvError, ControllerP!Fails,
        ControllerP!UnregisterStream, ControllerP!EchoStep, ControllerP!EchoHeaders,
        ControllerP!EchoData, ControllerP!EchoWriteFails, ControllerP!EchoDone,
        ControllerP!EchoCanceled, ControllerP!EchoFailed, ControllerP!EchoClientGone
<1>2. \A q \in Request : q # r => ReadInv(q)' /\ EchoedInv(q)'
    BY <1>1, OtherRequest
<1>3. CASE ControllerP!FlowOwnStep(r)
    <2>1. /\ UNCHANGED <<http, heads, body>>
          /\ \/ flow[r] = "lookup" /\ flow'[r] \in {"recv", "rejected"} /\ state' = state
             \/ flow'[r] \in {"unregister", "fail", "ended"}
        BY <1>0, <1>3 DEF ControllerP!TypeOK, ControllerP!FlowOwnStep,
            ControllerP!LookupStream, ControllerP!RecvCanceled, ControllerP!RecvError,
            ControllerP!Fails, ControllerP!UnregisterStream
    <2>2. ReadInv(r)' /\ EchoedInv(r)'
        BY <1>0, <1>1, <2>1 DEF ReadInv, EchoedInv, HasDone
    <2> QED
        BY <1>1, <1>2, <2>1, <2>2 DEF FlushInv
<1>4. CASE ControllerP!EchoHeaders(r) \/ ControllerP!EchoData(r)
    <2>1. /\ http[r] = "echo" /\ flow[r] \in {"headers", "data"} /\ flow'[r] = "recv"
          /\ UNCHANGED <<http, state>>
        BY <1>0, <1>4 DEF ControllerP!TypeOK, ControllerP!EchoHeaders, ControllerP!EchoData
    <2>2. ReadInv(r)' /\ EchoedInv(r)'
        BY <1>0, <1>1, <2>1 DEF ReadInv, EchoedInv, HasDone
    <2> QED
        BY <1>1, <1>2, <2>1, <2>2 DEF FlushInv
<1>5. CASE ControllerP!EchoDone(r)
    <2>1. /\ http[r] = "echo" /\ flow[r] = "done"
          /\ http'[r] = "done" /\ flow'[r] = "unregister"
          /\ UNCHANGED <<state, heads, body>>
        BY <1>0, <1>5 DEF ControllerP!TypeOK, ControllerP!EchoDone
    <2>2. heads[r] = 1 /\ body[r] = accepted[r]
        BY <1>0, <2>1 DEF ControllerP!EchoInv
    <2>3. ReadInv(r)' /\ EchoedInv(r)'
        BY <1>0, <1>1, <2>1, <2>2 DEF ReadInv, EchoedInv, HasDone
    <2>4. \A q \in Request : http'[q] = http[q] \/ http'[q] # "canceled"
        BY <1>1, <2>1
    <2> QED
        BY <1>1, <1>2, <2>3, <2>4 DEF FlushInv
<1>6. ~ControllerP!EchoCanceled(r)
    BY <1>0 DEF ReadInv, ControllerP!EchoCanceled
<1>7. CASE ControllerP!EchoWriteFails(r) \/ ControllerP!EchoFailed(r)
             \/ ControllerP!EchoClientGone(r)
    <2>1. /\ http'[r] \in {"left", "failed"}
          /\ \/ flow'[r] = flow[r]
             \/ flow'[r] = "unregister"
             \/ flow[r] = "data" /\ flow'[r] = "recv"
        BY <1>0, <1>7 DEF ControllerP!TypeOK, ControllerP!EchoWriteFails,
            ControllerP!EchoFailed, ControllerP!EchoClientGone
    <2>2. ReadInv(r)' /\ EchoedInv(r)'
        BY <1>0, <1>1, <2>1 DEF ReadInv, EchoedInv
    <2>3. \A q \in Request : http'[q] = http[q] \/ http'[q] # "canceled"
        BY <1>1, <2>1
    <2> QED
        BY <1>1, <1>2, <2>2, <2>3 DEF FlushInv
<1> QED
    BY <1>3, <1>4, <1>5, <1>6, <1>7 DEF ControllerP!EchoStep

\* The message e is what the data flow handler receives next.
Receive(r, e) ==
    \/ e = "headers" /\ ControllerP!RecvHeaders(r)
    \/ e = "data" /\ ControllerP!RecvData(r)
    \/ e = "done" /\ ControllerP!RecvDone(r)
    \/ e = "cancel" /\ ControllerP!RecvCancel(r)
    \/ e = "eof" /\ ControllerP!RecvEOF(r)

\* What the handler can receive, given what it has received.
LEMMA Received ==
    ASSUME AgentP!TypeOK, NEW r \in Request, WireInv(r), ChunkInv(r), ReadInv(r),
           read[r] < Len(wire[r]), NEW e, e = wire[r][read[r] + 1], Receive(r, e)
    PROVE  /\ read[r] \in Nat /\ read[r] + 1 \in DOMAIN wire[r]
           /\ flow[r] = "recv" /\ events[r] = read[r]
           /\ e \notin {"cancel", "eof"}
           /\ e = "headers" <=> read[r] = 0
           /\ e = "done" => buf[r] + 1 = read[r]
<1>1. flow[r] = "recv"
    BY DEF Receive, ControllerP!RecvHeaders, ControllerP!RecvData, ControllerP!RecvDone,
        ControllerP!RecvCancel, ControllerP!RecvEOF, ControllerP!Receives
<1>2. /\ Len(wire[r]) \in Nat /\ DOMAIN wire[r] = 1..Len(wire[r]) /\ buf[r] \in Nat
      /\ read[r] \in Nat /\ read[r] + 1 \in DOMAIN wire[r]
    <2>1. buf[r] \in 0..MaxChunks /\ Len(wire[r]) \in Nat /\ DOMAIN wire[r] = 1..Len(wire[r])
        BY DEF AgentP!TypeOK, AgentP!Reads
    <2>2. read[r] \in 0..Len(wire[r])
        BY DEF ReadInv
    <2> QED
        BY <2>1, <2>2, ChunkAssumption
<1>3. events[r] = read[r] /\ \A i \in 1..read[r] : wire[r][i] \in {"headers", "data"}
    BY <1>1 DEF ReadInv
<1>4. e # "cancel" /\ (e = "headers" <=> read[r] = 0)
    BY <1>2 DEF WireInv
<1>5. read[r] > 0 => wire[r][(read[r] + 1) - 1] \in {"headers", "data"}
    BY <1>2, <1>3
<1>6. e # "eof"
    BY <1>2, <1>5 DEF WireInv
<1>7. e = "done" => buf[r] + 1 = read[r]
    <2> SUFFICES ASSUME e = "done" PROVE buf[r] + 1 = read[r]
        OBVIOUS
    <2>1. read[r] > 0
        BY <1>2, <1>4
    <2>2. buf[r] + 2 = read[r] + 1
        BY <1>2, <1>5, <2>1 DEF ChunkInv
    <2> QED
        BY <1>2, <2>2
<1> QED
    BY <1>1, <1>2, <1>3, <1>4, <1>6, <1>7

\* The handler has received one more event, and accepted it.
LEMMA OneMoreAfterHead ==
    ASSUME NEW S, NEW s \in Seq(S), NEW n \in Nat, n + 1 \in S, AllAfterHead(s, n)
    PROVE  AllAfterHead(Append(s, n + 1), n + 1)
<1>1. /\ Len(s) \in Nat /\ Len(Append(s, n + 1)) = Len(s) + 1
      /\ \A i \in 1..Len(s) : Append(s, n + 1)[i] = s[i]
      /\ Append(s, n + 1)[Len(s) + 1] = n + 1
    OBVIOUS
<1> HIDE DEF AllAfterHead
<1>2. n = Len(s) + 1
    BY <1>1 DEF AllAfterHead
<1>3. \A i \in 1..(Len(s) + 1) : i \in 1..Len(s) \/ i = Len(s) + 1
    BY <1>1
<1> QED
    BY <1>1, <1>2, <1>3 DEF AllAfterHead

\* The data flow handler receives a message.
LEMMA RecvKeeps ==
    ASSUME AgentP!TypeOK, ControllerP!IInv, FlushInv, UNCHANGED <<wire, buf>>,
           \A q \in Request : ReadInv(q) /\ EchoedInv(q),
           NEW r \in Request, WireInv(r), ChunkInv(r),
           read \in [Request -> Nat], read[r] < Len(wire[r]),
           read' = [read EXCEPT ![r] = @ + 1],
           NEW e, e = wire[r][read[r] + 1], Receive(r, e)
    PROVE  /\ FlushInv' /\ conn' = conn
           /\ \A q \in Request : ReadInv(q)' /\ EchoedInv(q)'
<1> USE DEF ControllerP!sessionVars, ControllerP!managerVars, ControllerP!requestVars,
            ControllerP!flowVars, ControllerP!echoVars
<1>0. /\ ControllerP!TypeOK /\ ReadInv(r) /\ EchoedInv(r)
      /\ read[r] \in Nat /\ read[r] + 1 \in DOMAIN wire[r]
      /\ flow[r] = "recv" /\ events[r] = read[r]
      /\ e \notin {"cancel", "eof"}
      /\ e = "headers" <=> read[r] = 0
      /\ e = "done" => buf[r] + 1 = read[r]
    BY Received DEF ControllerP!IInv
<1>1. /\ Len(wire[r]) \in Nat /\ buf[r] \in Nat
      /\ read'[r] = read[r] + 1 /\ DOMAIN wire[r] = 1..Len(wire[r])
      /\ wire'[r] = wire[r] /\ buf'[r] = buf[r]
      /\ \A q \in Request : q # r => read'[q] = read[q]
    <2>1. Len(wire[r]) \in Nat /\ DOMAIN wire[r] = 1..Len(wire[r])
        BY DEF AgentP!TypeOK
    <2>2. buf[r] \in 0..MaxChunks
        BY DEF AgentP!TypeOK, AgentP!Reads
    <2> QED
        BY <2>1, <2>2, ChunkAssumption
<1>2. /\ UNCHANGED <<wfr, conn, http, heads, body>>
      /\ \A q \in Request : q # r =>
            /\ flow'[q] = flow[q] /\ state'[q] = state[q]
            /\ events'[q] = events[q] /\ accepted'[q] = accepted[q]
    BY <1>0 DEF Receive, ControllerP!TypeOK, ControllerP!Receives, ControllerP!RecvHeaders,
        ControllerP!RecvData, ControllerP!RecvDone
<1>3. \A q \in Request : q # r => ReadInv(q)' /\ EchoedInv(q)'
    BY <1>1, <1>2, OtherRequest
<1>4. read'[r] \in 0..Len(wire'[r])
    BY <1>0, <1>1
<1>5. ASSUME e = "headers" PROVE ReadInv(r)' /\ EchoedInv(r)'
    <2>1. /\ read[r] = 0 /\ events'[r] = 1 /\ accepted'[r] = accepted[r]
          /\ flow'[r] \in {"recv", "headers"}
          /\ state[r] = "headers" => state'[r] = "data"
        BY <1>0, <1>5 DEF Receive, ControllerP!TypeOK, ControllerP!Receives,
            ControllerP!RecvHeaders
    <2>2. ReadInv(r)'
        <3>1. read'[r] = 1 /\ \A i \in 1..1 : i = 1
            BY <1>1, <2>1
        <3>2. wire'[r][1] = "headers"
            <4>1. read[r] + 1 = 1
                BY <2>1
            <4>2. wire[r][1] = "headers"
                BY <1>5, <4>1
            <4> QED
                BY <1>1, <4>2
        <3>3. \A i \in 1..read'[r] : wire'[r][i] \in {"headers", "data"}
            BY <3>1, <3>2
        <3> QED
            BY <1>4, <2>1, <3>1, <3>3 DEF ReadInv
    <2>3. EchoedInv(r)'
        <3>1. AllAfterHead(<<>>, 1)
            BY DEF AllAfterHead
        <3>2. http[r] = "echo" => state[r] = "headers" /\ accepted[r] = <<>>
            BY <1>0, <2>1 DEF EchoedInv
        <3>3. http[r] = "echo" => state'[r] = "data" /\ AllAfterHead(accepted'[r], read'[r])
            BY <1>1, <2>1, <3>1, <3>2
        <3> QED
            BY <1>0, <1>1, <1>2, <2>1, <3>3 DEF EchoedInv, HasDone
    <2> QED
        BY <2>2, <2>3
<1>6. ASSUME e = "data" PROVE ReadInv(r)' /\ EchoedInv(r)'
    <2>0. ControllerP!RecvData(r)
        BY <1>6 DEF Receive
    <2>1. /\ read[r] > 0 /\ events'[r] = events[r] + 1 /\ state'[r] = state[r]
          /\ flow'[r] \in {"recv", "data"}
          /\ state[r] = "data" => accepted'[r] = Append(accepted[r], events'[r])
        <3>1. /\ events \in [Request -> 0..(MaxChunks + 1)]
              /\ accepted \in [Request -> ControllerP!DataEvents]
              /\ flow \in [Request -> ControllerP!FlowStates]
            BY <1>0 DEF ControllerP!TypeOK
        <3>2. read[r] > 0
            BY <1>0, <1>6
        <3> QED
            BY <1>0, <2>0, <3>1, <3>2 DEF ControllerP!Receives, ControllerP!RecvData
    <2>2. ReadInv(r)'
        <3>1. \A i \in 1..read'[r] : i \in 1..read[r] \/ i = read[r] + 1
            BY <1>0, <1>1
        <3>2. \A i \in 1..read'[r] : wire'[r][i] \in {"headers", "data"}
            BY <1>0, <1>1, <1>6, <3>1 DEF ReadInv
        <3> QED
            BY <1>0, <1>1, <1>4, <2>1, <3>2 DEF ReadInv
    <2>3. EchoedInv(r)'
        <3>1. http[r] = "echo" => state[r] = "data" /\ AllAfterHead(accepted[r], read[r])
            BY <1>0, <2>1 DEF EchoedInv
        <3>2. http[r] = "echo" => state'[r] = "data" /\ AllAfterHead(accepted'[r], read'[r])
            <4>1. accepted[r] \in Seq(1..(MaxChunks + 1))
                BY <1>0 DEF ControllerP!TypeOK, ControllerP!DataEvents
            <4>2. /\ events'[r] = read[r] + 1 /\ read'[r] = read[r] + 1
                  /\ read[r] + 1 \in 1..(MaxChunks + 1)
                BY <1>0, <1>1, <2>0, <2>1, ChunkAssumption DEF ControllerP!RecvData,
                    ControllerP!Receives
            <4>3. ASSUME AllAfterHead(accepted[r], read[r])
                  PROVE  AllAfterHead(Append(accepted[r], read[r] + 1), read[r] + 1)
                BY <1>0, <4>1, <4>2, <4>3, OneMoreAfterHead
            <4> QED
                BY <2>1, <3>1, <4>2, <4>3
        <3> QED
            BY <1>0, <1>1, <1>2, <2>1, <3>2 DEF EchoedInv, HasDone
    <2> QED
        BY <2>2, <2>3
<1>7. ASSUME e = "done" PROVE ReadInv(r)' /\ EchoedInv(r)'
    <2>1. /\ read[r] > 0 /\ UNCHANGED <<events, state, accepted>>
          /\ flow'[r] = IF state[r] = "data" THEN "done" ELSE "unregister"
        BY <1>0, <1>7 DEF Receive, ControllerP!TypeOK, ControllerP!RecvDone
    <2>2. ReadInv(r)'
        BY <1>4, <2>1 DEF ReadInv
    <2>3. EchoedInv(r)'
        <3>1. HasDone(r)'
            BY <1>0, <1>1, <1>7 DEF HasDone
        <3>2. http[r] = "echo" => AllAfterHead(accepted[r], read[r])
            BY <1>0, <2>1 DEF EchoedInv
        <3>3. http[r] = "echo" => AllAfterHead(accepted[r], buf[r] + 1)
            BY <1>0, <1>7, <3>2
        <3> QED
            BY <1>0, <1>1, <1>2, <2>1, <3>1, <3>3 DEF EchoedInv
    <2> QED
        BY <2>2, <2>3
<1> QED
    BY <1>0, <1>2, <1>3, <1>5, <1>6, <1>7 DEF Receive, FlushInv

-----------------------------------------------------------------------------
(* What the agent sends leaves what the controller has made of it. *)

LEMMA AgentLeaves ==
    ASSUME AgentP!TypeOK, AgentP!Holding, NEW r \in Request, AgentMoves(r),
           \A q \in Request : AgentInv(q) /\ ReadInv(q) /\ EchoedInv(q),
           UNCHANGED <<controllerVars, read>>
    PROVE  \A q \in Request : ReadInv(q)' /\ EchoedInv(q)'
<1> USE DEF controllerVars
<1>1. ASSUME NEW q \in Request, wire'[q] = wire[q], buf'[q] = buf[q]
      PROVE  ReadInv(q)' /\ EchoedInv(q)'
    BY <1>1 DEF ReadInv, EchoedInv, HasDone
<1>2. \A q \in Request : q # r => ReadInv(q)' /\ EchoedInv(q)'
    BY <1>1, AgentOthers
<1>3. CASE AgentP!BodyFills(r)
    <2>1. wire'[r] = wire[r] /\ caller[r] = "read"
        BY <1>3 DEF AgentP!BodyFills, AgentP!wireVars
    <2>2. ~HasDone(r)
        <3>1. AgentP!Last(r) \notin {"done", "eof"}
            BY <2>1 DEF AgentInv, AgentP!CallerInv, AgentP!SenderInv, AgentP!Said,
                AgentP!MayFollow
        <3> QED
            BY <3>1 DEF AgentInv, WireInv, HasDone
    <2>3. ReadInv(r)' /\ EchoedInv(r)'
        BY <2>1, <2>2 DEF ReadInv, EchoedInv, HasDone
    <2> QED
        BY <1>2, <2>3
<1>4. CASE AgentP!SenderSends(r) \/ AgentP!SenderCloses(r)
    <2>1. /\ buf'[r] = buf[r]
          /\ \/ wire'[r] = wire[r]
             \/ \E k \in AgentP!Kinds \cup {"eof"} : wire'[r] = Append(wire[r], k)
        <3>1. CASE AgentP!SenderSends(r)
            <4>1. held[r] \in AgentP!Kinds
                BY <3>1 DEF AgentP!SenderSends, AgentP!Holding, AgentP!TypeOK
            <4>2. wire'[r] = Append(wire[r], held[r]) /\ buf' = buf
                BY <3>1 DEF AgentP!SenderSends, AgentP!TypeOK, AgentP!callVars
            <4> QED
                BY <4>1, <4>2
        <3>2. CASE AgentP!SenderCloses(r)
            BY <3>2 DEF AgentP!TypeOK, AgentP!SenderCloses, AgentP!callVars
        <3> QED
            BY <1>4, <3>1, <3>2
    <2>2. CASE wire'[r] = wire[r]
        BY <1>1, <1>2, <2>1, <2>2
    <2>3. CASE \E k \in AgentP!Kinds \cup {"eof"} : wire'[r] = Append(wire[r], k)
        <3>1. /\ Len(wire[r]) \in Nat /\ Len(wire'[r]) = Len(wire[r]) + 1
              /\ DOMAIN wire[r] = 1..Len(wire[r]) /\ DOMAIN wire'[r] = 1..Len(wire'[r])
              /\ \A i \in 1..Len(wire[r]) : wire'[r][i] = wire[r][i]
            BY <2>3 DEF AgentP!TypeOK
        <3>2. ReadInv(r)'
            BY <3>1 DEF ReadInv
        <3>3. HasDone(r) => HasDone(r)'
            BY <3>1 DEF HasDone
        <3>4. EchoedInv(r)'
            BY <2>1, <3>3 DEF EchoedInv
        <3> QED
            BY <1>2, <3>2, <3>4
    <2> QED
        BY <2>1, <2>2, <2>3
<1>5. CASE ~(AgentP!BodyFills(r) \/ AgentP!SenderSends(r) \/ AgentP!SenderCloses(r))
    <2>1. UNCHANGED <<wire, buf>>
        BY <1>5 DEF AgentMoves, AgentP!LoopReceives, AgentP!CallerStep, AgentP!SenderStep,
            AgentP!SenderOwnStep, AgentP!callVars, AgentP!echoVars, AgentP!senderVars,
            AgentP!wireVars, AgentP!DoFails, AgentP!DoReturns, AgentP!CheckContext,
            AgentP!ReadsData, AgentP!ReadsNothing, AgentP!SenderReturns, AgentP!ReadsOn,
            AgentP!ReadEnds, AgentP!ReadFails, AgentP!Shutdown, AgentP!Ends,
            AgentP!DataPanics, AgentP!FailPanics, AgentP!Panics, AgentP!SenderOpens,
            AgentP!SenderFails, AgentP!SenderDrops, AgentP!Hand, AgentP!HandHeaders,
            AgentP!HandData, AgentP!HandDone, AgentP!HandCancel, AgentP!HandFailure,
            AgentP!HandShutdown
    <2> QED
        BY <1>1, <2>1
<1> QED
    BY <1>3, <1>4, <1>5

-----------------------------------------------------------------------------
(* The invariant is inductive. *)

LEMMA InitInvariant == Init => IInv
<1> SUFFICES ASSUME Init PROVE IInv
    OBVIOUS
<1>1. AgentP!Init /\ ControllerP!Init
    BY SameAgent, SameController DEF Init
<1>2. AgentP!IInv
    BY <1>1, AgentP!InitInvariant, KnownAssumption, ChunkAssumption
<1>3. ControllerP!IInv
    <2>1. /\ NoSession \notin {session}
          /\ [r \in Request |-> {session}] \in [Request -> SUBSET {session}]
          /\ MaxChunks + 1 \in Nat
          /\ FALSE \in BOOLEAN /\ CanLose \in BOOLEAN
        BY SessionAssumption, ChunkAssumption, SwitchAssumption
    <2> QED
        BY <1>1, <2>1, RequestAssumption, ControllerP!InitIInv
<1>4. Alive /\ FlushInv /\ inbox \in Seq(Request) /\ read \in [Request -> Nat]
    BY <1>1 DEF Init, AgentP!Init, ControllerP!Init, Alive, FlushInv
<1>5. ASSUME NEW r \in Request
      PROVE  AgentInv(r) /\ ReadInv(r) /\ EchoedInv(r)
    <2>1. AgentP!Live
        BY <1>1 DEF AgentP!Init, AgentP!Live
    <2>2. AgentP!CallerInv(r) /\ AgentP!SenderInv(r)
        BY <1>2, <2>1 DEF AgentP!IInv
    <2>3. /\ wire[r] = <<>> /\ chunks[r] = <<>> /\ held[r] = "none" /\ caller[r] = "none"
          /\ buf[r] = 0
        BY <1>1 DEF AgentP!Init
    <2>4. WireInv(r) /\ ChunkInv(r)
        BY <2>3 DEF WireInv, ChunkInv, InHand, AgentP!Last
    <2>5. ReadInv(r) /\ EchoedInv(r)
        BY <1>1, <2>3 DEF Init, ControllerP!Init, ReadInv, EchoedInv
    <2> QED
        BY <2>2, <2>4, <2>5 DEF AgentInv
<1> QED
    BY <1>2, <1>3, <1>4, <1>5 DEF IInv

LEMMA SameAgentInv ==
    ASSUME NEW r \in Request, AgentInv(r),
           UNCHANGED <<caller, buf, headersSent, closed, sender, held, wire, chunks>>
    PROVE  AgentInv(r)'
<1>1. AgentP!Last(r)' = AgentP!Last(r) /\ AgentP!Said(r)' = AgentP!Said(r)
    BY DEF AgentP!Said, AgentP!Last
<1>2. AgentP!CallerInv(r)'
    BY <1>1 DEF AgentInv, AgentP!CallerInv
<1>3. AgentP!SenderInv(r)'
    BY <1>1 DEF AgentInv, AgentP!SenderInv, AgentP!MayFollow
<1>4. WireInv(r)'
    BY <1>1 DEF AgentInv, WireInv
<1>5. ChunkInv(r)'
    BY <1>1 DEF AgentInv, ChunkInv, InHand
<1> QED
    BY <1>2, <1>3, <1>4, <1>5 DEF AgentInv

\* The agent stands still.
LEMMA AgentRests ==
    ASSUME AgentP!IInv, UNCHANGED agentVars
    PROVE  /\ AgentP!IInv'
           /\ \A r \in Request : AgentInv(r) => AgentInv(r)'
<1> USE DEF agentVars
<1>1. UNCHANGED AgentP!vars
    BY DEF AgentP!vars, AgentP!callVars, AgentP!echoVars, AgentP!senderVars, AgentP!wireVars
<1>2. AgentP!IInv'
    BY <1>1, AgentP!StepInvariant, KnownAssumption, ChunkAssumption
<1>3. \A r \in Request : AgentInv(r) => AgentInv(r)'
    BY SameAgentInv
<1> QED
    BY <1>2, <1>3

\* A step of the agent while the controller stands still.
LEMMA AgentStep ==
    ASSUME IInv, NEW r \in Request, link = "up", AgentMoves(r),
           inbox' \in Seq(Request), UNCHANGED <<controllerVars, read>>
    PROVE  IInv'
<1>1. AgentP!TypeOK /\ AgentP!Holding /\ \A q \in Request : AgentInv(q)
    BY DEF IInv, AgentP!IInv
<1>2. /\ AgentP!IInv' /\ UNCHANGED <<process, link, ctx>>
      /\ \A q \in Request : AgentInv(q)'
    BY <1>1, AgentKeeps DEF IInv
<1>3. \A q \in Request : ReadInv(q)' /\ EchoedInv(q)'
    BY <1>1, AgentLeaves DEF IInv
<1>4. ControllerP!IInv'
    BY ControllerStays DEF IInv
<1>5. Alive' /\ FlushInv' /\ read' \in [Request -> Nat]
    BY <1>2 DEF IInv, Alive, FlushInv, controllerVars
<1> QED
    BY <1>2, <1>3, <1>4, <1>5 DEF IInv

LEMMA StepInvariant == IInv /\ [Next]_vars => IInv'
<1> SUFFICES ASSUME IInv, [Next]_vars PROVE IInv'
    OBVIOUS
<1>0. /\ Alive /\ FlushInv /\ inbox \in Seq(Request) /\ read \in [Request -> Nat]
      /\ AgentP!IInv /\ ControllerP!IInv
      /\ \A r \in Request : AgentInv(r) /\ ReadInv(r) /\ EchoedInv(r)
    BY DEF IInv
<1>1. ASSUME UNCHANGED agentVars, ControllerP!IInv', FlushInv',
             conn'[session] \in {"none", "up"} <=> conn[session] \in {"none", "up"},
             inbox' \in Seq(Request), read' \in [Request -> Nat],
             \A r \in Request : ReadInv(r)' /\ EchoedInv(r)'
      PROVE  IInv'
    <2>1. AgentP!IInv' /\ \A r \in Request : AgentInv(r)'
        BY <1>0, <1>1, AgentRests
    <2>2. Alive'
        BY <1>0, <1>1 DEF Alive, agentVars
    <2> QED
        BY <1>1, <2>1, <2>2 DEF IInv
<1>2. CASE LinkBreaks
    <2>1. AgentP!LinkBreaks /\ ControllerP!AgentLost(session) /\ UNCHANGED <<inbox, read>>
        BY <1>2, SameAgent, SameController DEF LinkBreaks
    <2>2. /\ link' = "down"
          /\ UNCHANGED <<process, ctx, loop, caller, err, buf, headersSent, closed, sender,
                         held, wire, chunks>>
        BY <2>1 DEF AgentP!LinkBreaks, AgentP!callVars, AgentP!echoVars, AgentP!senderVars,
            AgentP!wireVars
    <2>3. /\ conn'[session] = "lost"
          /\ UNCHANGED <<agents, wfr, cur, targets, lock, streams, http, route, client, asked,
                         flow, events, state, accepted, heads, body>>
        BY <1>0, <2>1 DEF ControllerP!AgentLost, ControllerP!managerVars,
            ControllerP!requestVars, ControllerP!flowVars, ControllerP!echoVars,
            ControllerP!IInv, ControllerP!TypeOK
    <2>4. AgentP!IInv'
        BY <1>0, <2>1, AgentP!StepInvariant, KnownAssumption, ChunkAssumption
            DEF AgentP!Next, Alive
    <2>5. ControllerP!IInv'
        BY <1>0, <2>1, ControllerStays DEF ControllerP!Next, ControllerP!SessionStep
    <2>6. Alive' /\ FlushInv'
        BY <1>0, <2>2, <2>3 DEF Alive, FlushInv
    <2>7. ASSUME NEW r \in Request
          PROVE  AgentInv(r)' /\ ReadInv(r)' /\ EchoedInv(r)'
        <3>1. AgentInv(r)'
            BY <1>0, <2>2, SameAgentInv
        <3>2. ReadInv(r)' /\ EchoedInv(r)'
            BY <1>0, <2>1, <2>2, <2>3, OtherRequest
        <3> QED
            BY <3>1, <3>2
    <2> QED
        BY <1>0, <2>1, <2>4, <2>5, <2>6, <2>7 DEF IInv
<1>3. CASE SendRequest
    <2>1. /\ ControllerP!SendRequest(session) /\ UNCHANGED <<agentVars, read>>
          /\ inbox' = IF conn[session] = "up" THEN Append(inbox, cur[session]) ELSE inbox
        BY <1>3, SameController DEF SendRequest
    <2>2. /\ wfr[session] = "send" /\ wfr'[session] = "select"
          /\ UNCHANGED <<conn, http, flow, events, state, accepted, heads, body>>
        BY <1>0, <2>1 DEF ControllerP!SendRequest, ControllerP!Goes, ControllerP!flowVars,
            ControllerP!echoVars, ControllerP!IInv, ControllerP!TypeOK
    <2>3. inbox' \in Seq(Request)
        <3>1. cur[session] \in Request
            BY <1>0, <2>2 DEF ControllerP!IInv, ControllerP!HandlerInv
        <3> QED
            BY <1>0, <2>1, <3>1
    <2>4. ControllerP!IInv'
        BY <1>0, <2>1, ControllerStays DEF ControllerP!Next, ControllerP!SessionStep
    <2>5. FlushInv'
        BY <1>0, <2>2 DEF FlushInv
    <2>6. \A r \in Request : ReadInv(r)' /\ EchoedInv(r)'
        BY <1>0, <2>1, <2>2, OtherRequest DEF agentVars
    <2> QED
        BY <1>0, <1>1, <2>1, <2>2, <2>3, <2>4, <2>5, <2>6
<1>4. CASE LoopReceives
    <2>1. /\ inbox # <<>> /\ AgentP!LoopReceives(Head(inbox)) /\ inbox' = Tail(inbox)
          /\ UNCHANGED <<controllerVars, read>>
        BY <1>4, SameAgent DEF LoopReceives
    <2>2. Head(inbox) \in Request /\ inbox' \in Seq(Request)
        BY <1>0, <2>1
    <2>3. link = "up"
        BY <2>1 DEF AgentP!LoopReceives
    <2> QED
        BY <2>1, <2>2, <2>3, AgentStep DEF AgentMoves
<1>5. ASSUME NEW r \in Request, SenderStep(r) \/ CallerStep(r)
      PROVE  IInv'
    <2>1. link = "up" /\ AgentMoves(r) /\ UNCHANGED <<controllerVars, inbox, read>>
        BY <1>5, SameAgent DEF SenderStep, CallerStep, AgentMoves
    <2> QED
        BY <1>0, <2>1, AgentStep
<1>6. ASSUME NEW r \in Request, AgentOpens(r)
      PROVE  IInv'
    <2>1. ControllerP!AgentOpens(r) /\ UNCHANGED <<agentVars, inbox, read>>
        BY <1>6, SameController DEF AgentOpens
    <2>2. ControllerP!IInv'
        BY <1>0, <2>1, ControllerStays DEF ControllerP!Next, ControllerP!FlowStep
    <2>3. /\ FlushInv' /\ conn' = conn
          /\ \A q \in Request : ReadInv(q)' /\ EchoedInv(q)'
        BY <1>0, <2>1, RequestKeeps DEF agentVars
    <2> QED
        BY <1>0, <1>1, <2>1, <2>2, <2>3
<1>7. ASSUME NEW r \in Request, Recv(r)
      PROVE  IInv'
    <2> DEFINE e == wire[r][read[r] + 1]
    <2>1. /\ read[r] < Len(wire[r]) /\ Receive(r, e)
          /\ read' = [read EXCEPT ![r] = @ + 1] /\ UNCHANGED <<agentVars, inbox>>
        <3>1. \/ e = "headers" /\ Controller!RecvHeaders(r)
              \/ e = "data" /\ Controller!RecvData(r)
              \/ e = "done" /\ Controller!RecvDone(r)
              \/ e = "cancel" /\ Controller!RecvCancel(r)
              \/ e = "eof" /\ Controller!RecvEOF(r)
            <4>1. e \in {"headers", "data", "done", "cancel", "eof"}
                BY <1>0, <1>7 DEF Recv, AgentP!IInv, AgentP!TypeOK, AgentP!Kinds, ReadInv
            <4> QED
                BY <1>7, <4>1 DEF Recv
        <3> QED
            BY <1>7, <3>1, SameController DEF Recv, Receive
    <2>2. ControllerP!IInv'
        BY <1>0, <2>1, ControllerStays DEF ControllerP!Next, ControllerP!FlowStep, Receive
    <2>3. /\ FlushInv' /\ conn' = conn
          /\ \A q \in Request : ReadInv(q)' /\ EchoedInv(q)'
        BY <1>0, <2>1, RecvKeeps DEF agentVars, AgentInv, AgentP!IInv
    <2>4. read' \in [Request -> Nat]
        BY <1>0, <2>1
    <2> QED
        BY <1>0, <1>1, <2>1, <2>2, <2>3, <2>4
<1>8. CASE ControllerStep
    <2>1. UNCHANGED <<agentVars, inbox, read>>
        BY <1>8 DEF ControllerStep
    <2>2. CASE Controller!SessionOwnStep(session)
        <3>1. ControllerP!SessionOwnStep(session)
            BY <2>2, SameController
        <3>2. ControllerP!IInv'
            BY <1>0, <3>1, ControllerStays DEF ControllerP!Next, ControllerP!SessionStep
        <3>3. UNCHANGED <<wire, buf, read>>
            BY <2>1 DEF agentVars
        <3>4. /\ FlushInv'
              /\ conn'[session] \in {"none", "up"} <=> conn[session] \in {"none", "up"}
              /\ \A r \in Request : ReadInv(r)' /\ EchoedInv(r)'
            BY <1>0, <3>1, <3>3, SessionKeeps
        <3>5. inbox' \in Seq(Request) /\ read' \in [Request -> Nat]
            BY <1>0, <2>1
        <3> QED
            BY <1>1, <2>1, <3>2, <3>4, <3>5
    <2>3. ASSUME NEW r \in Request, Controller!RequestStep(r)
          PROVE  IInv'
        <3>1. ControllerP!RequestStep(r)
            BY <2>3, SameController
        <3>2. ControllerP!IInv'
            BY <1>0, <3>1, ControllerStays DEF ControllerP!Next
        <3> QED
            BY <1>0, <1>1, <2>1, <3>1, <3>2, RequestKeeps DEF agentVars
    <2>4. ASSUME NEW r \in Request, Controller!FlowOwnStep(r) \/ Controller!EchoStep(r)
          PROVE  IInv'
        <3>1. ControllerP!FlowOwnStep(r) \/ ControllerP!EchoStep(r)
            BY <2>4, SameController
        <3>2. ControllerP!IInv'
            BY <1>0, <3>1, ControllerStays DEF ControllerP!Next, ControllerP!FlowStep
        <3> QED
            BY <1>0, <1>1, <2>1, <3>1, <3>2, FlowKeeps DEF agentVars
    <2> QED
        BY <1>8, <2>2, <2>3, <2>4 DEF ControllerStep
<1>9. CASE UNCHANGED vars
    <2>1. UNCHANGED <<agentVars, controllerVars, inbox, read>>
        BY <1>9 DEF vars
    <2>2. ControllerP!IInv'
        BY <1>0, <2>1, ControllerStays
    <2>3. /\ FlushInv' /\ conn' = conn
          /\ \A r \in Request : ReadInv(r)' /\ EchoedInv(r)'
        BY <1>0, <2>1, OtherRequest DEF FlushInv, agentVars, controllerVars
    <2> QED
        BY <1>0, <1>1, <2>1, <2>2, <2>3
<1> QED
    BY <1>2, <1>3, <1>4, <1>5, <1>6, <1>7, <1>8, <1>9 DEF Next

\* Whatever the two processes, the connection and the clients do, in any order.
THEOREM Invariance == Spec => []IInv
BY InitInvariant, StepInvariant, PTL DEF Spec

-----------------------------------------------------------------------------
(* What follows from it. *)

\* The variables of both sides, and of what is between them, keep their types.
THEOREM TypeCorrect == Spec => []TypeOK
<1>1. IInv => TypeOK
    BY DEF IInv, TypeOK, AgentP!IInv, ControllerP!IInv, Agent!TypeOK, AgentP!TypeOK,
        Agent!CallerStates, AgentP!CallerStates, Agent!Sending, AgentP!Sending, Agent!Message,
        AgentP!Message, Agent!Kinds, AgentP!Kinds, Agent!Reads, AgentP!Reads,
        Controller!DataEvents, ControllerP!DataEvents, Controller!TypeOK, ControllerP!TypeOK,
        Controller!WFRStates, ControllerP!WFRStates, Controller!Locked, ControllerP!Locked,
        Controller!Refused, ControllerP!Refused, Controller!HTTPStates,
        ControllerP!HTTPStates, Controller!EndStates, ControllerP!EndStates,
        Controller!FlowStates, ControllerP!FlowStates
<1> QED
    BY <1>1, Invariance, PTL

\* A Done is said with nothing of the body in hand.
LEMMA DoneIsAll ==
    ASSUME NEW r \in Request, AgentP!CallerInv(r), AgentP!SenderInv(r), WireInv(r), ChunkInv(r),
           HasDone(r), chunks[r] \in Seq(SUBSET AgentP!Reads)
    PROVE  Len(chunks[r]) = buf[r]
<1>1. AgentP!Last(r) \in {"done", "eof"}
    BY DEF WireInv, HasDone
<1>2. held[r] # "data" /\ caller[r] \notin {"fill", "data"}
    BY <1>1 DEF AgentP!CallerInv, AgentP!SenderInv, AgentP!Said, AgentP!MayFollow
<1> QED
    BY <1>2 DEF ChunkInv, InHand

LEMMA CompleteAgain == IInv => CompleteIsComplete
<1> SUFFICES ASSUME IInv, NEW r \in Request, http[r] = "done"
             PROVE  heads[r] = 1 /\ Shown(r) = chunks[r] /\ Len(chunks[r]) = buf[r]
    BY DEF CompleteIsComplete
<1>1. heads[r] = 1 /\ AllAfterHead(body[r], buf[r] + 1) /\ HasDone(r) /\ AgentInv(r)
    BY DEF IInv, EchoedInv
<1>2. /\ chunks[r] \in Seq(SUBSET AgentP!Reads)
      /\ body[r] \in Seq(1..(MaxChunks + 1)) /\ buf[r] \in 0..MaxChunks
    BY DEF IInv, AgentP!IInv, AgentP!TypeOK, AgentP!Reads, ControllerP!IInv,
        ControllerP!TypeOK, ControllerP!DataEvents
<1>3. Len(chunks[r]) = buf[r]
    BY <1>1, <1>2, DoneIsAll DEF AgentInv
<1>4. /\ Len(body[r]) + 1 = Len(chunks[r]) + 1
      /\ \A i \in 1..Len(body[r]) : body[r][i] = i + 1
    BY <1>1, <1>3 DEF AllAfterHead
<1>5. /\ DOMAIN body[r] = 1..Len(chunks[r])
      /\ \A i \in 1..Len(chunks[r]) : body[r][i] - 1 = i
    BY <1>2, <1>4
<1>6. Shown(r) = [i \in 1..Len(chunks[r]) |-> chunks[r][i]]
    BY <1>5 DEF Shown
<1> QED
    BY <1>1, <1>2, <1>3, <1>6

\* A response that ends with the agent's Done has every data message of the agent, each
\* once and in order, and one for every read that put data into the buffer.
THEOREM ResponsesAreComplete == Spec => []CompleteIsComplete
BY CompleteAgain, Invariance, PTL

\* Only a request whose agent has been lost ends as canceled.
THEOREM CancelsAreLosses == Spec => []CanceledMeansLost
<1>1. IInv => CanceledMeansLost
    BY DEF IInv, Alive, FlushInv, CanceledMeansLost, AgentP!IInv, AgentP!TypeOK
<1> QED
    BY <1>1, Invariance, PTL

-----------------------------------------------------------------------------
(* The agent is the environment that TunnelController calls orderly. *)

LEMMA SameOrderly ==
    /\ Controller!Init => OrderlyController!Init
    /\ Controller!AgentLost(session) \/ Controller!SendRequest(session)
         \/ Controller!SessionOwnStep(session) => OrderlyController!SessionStep(session)
    /\ \A r \in Request :
        /\ Controller!RequestStep(r) => OrderlyController!RequestStep(r)
        /\ Controller!EchoStep(r) => OrderlyController!EchoStep(r)
        /\ Controller!AgentOpens(r) \/ Controller!FlowOwnStep(r) => OrderlyController!FlowStep(r)
        /\ events[r] = 0 /\ Controller!RecvHeaders(r) => OrderlyController!FlowStep(r)
        /\ events[r] > 0 /\ Controller!RecvData(r) => OrderlyController!FlowStep(r)
        /\ events[r] > 0 /\ Controller!RecvDone(r) => OrderlyController!FlowStep(r)
BY DEF
    Controller!sessionVars, OrderlyController!sessionVars, Controller!managerVars,
    OrderlyController!managerVars, Controller!requestVars, OrderlyController!requestVars,
    Controller!flowVars, OrderlyController!flowVars, Controller!echoVars,
    OrderlyController!echoVars, Controller!vars, OrderlyController!vars,
    Controller!Refused, OrderlyController!Refused, Controller!EndStates,
    OrderlyController!EndStates, Controller!Locked, OrderlyController!Locked,
    Controller!Init, OrderlyController!Init, Controller!Hello, OrderlyController!Hello,
    Controller!AgentLost, OrderlyController!AgentLost, Controller!ConnectionCloses,
    OrderlyController!ConnectionCloses, Controller!Expire, OrderlyController!Expire,
    Controller!FindSession, OrderlyController!FindSession, Controller!Refuse,
    OrderlyController!Refuse, Controller!NoSuchAgent, OrderlyController!NoSuchAgent,
    Controller!BadRequest, OrderlyController!BadRequest, Controller!OfferRequest,
    OrderlyController!OfferRequest, Controller!ClientLeaves,
    OrderlyController!ClientLeaves, Controller!Goes, OrderlyController!Goes,
    Controller!WaitForRequest, OrderlyController!WaitForRequest, Controller!TakeRequest,
    OrderlyController!TakeRequest, Controller!Register, OrderlyController!Register,
    Controller!SendRequest, OrderlyController!SendRequest, Controller!SendFails,
    OrderlyController!SendFails, Controller!ContextDone, OrderlyController!ContextDone,
    Controller!RemoveSession, OrderlyController!RemoveSession, Controller!FlushLock,
    OrderlyController!FlushLock, Controller!FlushNext, OrderlyController!FlushNext,
    Controller!CancelStream, OrderlyController!CancelStream, Controller!FlushDelete,
    OrderlyController!FlushDelete, Controller!FlushUnlock, OrderlyController!FlushUnlock,
    Controller!AgentOpens, OrderlyController!AgentOpens, Controller!LookupStream,
    OrderlyController!LookupStream, Controller!Receives, OrderlyController!Receives,
    Controller!RecvHeaders, OrderlyController!RecvHeaders, Controller!RecvData,
    OrderlyController!RecvData, Controller!RecvDone, OrderlyController!RecvDone,
    Controller!RecvCancel, OrderlyController!RecvCancel, Controller!Fails,
    OrderlyController!Fails, Controller!RecvEOF, OrderlyController!RecvEOF,
    Controller!RecvCanceled, OrderlyController!RecvCanceled, Controller!RecvError,
    OrderlyController!RecvError, Controller!UnregisterStream,
    OrderlyController!UnregisterStream, Controller!Meets, OrderlyController!Meets,
    Controller!Returns, OrderlyController!Returns, Controller!EchoHeaders,
    OrderlyController!EchoHeaders, Controller!EchoData, OrderlyController!EchoData,
    Controller!EchoWriteFails, OrderlyController!EchoWriteFails, Controller!EchoDone,
    OrderlyController!EchoDone, Controller!EchoCanceled, OrderlyController!EchoCanceled,
    Controller!EchoFailed, OrderlyController!EchoFailed, Controller!EchoClientGone,
    OrderlyController!EchoClientGone, Controller!SessionOwnStep,
    OrderlyController!SessionOwnStep, Controller!SessionStep,
    OrderlyController!SessionStep, Controller!RequestStep, OrderlyController!RequestStep,
    Controller!FlowOwnStep, OrderlyController!FlowOwnStep, Controller!FlowStep,
    OrderlyController!FlowStep, Controller!EchoStep, OrderlyController!EchoStep,
    Controller!Next, OrderlyController!Next

\* A message the controller receives is one an orderly agent may have sent.
LEMMA RecvIsOrderly ==
    ASSUME IInv, NEW r \in Request, Recv(r)
    PROVE  OrderlyController!FlowStep(r)
<1> DEFINE e == wire[r][read[r] + 1]
<1>1. /\ AgentP!TypeOK /\ WireInv(r) /\ ChunkInv(r) /\ ReadInv(r)
      /\ read[r] < Len(wire[r])
    BY DEF IInv, AgentP!IInv, AgentInv, Recv
<1>2. e \in {"headers", "data", "done", "cancel", "eof"}
    BY <1>1 DEF AgentP!TypeOK, AgentP!Kinds, ReadInv
<1>3. \/ e = "headers" /\ Controller!RecvHeaders(r)
      \/ e = "data" /\ Controller!RecvData(r)
      \/ e = "done" /\ Controller!RecvDone(r)
      \/ e = "cancel" /\ Controller!RecvCancel(r)
      \/ e = "eof" /\ Controller!RecvEOF(r)
    BY <1>2 DEF Recv
<1>4. Receive(r, e)
    BY <1>3, SameController DEF Receive
<1>5. /\ e \notin {"cancel", "eof"} /\ events[r] \in Nat
      /\ e = "headers" => events[r] = 0
      /\ e # "headers" => events[r] > 0
    BY <1>1, <1>4, Received
<1> QED
    BY <1>3, <1>5, SameOrderly

\* With this agent at its other end, the controller is the one its own theorems
\* and runs assume: headers first and once, then data, an end, and no EOF before.
THEOREM TheAgentIsOrderly == Spec => AgentIsOrderly
<1>1. Init => OrderlyController!Init
    BY SameOrderly DEF Init
<1>2. IInv /\ [Next]_vars => [OrderlyController!Next]_(OrderlyController!vars)
    <2> SUFFICES ASSUME IInv, [Next]_vars
                 PROVE  OrderlyController!Next \/ UNCHANGED controllerVars
        BY DEF controllerVars, OrderlyController!vars, OrderlyController!sessionVars,
            OrderlyController!managerVars, OrderlyController!requestVars,
            OrderlyController!flowVars, OrderlyController!echoVars
    <2>1. CASE LinkBreaks \/ SendRequest
        BY <2>1, SameOrderly DEF LinkBreaks, SendRequest, OrderlyController!Next
    <2>2. CASE LoopReceives \/ (\E r \in Request : SenderStep(r) \/ CallerStep(r))
                 \/ UNCHANGED vars
        BY <2>2 DEF LoopReceives, SenderStep, CallerStep, vars
    <2>3. ASSUME NEW r \in Request, AgentOpens(r) \/ Recv(r)
          PROVE  OrderlyController!Next
        BY <2>3, SameOrderly, RecvIsOrderly DEF AgentOpens, OrderlyController!Next
    <2>4. CASE ControllerStep
        BY <2>4, SameOrderly DEF ControllerStep, OrderlyController!Next
    <2> QED
        BY <2>1, <2>2, <2>3, <2>4 DEF Next
<1> QED
    BY <1>1, <1>2, Invariance, PTL DEF Spec, AgentIsOrderly, OrderlyController!Spec

-----------------------------------------------------------------------------
(* The client sees what the agent has sent: the contract of HTTPResponse,   *)
(* with the data messages the sender has marshalled for what has been said. *)

\* Headers and data messages come first on a stream, and the client has been written
\* data messages that have been sent, from the first on.
SaidInv(r) ==
    /\ \A i \in DOMAIN wire[r] : wire[r][i] \in {"headers", "data"} => i <= Len(chunks[r]) + 1
    /\ Len(body[r]) <= Len(chunks[r])
    /\ \A i \in 1..Len(body[r]) : body[r][i] = i + 1

SaidTypes ==
    /\ read \in [Request -> Nat]
    /\ chunks \in [Request -> Seq(SUBSET AgentP!Reads)]
    /\ wire \in [Request -> Seq(AgentP!Kinds \cup {"eof"})]
    /\ body \in [Request -> Seq(1..(MaxChunks + 1))]

LEMMA SaidTypesHold == IInv => SaidTypes
BY DEF SaidTypes, IInv, AgentP!IInv, AgentP!TypeOK, ControllerP!IInv, ControllerP!TypeOK,
    ControllerP!DataEvents

\* What the client has been shown is a beginning of what was sent.
LEMMA ShownIs ==
    ASSUME SaidTypes, NEW r \in Request, SaidInv(r)
    PROVE  /\ Shown(r) = [i \in 1..Len(body[r]) |-> chunks[r][i]]
           /\ Shown(r) \in Seq(SUBSET AgentP!Reads) /\ Len(Shown(r)) = Len(body[r])
<1>1. /\ Len(body[r]) \in Nat /\ Len(chunks[r]) \in Nat /\ DOMAIN body[r] = 1..Len(body[r])
      /\ Len(body[r]) <= Len(chunks[r])
      /\ \A i \in 1..Len(body[r]) : body[r][i] - 1 = i
      /\ \A i \in 1..Len(chunks[r]) : chunks[r][i] \in SUBSET AgentP!Reads
    BY DEF SaidTypes, SaidInv
<1>2. Shown(r) = [i \in 1..Len(body[r]) |-> chunks[r][i]]
    BY <1>1 DEF Shown
<1>3. \A i \in 1..Len(body[r]) : chunks[r][i] \in SUBSET AgentP!Reads
    BY <1>1
<1> QED
    BY <1>1, <1>2, <1>3

\* What the steps of the agent do to what has been sent.
LEMMA AgentSays ==
    ASSUME AgentP!TypeOK, AgentP!Holding, NEW r \in Request, AgentMoves(r)
    PROVE  \/ UNCHANGED <<wire, chunks>>
           \/ AgentP!SenderSends(r) /\ held[r] \in AgentP!Kinds
              /\ wire' = [wire EXCEPT ![r] = Append(@, held[r])]
              /\ IF held[r] = "data"
                   THEN \E c \in SUBSET AgentP!Reads :
                            chunks' = [chunks EXCEPT ![r] = Append(@, c)]
                   ELSE chunks' = chunks
           \/ wire' = [wire EXCEPT ![r] = Append(@, "eof")] /\ chunks' = chunks
<1>1. CASE AgentP!SenderSends(r)
    <2>1. held[r] \in AgentP!Kinds /\ slice[r] \in SUBSET AgentP!Reads
        BY <1>1 DEF AgentP!SenderSends, AgentP!Holding, AgentP!TypeOK
    <2>2. AgentP!Bytes(r) \subseteq SUBSET AgentP!Reads
        BY <2>1 DEF AgentP!Bytes
    <2> QED
        BY <1>1, <2>1, <2>2 DEF AgentP!SenderSends
<1>2. CASE AgentP!SenderCloses(r)
    BY <1>2 DEF AgentP!SenderCloses
<1>3. CASE ~(AgentP!SenderSends(r) \/ AgentP!SenderCloses(r))
    BY <1>3 DEF AgentMoves, AgentP!LoopReceives, AgentP!CallerStep, AgentP!SenderStep,
        AgentP!SenderOwnStep, AgentP!callVars, AgentP!echoVars, AgentP!senderVars,
        AgentP!wireVars, AgentP!DoFails, AgentP!DoReturns, AgentP!CheckContext,
        AgentP!BodyFills, AgentP!ReadsData, AgentP!ReadsNothing, AgentP!ReadsOn,
        AgentP!ReadEnds, AgentP!ReadFails, AgentP!Shutdown, AgentP!Ends, AgentP!DataPanics,
        AgentP!FailPanics, AgentP!Panics, AgentP!SenderOpens, AgentP!SenderFails,
        AgentP!SenderDrops, AgentP!SenderReturns, AgentP!Hand, AgentP!HandHeaders,
        AgentP!HandData, AgentP!HandDone, AgentP!HandCancel, AgentP!HandFailure,
        AgentP!HandShutdown
<1> QED
    BY <1>1, <1>2, <1>3

\* A headers message is the first of its stream, a data message comes after others of
\* its kind and the headers.
LEMMA SentInPlace ==
    ASSUME SaidTypes, NEW r \in Request, AgentInv(r), AgentP!Holding, AgentP!SenderSends(r)
    PROVE  /\ held[r] = "headers" => Len(wire[r]) = 0
           /\ held[r] = "data" => Len(wire[r]) = Len(chunks[r]) + 1
<1>1. AgentP!MayFollow(held[r], AgentP!Last(r))
    BY DEF AgentInv, AgentP!SenderInv, AgentP!SenderSends, AgentP!Holding
<1>2. ASSUME held[r] = "headers" PROVE Len(wire[r]) = 0
    <2>1. AgentP!Last(r) = "none"
        BY <1>1, <1>2 DEF AgentP!MayFollow
    <2>2. wire[r] \in Seq({"headers", "data", "done", "cancel", "eof"})
        BY DEF SaidTypes, AgentP!Kinds
    <2>3. wire[r] = <<>> \/ wire[r][Len(wire[r])] # "none"
        BY <2>2
    <2> QED
        BY <2>1, <2>3 DEF AgentP!Last
<1>3. ASSUME held[r] = "data" PROVE Len(wire[r]) = Len(chunks[r]) + 1
    BY <1>1, <1>3 DEF AgentP!MayFollow, AgentInv, ChunkInv
<1> QED
    BY <1>2, <1>3

\* A step of the agent only sends more.
LEMMA AgentSaid ==
    ASSUME IInv, NEW r \in Request, AgentMoves(r), UNCHANGED controllerVars,
           \A q \in Request : SaidInv(q)
    PROVE  \A q \in Request : SaidInv(q)'
<1>0. /\ AgentP!TypeOK /\ AgentP!Holding /\ AgentInv(r) /\ SaidTypes /\ UNCHANGED body
    BY SaidTypesHold DEF IInv, AgentP!IInv, controllerVars
<1>1. CASE UNCHANGED <<wire, chunks>>
    BY <1>0, <1>1 DEF SaidInv
<1>2. ASSUME NEW k \in AgentP!Kinds \cup {"eof"},
             wire' = [wire EXCEPT ![r] = Append(@, k)],
             \A q \in Request : q # r => chunks'[q] = chunks[q],
             Len(chunks'[r]) \in Nat, Len(chunks[r]) <= Len(chunks'[r]),
             k \in {"headers", "data"} => Len(wire[r]) <= Len(chunks'[r])
      PROVE  \A q \in Request : SaidInv(q)'
    <2>1. /\ Len(wire[r]) \in Nat /\ DOMAIN wire[r] = 1..Len(wire[r])
          /\ DOMAIN wire'[r] = 1..(Len(wire[r]) + 1)
          /\ wire'[r][Len(wire[r]) + 1] = k
          /\ \A i \in 1..Len(wire[r]) : wire'[r][i] = wire[r][i]
          /\ Len(chunks[r]) \in Nat /\ Len(body[r]) \in Nat
        BY <1>0, <1>2 DEF SaidTypes
    <2>2. ASSUME NEW i \in DOMAIN wire'[r], wire'[r][i] \in {"headers", "data"}
          PROVE  i <= Len(chunks'[r]) + 1
        <3>1. CASE i \in 1..Len(wire[r])
            <4>1. i <= Len(chunks[r]) + 1
                BY <2>1, <2>2, <3>1 DEF SaidInv
            <4> QED
                BY <1>2, <2>1, <3>1, <4>1
        <3>2. CASE i = Len(wire[r]) + 1
            BY <1>2, <2>1, <2>2, <3>2
        <3> QED
            BY <2>1, <3>1, <3>2
    <2>3. Len(body[r]) <= Len(chunks'[r]) /\ \A i \in 1..Len(body[r]) : body[r][i] = i + 1
        BY <1>2, <2>1 DEF SaidInv
    <2>4. SaidInv(r)'
        BY <1>0, <2>2, <2>3 DEF SaidInv
    <2>5. \A q \in Request : q # r => SaidInv(q)'
        BY <1>0, <1>2 DEF SaidInv, SaidTypes
    <2> QED
        BY <2>4, <2>5
<1>3. ASSUME AgentP!SenderSends(r), held[r] \in AgentP!Kinds,
             wire' = [wire EXCEPT ![r] = Append(@, held[r])],
             IF held[r] = "data"
               THEN \E c \in SUBSET AgentP!Reads : chunks' = [chunks EXCEPT ![r] = Append(@, c)]
               ELSE chunks' = chunks
      PROVE  \A q \in Request : SaidInv(q)'
    <2>1. /\ held[r] = "headers" => Len(wire[r]) = 0
          /\ held[r] = "data" => Len(wire[r]) = Len(chunks[r]) + 1
        BY <1>0, <1>3, SentInPlace
    <2>2. chunks[r] \in Seq(SUBSET AgentP!Reads) /\ Len(chunks[r]) \in Nat
        BY <1>0 DEF SaidTypes
    <2>3. CASE held[r] = "data"
        <3>1. PICK c \in SUBSET AgentP!Reads : chunks' = [chunks EXCEPT ![r] = Append(@, c)]
            BY <1>3, <2>3
        <3>2. /\ chunks'[r] = Append(chunks[r], c)
              /\ \A q \in Request : q # r => chunks'[q] = chunks[q]
            BY <1>0, <3>1 DEF SaidTypes
        <3>3. Len(chunks'[r]) = Len(chunks[r]) + 1
            BY <2>2, <3>2
        <3>4. Len(chunks'[r]) \in Nat /\ Len(chunks[r]) <= Len(chunks'[r])
            BY <2>2, <3>3
        <3>5. Len(wire[r]) <= Len(chunks'[r])
            BY <2>1, <2>3, <3>3, <3>4
        <3> QED
            BY <1>2, <1>3, <3>2, <3>4, <3>5
    <2>4. CASE held[r] # "data"
        <3>1. Len(chunks[r]) <= Len(chunks[r]) /\ 0 <= Len(chunks[r])
            BY <2>2
        <3>2. chunks' = chunks
            BY <1>3, <2>4
        <3>3. held[r] \in {"headers", "data"} => Len(wire[r]) <= Len(chunks'[r])
            BY <2>1, <2>4, <3>1, <3>2
        <3>4. Len(chunks'[r]) \in Nat /\ Len(chunks[r]) <= Len(chunks'[r])
            BY <2>2, <3>1, <3>2
        <3> QED
            BY <1>2, <1>3, <3>2, <3>3, <3>4
    <2> QED
        BY <2>3, <2>4
<1>4. ASSUME wire' = [wire EXCEPT ![r] = Append(@, "eof")], chunks' = chunks
      PROVE  \A q \in Request : SaidInv(q)'
    <2>1. Len(chunks[r]) \in Nat
        BY <1>0 DEF SaidTypes
    <2>2. Len(chunks[r]) <= Len(chunks[r])
        BY <2>1
    <2> QED
        BY <1>2, <1>4, <2>1, <2>2
<1> QED
    BY <1>0, <1>1, <1>3, <1>4, AgentSays

\* What Recv is a step of.
LEMMA RecvReceives ==
    ASSUME IInv, NEW r \in Request, Recv(r)
    PROVE  /\ read[r] < Len(wire[r]) /\ Receive(r, wire[r][read[r] + 1])
           /\ read' = [read EXCEPT ![r] = @ + 1] /\ UNCHANGED <<agentVars, inbox>>
<1> DEFINE e == wire[r][read[r] + 1]
<1>1. e \in {"headers", "data", "done", "cancel", "eof"}
    BY DEF Recv, IInv, AgentP!IInv, AgentP!TypeOK, AgentP!Kinds, ReadInv
<1>2. \/ e = "headers" /\ Controller!RecvHeaders(r)
      \/ e = "data" /\ Controller!RecvData(r)
      \/ e = "done" /\ Controller!RecvDone(r)
      \/ e = "cancel" /\ Controller!RecvCancel(r)
      \/ e = "eof" /\ Controller!RecvEOF(r)
    BY <1>1 DEF Recv
<1> QED
    BY <1>2, SameController DEF Recv, Receive

\* Of what the controller does, only runEcho's write of a data event shows the client more.
LEMMA OnlyEchoWrites ==
    ASSUME IInv,
           \/ SendRequest \/ LinkBreaks \/ ControllerStep
           \/ \E r \in Request : AgentOpens(r) \/ Recv(r)
    PROVE  /\ UNCHANGED <<wire, chunks>>
           /\ UNCHANGED body \/ \E r \in Request : ControllerP!EchoData(r)
<1> USE DEF ControllerP!sessionVars, ControllerP!managerVars, ControllerP!requestVars,
            ControllerP!flowVars, ControllerP!echoVars, agentVars
<1>1. CASE LinkBreaks
    <2>1. AgentP!LinkBreaks /\ ControllerP!AgentLost(session)
        BY <1>1, SameAgent, SameController DEF LinkBreaks
    <2> QED
        BY <2>1 DEF AgentP!LinkBreaks, AgentP!wireVars, ControllerP!AgentLost
<1>2. CASE SendRequest
    <2>1. ControllerP!SendRequest(session) /\ UNCHANGED <<wire, chunks>>
        BY <1>2, SameController DEF SendRequest
    <2> QED
        BY <2>1 DEF ControllerP!SendRequest
<1>3. ASSUME NEW r \in Request, AgentOpens(r)
      PROVE  UNCHANGED <<wire, chunks, body>>
    <2>1. ControllerP!AgentOpens(r) /\ UNCHANGED <<wire, chunks>>
        BY <1>3, SameController DEF AgentOpens
    <2> QED
        BY <2>1 DEF ControllerP!AgentOpens
<1>4. ASSUME NEW r \in Request, Recv(r)
      PROVE  UNCHANGED <<wire, chunks, body>>
    <2>1. Receive(r, wire[r][read[r] + 1]) /\ UNCHANGED <<wire, chunks>>
        BY <1>4, RecvReceives
    <2> QED
        BY <2>1 DEF Receive, ControllerP!RecvHeaders, ControllerP!RecvData,
            ControllerP!RecvDone, ControllerP!RecvCancel, ControllerP!RecvEOF,
            ControllerP!Fails
<1>5. CASE ControllerStep
    <2>1. UNCHANGED <<wire, chunks>>
        BY <1>5 DEF ControllerStep
    <2>2. ASSUME ControllerP!SessionOwnStep(session) PROVE UNCHANGED body
        BY <2>2 DEF ControllerP!SessionOwnStep, ControllerP!Hello,
            ControllerP!ConnectionCloses, ControllerP!Expire, ControllerP!WaitForRequest,
            ControllerP!TakeRequest, ControllerP!Register, ControllerP!SendFails,
            ControllerP!ContextDone, ControllerP!RemoveSession, ControllerP!FlushLock,
            ControllerP!FlushNext, ControllerP!CancelStream, ControllerP!FlushDelete,
            ControllerP!FlushUnlock
    <2>3. ASSUME NEW r \in Request, ControllerP!RequestStep(r) PROVE UNCHANGED body
        BY <2>3 DEF ControllerP!RequestStep, ControllerP!FindSession,
            ControllerP!NoSuchAgent, ControllerP!BadRequest, ControllerP!Refuse,
            ControllerP!OfferRequest, ControllerP!ClientLeaves
    <2>4. ASSUME NEW r \in Request, ControllerP!FlowOwnStep(r) \/ ControllerP!EchoStep(r)
          PROVE  UNCHANGED body \/ ControllerP!EchoData(r)
        BY <2>4 DEF ControllerP!FlowOwnStep, ControllerP!LookupStream,
            ControllerP!RecvCanceled, ControllerP!RecvError, ControllerP!Fails,
            ControllerP!UnregisterStream, ControllerP!EchoStep, ControllerP!EchoHeaders,
            ControllerP!EchoWriteFails, ControllerP!EchoDone, ControllerP!EchoCanceled,
            ControllerP!EchoFailed, ControllerP!EchoClientGone, ControllerP!Meets
    <2> QED
        BY <1>5, <2>1, <2>2, <2>3, <2>4, SameController DEF ControllerStep
<1> QED
    BY <1>1, <1>2, <1>3, <1>4, <1>5

\* What runEcho writes is the event its data flow has received last, and that is the
\* number of a data message.
LEMMA WriteSaid ==
    ASSUME IInv, NEW r \in Request, ControllerP!EchoData(r), UNCHANGED <<wire, chunks>>,
           \A q \in Request : SaidInv(q)
    PROVE  \A q \in Request : SaidInv(q)'
<1>1. /\ http[r] = "echo" /\ flow[r] = "data"
      /\ body' = [body EXCEPT ![r] = Append(@, events[r])]
    BY DEF ControllerP!EchoData, ControllerP!Meets
<1>2. SaidTypes /\ ReadInv(r) /\ EchoedInv(r) /\ ControllerP!EchoInv(r) /\ SaidInv(r)
    BY SaidTypesHold DEF IInv, ControllerP!IInv
<1>3. accepted[r] = Append(body[r], events[r]) /\ state[r] = "data"
    BY <1>1, <1>2 DEF ControllerP!EchoInv
<1>4. body'[r] = accepted[r] /\ \A q \in Request : q # r => body'[q] = body[q]
    BY <1>1, <1>2, <1>3 DEF SaidTypes
<1>5. read[r] # 0 /\ AllAfterHead(accepted[r], read[r])
    BY <1>1, <1>2, <1>3 DEF EchoedInv
<1>6. /\ read[r] \in DOMAIN wire[r] /\ wire[r][read[r]] \in {"headers", "data"}
      /\ read[r] \in Nat /\ Len(chunks[r]) \in Nat
    BY <1>1, <1>2, <1>5 DEF ReadInv, SaidTypes
<1>7. read[r] <= Len(chunks[r]) + 1
    BY <1>2, <1>6 DEF SaidInv
<1>8. accepted[r] \in ControllerP!DataEvents
    BY DEF IInv, ControllerP!IInv, ControllerP!TypeOK
<1>9. Len(body'[r]) <= Len(chunks[r]) /\ \A i \in 1..Len(body'[r]) : body'[r][i] = i + 1
    <2>1. Len(accepted[r]) \in Nat
        BY <1>8 DEF ControllerP!DataEvents
    <2> QED
        BY <1>4, <1>5, <1>6, <1>7, <2>1 DEF AllAfterHead
<1>10. SaidInv(r)'
    BY <1>2, <1>9 DEF SaidInv
<1>11. \A q \in Request : q # r => SaidInv(q)'
    BY <1>4 DEF SaidInv
<1> QED
    BY <1>10, <1>11

LEMMA InitSaid == Init => \A r \in Request : SaidInv(r)
<1> SUFFICES ASSUME Init, NEW r \in Request PROVE SaidInv(r)
    OBVIOUS
<1>1. AgentP!Init /\ ControllerP!Init
    BY SameAgent, SameController DEF Init
<1>2. wire[r] = <<>> /\ chunks[r] = <<>> /\ body[r] = <<>>
    BY <1>1 DEF AgentP!Init, ControllerP!Init
<1> QED
    BY <1>2 DEF SaidInv

LEMMA AgentSteps ==
    ASSUME IInv, LoopReceives \/ \E r \in Request : SenderStep(r) \/ CallerStep(r)
    PROVE  \E r \in Request : AgentMoves(r) /\ UNCHANGED <<controllerVars, read>>
<1>1. CASE LoopReceives
    <2>1. /\ inbox # <<>> /\ AgentP!LoopReceives(Head(inbox))
          /\ UNCHANGED <<controllerVars, read>>
        BY <1>1, SameAgent DEF LoopReceives
    <2>2. Head(inbox) \in Request
        BY <2>1 DEF IInv
    <2> QED
        BY <2>1, <2>2 DEF AgentMoves
<1>2. ASSUME NEW r \in Request, SenderStep(r) \/ CallerStep(r)
      PROVE  AgentMoves(r) /\ UNCHANGED <<controllerVars, read>>
    BY <1>2, SameAgent DEF SenderStep, CallerStep, AgentMoves
<1> QED
    BY <1>1, <1>2

\* The steps of Tunnel are those of the agent and those of the controller.
LEMMA StepSaid ==
    ASSUME IInv, [Next]_vars, \A q \in Request : SaidInv(q)
    PROVE  \A q \in Request : SaidInv(q)'
<1>1. CASE UNCHANGED <<wire, chunks, body>>
    BY <1>1 DEF SaidInv
<1>2. CASE \/ SendRequest \/ LinkBreaks \/ ControllerStep
           \/ \E r \in Request : AgentOpens(r) \/ Recv(r)
    BY <1>1, <1>2, OnlyEchoWrites, WriteSaid
<1>3. CASE LoopReceives \/ \E r \in Request : SenderStep(r) \/ CallerStep(r)
    BY <1>3, AgentSteps, AgentSaid
<1>4. CASE UNCHANGED vars
    BY <1>1, <1>4 DEF vars, agentVars, controllerVars
<1> QED
    BY <1>2, <1>3, <1>4 DEF Next

SaidAll == \A r \in Request : SaidInv(r)

LEMMA InitResponse == Init => Response!Init
<1> SUFFICES ASSUME Init PROVE Response!Init
    OBVIOUS
<1>1. AgentP!Init /\ ControllerP!Init
    BY SameAgent, SameController DEF Init
<1>2. ASSUME NEW r \in Request PROVE Shown(r) = <<>>
    <2>1. body[r] = <<>>
        BY <1>1 DEF ControllerP!Init
    <2>2. DOMAIN body[r] = {}
        BY <2>1
    <2>3. Shown(r) = [i \in {} |-> chunks[r][body[r][i] - 1]]
        BY <2>2 DEF Shown
    <2>4. <<>> = [i \in {} |-> chunks[r][body[r][i] - 1]]
        OBVIOUS
    <2> QED
        BY <2>3, <2>4
<1> QED
    BY <1>1, <1>2 DEF AgentP!Init, ControllerP!Init, Response!Init, Controller!Phase

\* A step of the controller's contract, while the agent sends nothing, is one of the
\* contract end to end.
LEMMA ContractCarries ==
    ASSUME IInv, SaidAll, SaidAll', SaidTypes', CompleteIsComplete', chunks' = chunks,
           [ControllerP!Response!Next]_(ControllerP!Response!vars)
    PROVE  [Response!Next]_(Response!vars)
<1> USE DEF Controller!Phase, ControllerP!Phase
<1>0. ASSUME UNCHANGED body
      PROVE  UNCHANGED [q \in Request |-> Shown(q)]
    BY <1>0 DEF Shown
<1>1. CASE UNCHANGED ControllerP!Response!vars
    BY <1>0, <1>1 DEF ControllerP!Response!vars, Response!vars
<1>2. ASSUME NEW r \in Request,
             \/ ControllerP!Response!Open(r) \/ ControllerP!Response!StatusLine(r)
             \/ ControllerP!Response!Cut(r)
      PROVE  Response!Next
    <2>1. ControllerP!Response!Open(r) => Response!Open(r)
        BY <1>0 DEF ControllerP!Response!Open, Response!Open
    <2>2. ControllerP!Response!StatusLine(r) => Response!StatusLine(r)
        BY <1>0 DEF ControllerP!Response!StatusLine, Response!StatusLine
    <2>3. ControllerP!Response!Cut(r) => Response!Cut(r)
        BY <1>0 DEF ControllerP!Response!Cut, Response!Cut
    <2> QED
        BY <1>2, <2>1, <2>2, <2>3 DEF Response!Next
<1>3. ASSUME NEW r \in Request, ControllerP!Response!Say(r)
      PROVE  UNCHANGED Response!vars
    BY <1>0, <1>3 DEF ControllerP!Response!Say, Response!vars
<1>4. ASSUME NEW r \in Request, ControllerP!Response!Chunk(r)
      PROVE  Response!Chunk(r)
    <2> DEFINE n == Len(body[r])
               b == [q \in Request |-> Shown(q)]
    <2>1. /\ SaidTypes /\ n \in Nat /\ Len(chunks[r]) \in Nat
          /\ chunks[r] \in Seq(SUBSET AgentP!Reads)
        <3>1. SaidTypes
            BY SaidTypesHold
        <3>2. body[r] \in Seq(1..(MaxChunks + 1)) /\ chunks[r] \in Seq(SUBSET AgentP!Reads)
            BY <3>1 DEF SaidTypes
        <3> QED
            BY <3>1, <3>2
    <2>2. /\ body' = [body EXCEPT ![r] = Append(@, accepted[r][Len(@) + 1])]
          /\ UNCHANGED heads /\ heads[r] = 1 /\ Controller!Phase(http[r]) = "open"
          /\ UNCHANGED [q \in Request |-> Controller!Phase(http[q])]
        BY <1>4 DEF ControllerP!Response!Chunk
    <2>3. /\ Len(body'[r]) = n + 1
          /\ \A q \in Request : q # r => body'[q] = body[q]
        BY <2>1, <2>2 DEF SaidTypes
    <2>4. n + 1 <= Len(chunks[r])
        BY <2>3 DEF SaidAll, SaidInv
    <2>5. Shown(r) = [i \in 1..n |-> chunks[r][i]] /\ Len(Shown(r)) = n
        BY <2>1, ShownIs DEF SaidAll
    <2>6. Shown(r)' = [i \in 1..(n + 1) |-> chunks[r][i]]
        <3>1. /\ DOMAIN body'[r] = 1..(n + 1)
              /\ \A i \in 1..(n + 1) : body'[r][i] = i + 1
            BY <2>1, <2>3 DEF SaidAll, SaidInv, SaidTypes
        <3>2. \A i \in 1..(n + 1) : body'[r][i] - 1 = i
            BY <2>1, <3>1
        <3> QED
            BY <3>1, <3>2 DEF Shown
    <2>7. Shown(r)' = Append(Shown(r), chunks[r][Len(Shown(r)) + 1])
        BY <2>1, <2>4, <2>5, <2>6
    <2>8. \A q \in Request : q # r => Shown(q)' = Shown(q)
        BY <2>3 DEF Shown
    <2>9. b' = [b EXCEPT ![r] = Append(@, chunks[r][Len(@) + 1])]
        BY <2>7, <2>8
    <2>10. Len(b[r]) < Len(chunks[r])
        BY <2>1, <2>4, <2>5
    <2> QED
        BY <2>2, <2>9, <2>10 DEF Response!Chunk
<1>5. ASSUME NEW r \in Request, ControllerP!Response!Complete(r)
      PROVE  Response!Complete(r)
    <2> DEFINE ph == [q \in Request |-> ControllerP!Phase(http[q])]
    <2>1. /\ ph[r] = "open" /\ heads[r] = 1 /\ ph' = [ph EXCEPT ![r] = "complete"]
          /\ UNCHANGED <<heads, body>>
        BY <1>5 DEF ControllerP!Response!Complete
    <2>2. ph'[r] = "complete" /\ ph'[r] = ControllerP!Phase(http'[r])
        BY <2>1
    <2>3. http'[r] = "done"
        BY <2>2
    <2>4. Shown(r)' = chunks'[r]
        BY <2>3 DEF CompleteIsComplete
    <2>5. Shown(r) = chunks[r]
        BY <2>1, <2>4 DEF Shown
    <2> QED
        BY <1>0, <2>1, <2>5 DEF Response!Complete
<1> QED
    BY <1>1, <1>2, <1>3, <1>4, <1>5 DEF ControllerP!Response!Next, Response!Next

LEMMA ControllerSteps ==
    ASSUME IInv,
           \/ SendRequest \/ LinkBreaks \/ ControllerStep
           \/ \E r \in Request : AgentOpens(r) \/ Recv(r)
    PROVE  ControllerP!Next /\ chunks' = chunks
<1>1. CASE SendRequest \/ LinkBreaks
    <2>1. ControllerP!SendRequest(session) \/ ControllerP!AgentLost(session)
        BY <1>1, SameController DEF SendRequest, LinkBreaks
    <2> QED
        BY <1>1, <2>1, OnlyEchoWrites DEF ControllerP!Next, ControllerP!SessionStep
<1>2. CASE ControllerStep
    <2>1. \/ ControllerP!SessionOwnStep(session)
          \/ \E r \in Request : \/ ControllerP!RequestStep(r) \/ ControllerP!FlowOwnStep(r)
                                \/ ControllerP!EchoStep(r)
        BY <1>2, SameController DEF ControllerStep
    <2>2. ControllerP!Next
        BY <2>1 DEF ControllerP!Next, ControllerP!SessionStep, ControllerP!FlowStep
    <2> QED
        BY <1>2, <2>2, OnlyEchoWrites
<1>3. ASSUME NEW r \in Request, AgentOpens(r)
      PROVE  ControllerP!Next /\ chunks' = chunks
    <2>1. ControllerP!AgentOpens(r)
        BY <1>3, SameController DEF AgentOpens
    <2> QED
        BY <1>3, <2>1, OnlyEchoWrites DEF ControllerP!Next, ControllerP!FlowStep
<1>4. ASSUME NEW r \in Request, Recv(r)
      PROVE  ControllerP!Next /\ chunks' = chunks
    BY <1>4, RecvReceives DEF Receive, ControllerP!Next, ControllerP!FlowStep, agentVars
<1> QED
    BY <1>1, <1>2, <1>3, <1>4

\* The agent sends no more of a response that the client has been told is complete.
LEMMA SendsAreSaid ==
    ASSUME IInv, SaidAll, NEW r \in Request, AgentMoves(r), UNCHANGED controllerVars
    PROVE  [Response!Next]_(Response!vars)
<1> DEFINE b == [q \in Request |-> Shown(q)]
<1>1. /\ AgentP!TypeOK /\ AgentP!Holding /\ AgentInv(r) /\ EchoedInv(r) /\ SaidTypes
      /\ UNCHANGED <<http, heads, body>>
    BY SaidTypesHold DEF IInv, AgentP!IInv, controllerVars
<1>2. CASE UNCHANGED chunks
    <2>1. b' = b
        BY <1>1, <1>2 DEF Shown
    <2> QED
        BY <1>1, <1>2, <2>1 DEF Response!vars
<1>3. ASSUME AgentP!SenderSends(r), held[r] = "data", NEW c \in SUBSET AgentP!Reads,
             chunks' = [chunks EXCEPT ![r] = Append(@, c)]
      PROVE  Response!Say(r)
    <2>1. AgentP!Last(r) \notin {"done", "eof"}
        BY <1>1, <1>3 DEF AgentInv, AgentP!SenderInv, AgentP!SenderSends, AgentP!Holding,
            AgentP!MayFollow
    <2>2. http[r] # "done"
        BY <1>1, <2>1 DEF AgentInv, WireInv, EchoedInv, HasDone
    <2>3. Controller!Phase(http[r]) # "complete"
        BY <2>2 DEF Controller!Phase
    <2>4. ASSUME NEW q \in Request PROVE Shown(q)' = Shown(q)
        <3>1. /\ Len(body[q]) \in Nat /\ DOMAIN body[q] = 1..Len(body[q])
              /\ Len(chunks[q]) \in Nat /\ Len(body[q]) <= Len(chunks[q])
              /\ chunks[q] \in Seq(SUBSET AgentP!Reads)
              /\ \A i \in DOMAIN body[q] : body[q][i] - 1 = i
            BY <1>1 DEF SaidTypes, SaidAll, SaidInv
        <3>2. chunks'[q] = IF q = r THEN Append(chunks[q], c) ELSE chunks[q]
            BY <1>1, <1>3 DEF SaidTypes
        <3>3. \A i \in 1..Len(chunks[q]) : chunks'[q][i] = chunks[q][i]
            BY <1>3, <3>1, <3>2
        <3>4. \A i \in DOMAIN body[q] : chunks'[q][body[q][i] - 1] = chunks[q][body[q][i] - 1]
            BY <3>1, <3>3
        <3> QED
            BY <1>1, <3>4 DEF Shown
    <2>5. b' = b
        BY <2>4
    <2>6. AgentP!Reads = Agent!Reads
        BY DEF AgentP!Reads, Agent!Reads
    <2> QED
        BY <1>1, <1>3, <2>3, <2>5, <2>6 DEF Response!Say
<1>4. UNCHANGED chunks \/ \E c \in SUBSET AgentP!Reads :
            /\ AgentP!SenderSends(r) /\ held[r] = "data"
            /\ chunks' = [chunks EXCEPT ![r] = Append(@, c)]
    BY <1>1, AgentSays
<1> QED
    BY <1>2, <1>3, <1>4 DEF Response!Next

LEMMA StepResponds ==
    IInv /\ SaidAll /\ [Next]_vars /\ SaidAll' /\ CompleteIsComplete'
        => [Response!Next]_(Response!vars)
<1> SUFFICES ASSUME IInv, SaidAll, [Next]_vars, SaidAll', CompleteIsComplete'
             PROVE  [Response!Next]_(Response!vars)
    OBVIOUS
<1>1. IInv' /\ SaidTypes'
    <2>1. IInv'
        BY StepInvariant
    <2> QED
        BY <2>1 DEF SaidTypes, IInv, AgentP!IInv, AgentP!TypeOK, ControllerP!IInv,
            ControllerP!TypeOK, ControllerP!DataEvents
<1>2. CASE \/ SendRequest \/ LinkBreaks \/ ControllerStep
           \/ \E r \in Request : AgentOpens(r) \/ Recv(r)
    <2>1. ControllerP!Next /\ chunks' = chunks
        BY <1>2, ControllerSteps
    <2>2. /\ NoSession \notin {session}
          /\ [r \in Request |-> {session}] \in [Request -> SUBSET {session}]
          /\ MaxChunks + 1 \in Nat
          /\ FALSE \in BOOLEAN /\ CanLose \in BOOLEAN
        BY SessionAssumption, ChunkAssumption, SwitchAssumption
    <2>3. [ControllerP!Response!Next]_(ControllerP!Response!vars)
        BY <2>1, <2>2, RequestAssumption, ControllerP!StepRefines DEF IInv
    <2> QED
        BY <1>1, <2>1, <2>3, ContractCarries
<1>3. CASE LoopReceives \/ \E r \in Request : SenderStep(r) \/ CallerStep(r)
    BY <1>3, AgentSteps, SendsAreSaid
<1>4. CASE UNCHANGED vars
    <2>1. UNCHANGED [q \in Request |-> Shown(q)]
        BY <1>4 DEF vars, agentVars, controllerVars, Shown
    <2> QED
        BY <1>4, <2>1 DEF vars, agentVars, controllerVars, Response!vars
<1> QED
    BY <1>2, <1>3, <1>4 DEF Next

\* Whatever happens to either process, to the connection and to the other requests, the
\* body a client is written is at any time a beginning of the data messages that the
\* agent has marshalled for it, and all of them when it ends with the agent's Done.
THEOREM ClientSeesWhatIsSaid == Spec => EndToEndContract
<1>1. Init => SaidAll
    BY InitSaid DEF SaidAll
<1>2. IInv /\ SaidAll /\ [Next]_vars => SaidAll'
    BY StepSaid DEF SaidAll
<1>3. Spec => []SaidAll
    BY <1>1, <1>2, Invariance, PTL DEF Spec
<1> QED
    BY <1>3, Invariance, ResponsesAreComplete, InitResponse, StepResponds, PTL
        DEF Spec, EndToEndContract, Response!Spec

-----------------------------------------------------------------------------
(* The agent of the tunnel is the agent of its own module, so that what is  *)
(* proved there holds here.                                                 *)

\* Between the connection and the controller the agent does nothing but what AgentEcho
\* says of one that runs.
THEOREM TheAgentIsItself == Spec => Agent!Spec
<1>1. Init => Agent!Init
    BY DEF Init
<1>2. IInv /\ [Next]_vars => [Agent!Next]_(Agent!vars)
    <2> SUFFICES ASSUME IInv, [Next]_vars
                 PROVE  Agent!Next \/ UNCHANGED agentVars
        BY DEF agentVars, Agent!vars, Agent!callVars, Agent!echoVars, Agent!senderVars,
            Agent!wireVars
    <2>1. process = "running"
        BY DEF IInv, Alive
    <2>2. CASE LinkBreaks
        BY <2>1, <2>2 DEF LinkBreaks, Agent!Next
    <2>3. CASE LoopReceives \/ \E r \in Request : SenderStep(r) \/ CallerStep(r)
        <3>1. AgentP!Next
            BY <2>1, <2>3, AgentSteps DEF AgentMoves, AgentP!Next
        <3> QED
            BY <3>1, SameAgent
    <2>4. CASE \E r \in Request : Recv(r)
        BY <2>4, RecvReceives
    <2>5. CASE SendRequest \/ ControllerStep \/ \E r \in Request : AgentOpens(r)
        BY <2>5 DEF SendRequest, ControllerStep, AgentOpens
    <2> QED
        BY <2>2, <2>3, <2>4, <2>5 DEF Next, vars
<1> QED
    BY <1>1, <1>2, Invariance, PTL DEF Spec, Agent!Spec
=============================================================================
