--------------------------- MODULE AgentEchoProofs ---------------------------
(***************************************************************************)
(* Theorems of AgentEcho, for any number of requests and any number of     *)
(* chunks.                                                                 *)
(***************************************************************************)
EXTENDS AgentEcho, TLAPS

(***************************************************************************)
(* The inductive invariant.  Only while the link is up and the context is  *)
(* live does anything go onto the wire, and once that is over it is over   *)
(* for good: so the invariant says nothing of what happens afterwards.     *)
(***************************************************************************)
Live == link = "up" /\ ctx = "live"

\* The kind of the last message on the wire, and of the last one handed over.
Last(r) == IF wire[r] = <<>> THEN "none" ELSE wire[r][Len(wire[r])]
Said(r) == IF held[r] = "none" THEN Last(r) ELSE held[r]

\* A message of kind k may follow one of kind l.
MayFollow(k, l) ==
    \/ k = "headers" /\ l = "none"
    \/ k \in {"data", "cancel"} /\ l \in {"headers", "data"}
    \/ k = "done" /\ l \in {"headers", "data", "done"}

\* What the caller has said, for each place it can be in.
CallerInv(r) ==
    /\ caller[r] \in {"none", "do", "headers", "failHeaders"} => Said(r) = "none"
    /\ caller[r] \in {"loop", "read", "fill", "check", "data", "done", "failDone"} =>
        Said(r) \in {"headers", "data"}
    /\ caller[r] = "shutdownDone" => Said(r) = "done"
    /\ caller[r] \in {"shutdown", "end"} =>
        Said(r) = "done" \/ (Said(r) = "eof" /\ sender[r] \in {"closing", "returned"})
    /\ caller[r] # "cancel"
    /\ caller[r] \in {"loop", "read", "fill", "check", "data"} => headersSent[r]

\* The echo is closed only at its end, and the sender returns only after that.
SenderInv(r) ==
    /\ closed[r] => caller[r] \in {"done", "shutdown", "shutdownDone", "end"}
    /\ held[r] # "none" => MayFollow(held[r], Last(r))
    /\ sender[r] \in {"closing", "returned"} => closed[r] /\ caller[r] \in {"shutdown", "end"}

\* The sender, which the request's arrival starts, sends what it holds.
Holding ==
    \A r \in Request :
        /\ sender[r] = "send" <=> held[r] # "none"
        /\ caller[r] = "none" => sender[r] = "none"

IInv ==
    /\ TypeOK
    /\ Holding
    /\ Live => \A r \in Request : CallerInv(r) /\ SenderInv(r)

-----------------------------------------------------------------------------
(* Type correctness. *)

LEMMA Callers ==
    /\ Sending = {"headers", "data", "done", "cancel", "failHeaders", "failDone",
                  "shutdownDone"}
    /\ CallerStates = {"headers", "data", "done", "cancel", "failHeaders", "failDone",
                       "shutdownDone", "none", "do", "loop", "read", "fill", "check",
                       "shutdown", "end"}
    /\ \A c \in Sending : Message[c] \in Kinds
<1>1. Sending = {"headers", "data", "done", "cancel", "failHeaders", "failDone", "shutdownDone"}
    BY DEF Sending, Message
<1>2. \A c \in Sending : Message[c] \in Kinds
    BY <1>1 DEF Message, Kinds
<1> QED
    BY <1>1, <1>2 DEF CallerStates

LEMMA InitType == Init => TypeOK
<1> SUFFICES ASSUME Init PROVE TypeOK
    OBVIOUS
<1>1. /\ caller \in [Request -> CallerStates] /\ buf \in [Request -> Reads]
      /\ slice \in [Request -> SUBSET Reads]
    BY Callers, ChunkAssumption DEF Init, Reads
<1>2. \A S : [r \in Request |-> <<>>] \in [Request -> Seq(S)]
    OBVIOUS
<1> QED
    BY <1>1, <1>2 DEF Init, TypeOK

(* A step of the process and its receive loop keeps the types. *)
LEMMA ProcessType ==
    ASSUME TypeOK, LinkBreaks \/ LoopFails \/ ProcessExits \/ \E r \in Request : LoopReceives(r)
    PROVE  TypeOK'
<1> USE DEF TypeOK, callVars, echoVars, senderVars, wireVars
<1>1. CASE LinkBreaks
    BY <1>1 DEF LinkBreaks
<1>2. CASE LoopFails
    BY <1>2 DEF LoopFails
<1>3. CASE ProcessExits
    BY <1>3 DEF ProcessExits
<1>4. ASSUME NEW r \in Request, LoopReceives(r)
      PROVE  TypeOK'
    <2>0. {"do", "failHeaders"} \subseteq CallerStates
        BY Callers
    <2>1. caller' \in [Request -> CallerStates]
        <3>1. PICK c \in {"do", "failHeaders"} : caller' = [caller EXCEPT ![r] = c]
            BY <1>4 DEF LoopReceives, Goes
        <3> QED
            BY <2>0, <3>1
    <2>2. loop' \in {"recv", "returned"} \cup (Request \ Known)
        BY <1>4 DEF LoopReceives
    <2> QED
        BY <1>4, <2>1, <2>2 DEF LoopReceives
<1> QED
    BY <1>1, <1>2, <1>3, <1>4

LEMMA CallerType ==
    ASSUME TypeOK, NEW r \in Request, CallerStep(r)
    PROVE  TypeOK'
<1> USE ChunkAssumption DEF TypeOK, callVars, echoVars, senderVars, wireVars, Goes
<1>0. {"failHeaders", "headers", "cancel", "read", "fill", "data", "check", "loop", "shutdown",
       "done", "failDone", "end", "shutdownDone"} \subseteq CallerStates
    BY Callers
<1>1. CASE DoFails(r)
    BY <1>0, <1>1 DEF DoFails
<1>2. CASE DoReturns(r)
    BY <1>0, <1>2 DEF DoReturns
<1>3. CASE CheckContext(r)
    BY <1>0, <1>3 DEF CheckContext
<1>4. CASE BodyFills(r) \/ ReadsData(r)
    <2>1. CASE BodyFills(r)
        <3>1. buf[r] + 1 \in Reads
            BY <2>1 DEF BodyFills, Reads
        <3>2. buf' \in [Request -> Reads] /\ slice' \in [Request -> SUBSET Reads]
            BY <2>1, <3>1 DEF BodyFills
        <3> QED
            BY <1>0, <2>1, <3>2 DEF BodyFills
    <2> QED
        BY <1>0, <1>4, <2>1 DEF ReadsData
<1>5. CASE ReadsNothing(r)
    BY <1>0, <1>5 DEF ReadsNothing
<1>6. CASE ReadsOn(r)
    BY <1>0, <1>6 DEF ReadsOn
<1>7. CASE ReadEnds(r)
    BY <1>0, <1>7 DEF ReadEnds
<1>8. CASE ReadFails(r)
    BY <1>0, <1>8 DEF ReadFails
<1>9. CASE DataPanics(r) \/ FailPanics(r)
    BY <1>9 DEF DataPanics, FailPanics, Panics
<1>10. CASE Shutdown(r)
    BY <1>0, <1>10 DEF Shutdown, Ends
<1> QED
    BY <1>1, <1>2, <1>3, <1>4, <1>5, <1>6, <1>7, <1>8, <1>9, <1>10 DEF CallerStep

LEMMA SenderType ==
    ASSUME TypeOK, Holding, NEW r \in Request, SenderStep(r)
    PROVE  TypeOK'
<1> USE DEF TypeOK, callVars, echoVars, senderVars, wireVars
<1>1. ASSUME NEW c \in Sending, NEW d \in CallerStates, Hand(r, c, d)
      PROVE  caller' \in [Request -> CallerStates] /\ sender' \in [Request ->
                {"none", "opening", "select", "send", "closing", "returned", "dead"}]
             /\ slice' \in [Request -> SUBSET Reads]
             /\ held' \in [Request -> Kinds \cup {"none"}]
             /\ UNCHANGED <<process, link, ctx, err, buf, closed, wire, chunks>>
    BY <1>1, Callers DEF Hand, Goes, Reads
<1> DEFINE H(c, d) == Hand(r, c, d) /\ UNCHANGED <<loop, headersSent>>
<1>2. ASSUME NEW c \in Sending, NEW d \in CallerStates, H(c, d)
      PROVE  TypeOK'
    BY <1>1, <1>2
<1> HIDE DEF H
<1>3. CASE SenderOpens(r) \/ SenderFails(r)
    BY <1>3 DEF SenderOpens, SenderFails
<1>4. CASE HandHeaders(r)
    BY <1>1, <1>4, Callers DEF HandHeaders
<1>5. CASE HandData(r) \/ HandDone(r) \/ HandCancel(r) \/ HandFailure(r)
    <2>1. \/ H("data", "check") \/ H("done", "shutdown") \/ H("cancel", "read")
          \/ H("failHeaders", "failDone") \/ H("failDone", "shutdown")
        BY <1>5 DEF HandData, HandDone, HandCancel, HandFailure, H
    <2> HIDE DEF TypeOK
    <2> QED
        BY <1>2, <2>1, Callers
<1>6. CASE HandShutdown(r)
    BY <1>1, <1>6, Callers DEF HandShutdown
<1>7. CASE SenderSends(r)
    <2>1. held[r] \in Kinds
        BY <1>7 DEF SenderSends, Holding
    <2>2. wire' \in [Request -> Seq(Kinds \cup {"eof"})]
        BY <1>7, <2>1 DEF SenderSends
    <2>3. chunks' \in [Request -> Seq(SUBSET Reads)]
        <3>1. CASE held[r] # "data"
            BY <1>7, <3>1 DEF SenderSends
        <3>2. ASSUME NEW c \in SUBSET Reads, chunks' = [chunks EXCEPT ![r] = Append(@, c)]
              PROVE  chunks' \in [Request -> Seq(SUBSET Reads)]
            <4>1. Append(chunks[r], c) \in Seq(SUBSET Reads)
                OBVIOUS
            <4> QED
                BY <3>2, <4>1
        <3>3. Bytes(r) \subseteq SUBSET Reads
            BY DEF Bytes
        <3> QED
            BY <1>7, <3>1, <3>2, <3>3 DEF SenderSends
    <2> QED
        BY <1>7, <2>2, <2>3 DEF SenderSends
<1>8. CASE SenderDrops(r)
    BY <1>8 DEF SenderDrops
<1>9. CASE SenderCloses(r)
    <2>1. Append(wire[r], "eof") \in Seq(Kinds \cup {"eof"})
        OBVIOUS
    <2>2. wire' \in [Request -> Seq(Kinds \cup {"eof"})]
        BY <1>9, <2>1 DEF SenderCloses
    <2> QED
        BY <1>9, <2>2 DEF SenderCloses
<1>10. CASE SenderReturns(r)
    BY <1>10 DEF SenderReturns
<1> HIDE DEF TypeOK
<1> QED
    BY <1>3, <1>4, <1>5, <1>6, <1>7, <1>8, <1>9, <1>10 DEF SenderStep, SenderOwnStep

-----------------------------------------------------------------------------
(* The invariant of the sender. *)

\* One step of a request, by whichever goroutine.
Step(r) == LoopReceives(r) \/ CallerStep(r) \/ SenderStep(r)

LEMMA StepType ==
    ASSUME TypeOK, Holding, NEW r \in Request, Step(r)
    PROVE  TypeOK'
BY ProcessType, CallerType, SenderType DEF Step

(* A step of r changes nothing of another request. *)
LEMMA StepOthers ==
    ASSUME TypeOK, Holding, NEW r \in Request, Step(r), NEW q \in Request, q # r
    PROVE  /\ caller'[q] = caller[q] /\ headersSent'[q] = headersSent[q]
           /\ closed'[q] = closed[q] /\ sender'[q] = sender[q]
           /\ held'[q] = held[q] /\ wire'[q] = wire[q]
<1> USE DEF TypeOK, callVars, echoVars, senderVars, wireVars, Goes
<1>1. CASE LoopReceives(r)
    BY <1>1 DEF LoopReceives
<1>2. CASE CallerStep(r)
    BY <1>2 DEF CallerStep, DoFails, DoReturns, CheckContext, BodyFills, ReadsData,
        ReadsNothing, ReadsOn, ReadEnds, ReadFails, DataPanics, FailPanics, Panics, Shutdown,
        Ends
<1>3. CASE SenderStep(r)
    BY <1>3 DEF SenderStep, SenderOwnStep, SenderOpens, SenderFails, HandHeaders, HandData,
        HandDone, HandCancel, HandFailure, HandShutdown, Hand, SenderSends, SenderDrops,
        SenderCloses, SenderReturns
<1> QED
    BY <1>1, <1>2, <1>3 DEF Step

LEMMA StepHolding ==
    ASSUME TypeOK, Holding, NEW r \in Request, Step(r)
    PROVE  Holding'
<1> USE DEF TypeOK, callVars, echoVars, senderVars, wireVars, Goes
<1> DEFINE Own == /\ sender'[r] = "send" <=> held'[r] # "none"
                  /\ caller'[r] = "none" => sender'[r] = "none"
<1>1. ASSUME LoopReceives(r) PROVE Own
    BY <1>1 DEF LoopReceives, Holding
<1>2. ASSUME CallerStep(r) PROVE Own
    BY <1>2 DEF CallerStep, DoFails, DoReturns, CheckContext, BodyFills, ReadsData,
        ReadsNothing, ReadsOn, ReadEnds, ReadFails, DataPanics, FailPanics, Panics, Shutdown,
        Ends, Holding
<1>3. ASSUME SenderOpens(r) \/ SenderFails(r) PROVE Own
    BY <1>3 DEF SenderOpens, SenderFails, Holding
<1>4. ASSUME NEW c \in Sending, NEW d \in CallerStates \ {"none"}, Hand(r, c, d) PROVE Own
    BY <1>4, Callers DEF Hand, Kinds
<1>5. ASSUME HandHeaders(r) \/ HandData(r) \/ HandDone(r) \/ HandCancel(r) \/ HandFailure(r)
             \/ HandShutdown(r)
      PROVE  Own
    BY <1>4, <1>5, Callers DEF HandHeaders, HandData, HandDone, HandCancel, HandFailure,
        HandShutdown
<1>6. ASSUME SenderSends(r) \/ SenderDrops(r) \/ SenderCloses(r) \/ SenderReturns(r)
      PROVE  Own
    BY <1>6 DEF SenderSends, SenderDrops, SenderCloses, SenderReturns, Holding
<1>7. Own
    <2> HIDE DEF Own, TypeOK
    <2> QED
        BY <1>1, <1>2, <1>3, <1>5, <1>6 DEF Step, SenderStep, SenderOwnStep
<1> HIDE DEF TypeOK, callVars, echoVars, senderVars, wireVars, Goes
<1>8. ASSUME NEW q \in Request, q # r
      PROVE  caller'[q] = caller[q] /\ sender'[q] = sender[q] /\ held'[q] = held[q]
    BY <1>8, StepOthers
<1> QED
    BY <1>7, <1>8 DEF Holding

-----------------------------------------------------------------------------
(* The invariant of a request. *)

LEMMA AppendLast ==
    ASSUME NEW S, NEW s \in Seq(S), NEW e \in S
    PROVE  Append(s, e) # <<>> /\ Append(s, e)[Len(Append(s, e))] = e
<1>1. Len(Append(s, e)) = Len(s) + 1 /\ Len(s) \in Nat /\ Append(s, e)[Len(s) + 1] = e
    OBVIOUS
<1>2. Append(s, e) # <<>>
    BY <1>1
<1> QED
    BY <1>1, <1>2

LEMMA CallerKeeps ==
    ASSUME TypeOK, Holding, Live, NEW r \in Request, CallerInv(r), SenderInv(r),
           LoopReceives(r) \/ CallerStep(r)
    PROVE  CallerInv(r)' /\ SenderInv(r)'
<1> USE DEF TypeOK, callVars, echoVars, senderVars, wireVars, Goes, CallerInv, SenderInv
<1>1. CASE LoopReceives(r)
    <2>1. UNCHANGED <<held, wire, closed, headersSent>> /\ caller'[r] \in {"do", "failHeaders"}
          /\ sender'[r] = "opening" /\ caller[r] = "none"
        BY <1>1 DEF LoopReceives
    <2>2. Said(r)' = Said(r) /\ Last(r)' = Last(r)
        BY <2>1 DEF Said, Last
    <2> QED
        BY <2>1, <2>2
<1>2. CASE CallerStep(r)
    <2>1. UNCHANGED <<held, wire, sender, headersSent>>
        BY <1>2 DEF CallerStep, DoFails, DoReturns, CheckContext, BodyFills, ReadsData,
            ReadsNothing, ReadsOn, ReadEnds, ReadFails, DataPanics, FailPanics, Panics,
            Shutdown, Ends
    <2>2. Said(r)' = Said(r) /\ Last(r)' = Last(r)
        BY <2>1 DEF Said, Last
    <2>3. CASE DoFails(r) \/ DoReturns(r)
        BY <2>1, <2>2, <2>3 DEF DoFails, DoReturns
    <2>4. CASE CheckContext(r)
        BY <2>1, <2>2, <2>4 DEF CheckContext, Live
    <2>5. CASE BodyFills(r) \/ ReadsData(r) \/ ReadsNothing(r) \/ ReadsOn(r)
        BY <2>1, <2>2, <2>5 DEF BodyFills, ReadsData, ReadsNothing, ReadsOn
    <2>6. CASE ReadEnds(r) \/ ReadFails(r)
        BY <2>1, <2>2, <2>6 DEF ReadEnds, ReadFails
    <2>7. CASE DataPanics(r) \/ FailPanics(r)
        BY <2>1, <2>2, <2>7 DEF DataPanics, FailPanics, Panics
    <2>8. CASE Shutdown(r)
        BY <2>1, <2>2, <2>8 DEF Shutdown, Ends
    <2> QED
        BY <1>2, <2>3, <2>4, <2>5, <2>6, <2>7, <2>8 DEF CallerStep
<1> QED
    BY <1>1, <1>2

LEMMA SenderKeeps ==
    ASSUME TypeOK, Holding, Live, NEW r \in Request, CallerInv(r), SenderInv(r), SenderStep(r)
    PROVE  CallerInv(r)' /\ SenderInv(r)'
<1> USE DEF TypeOK, callVars, echoVars, senderVars, wireVars
<1>1. CASE SenderOpens(r) \/ SenderFails(r)
    <2>1. UNCHANGED <<held, wire, closed, headersSent, caller>>
          /\ sender'[r] \in {"select", "dead"} /\ sender[r] = "opening"
        BY <1>1 DEF SenderOpens, SenderFails
    <2>2. Said(r)' = Said(r) /\ Last(r)' = Last(r)
        BY <2>1 DEF Said, Last
    <2> QED
        BY <2>1, <2>2 DEF CallerInv, SenderInv
<1>2. ASSUME NEW c, NEW d, Hand(r, c, d)
      PROVE  /\ caller[r] = c /\ caller'[r] = d /\ sender'[r] = "send"
             /\ held'[r] = Message[c]
             /\ Said(r) = Last(r) /\ Last(r)' = Last(r)
             /\ UNCHANGED closed
    BY <1>2 DEF Hand, Goes, Holding, Said, Last
<1>3. Message["headers"] = "headers" /\ Message["data"] = "data" /\ Message["done"] = "done"
      /\ Message["failHeaders"] = "headers" /\ Message["failDone"] = "done"
      /\ Message["shutdownDone"] = "done"
    BY DEF Message
<1>4. ASSUME held'[r] # "none"
      PROVE  Said(r)' = held'[r]
    BY <1>4 DEF Said
<1>5. CASE HandHeaders(r)
    BY <1>2, <1>3, <1>4, <1>5 DEF HandHeaders, CallerInv, SenderInv, MayFollow
<1>6. CASE HandData(r)
    BY <1>2, <1>3, <1>4, <1>6 DEF HandData, CallerInv, SenderInv, MayFollow
<1>7. CASE HandDone(r)
    BY <1>2, <1>3, <1>4, <1>7 DEF HandDone, CallerInv, SenderInv, MayFollow
<1>8. CASE HandCancel(r)
    BY <1>2, <1>8 DEF HandCancel, CallerInv
<1>9. CASE HandFailure(r)
    <2>1. CASE Hand(r, "failHeaders", "failDone")
        BY <1>2, <1>3, <1>4, <1>9, <2>1 DEF HandFailure, CallerInv, SenderInv, MayFollow
    <2>2. CASE Hand(r, "failDone", "shutdown")
        BY <1>2, <1>3, <1>4, <1>9, <2>2 DEF HandFailure, CallerInv, SenderInv, MayFollow
    <2> QED
        BY <1>9, <2>1, <2>2 DEF HandFailure
<1>10. CASE HandShutdown(r)
    BY <1>2, <1>3, <1>4, <1>10 DEF HandShutdown, CallerInv, SenderInv, MayFollow
<1>11. CASE SenderSends(r)
    <2>1. wire'[r] = Append(wire[r], held[r]) /\ held'[r] = "none" /\ sender'[r] = "select"
          /\ UNCHANGED <<caller, closed, headersSent>> /\ wire[r] \in Seq(Kinds \cup {"eof"})
        BY <1>11 DEF SenderSends
    <2>2. held[r] # "none" /\ held[r] \in Kinds
        BY <1>11 DEF SenderSends, Holding
    <2>3. Last(r)' = held[r]
        <3> HIDE DEF TypeOK
        <3>1. wire'[r] # <<>> /\ wire'[r][Len(wire'[r])] = held[r]
            <4> DEFINE S == Kinds \cup {"eof"}
            <4>1. held[r] \in S /\ wire[r] \in Seq(S)
                BY <2>1, <2>2
            <4> HIDE DEF S
            <4>2. Append(wire[r], held[r]) # <<>>
                  /\ Append(wire[r], held[r])[Len(Append(wire[r], held[r]))] = held[r]
                BY <4>1, AppendLast
            <4> QED
                BY <2>1, <4>2
        <3> QED
            BY <3>1 DEF Last
    <2>4. Said(r)' = Said(r)
        BY <2>1, <2>2, <2>3 DEF Said
    <2> QED
        BY <1>11, <2>1, <2>2, <2>4 DEF CallerInv, SenderInv, SenderSends
<1>12. CASE SenderDrops(r)
    BY <1>12 DEF SenderDrops, Live
<1>13. CASE SenderCloses(r)
    <2>1. wire'[r] = Append(wire[r], "eof") /\ held'[r] = "none" /\ sender'[r] = "closing"
          /\ UNCHANGED <<caller, closed, headersSent>> /\ wire[r] \in Seq(Kinds \cup {"eof"})
        BY <1>13 DEF SenderCloses, Live, Holding
    <2>2. closed[r] /\ caller[r] \in {"shutdown", "end"}
        BY <1>13, Callers DEF SenderCloses, SenderInv
    <2>3. Said(r)' = "eof"
        <3> HIDE DEF TypeOK
        <3>1. wire'[r] # <<>> /\ wire'[r][Len(wire'[r])] = "eof"
            <4> DEFINE S == Kinds \cup {"eof"}
            <4>1. "eof" \in S /\ wire[r] \in Seq(S)
                BY <2>1
            <4> HIDE DEF S
            <4>2. Append(wire[r], "eof") # <<>>
                  /\ Append(wire[r], "eof")[Len(Append(wire[r], "eof"))] = "eof"
                BY <4>1, AppendLast
            <4> QED
                BY <2>1, <4>2
        <3> QED
            BY <2>1, <3>1 DEF Said, Last
    <2> QED
        BY <2>1, <2>2, <2>3 DEF CallerInv, SenderInv
<1>14. CASE SenderReturns(r)
    <2>1. UNCHANGED <<held, wire, closed, headersSent, caller>>
          /\ sender'[r] = "returned" /\ sender[r] = "closing"
        BY <1>14 DEF SenderReturns
    <2>2. Said(r)' = Said(r) /\ Last(r)' = Last(r)
        BY <2>1 DEF Said, Last
    <2> QED
        BY <2>1, <2>2 DEF CallerInv, SenderInv
<1> QED
    BY <1>1, <1>5, <1>6, <1>7, <1>8, <1>9, <1>10, <1>11, <1>12, <1>13, <1>14
    DEF SenderStep, SenderOwnStep

-----------------------------------------------------------------------------
(* The invariant is inductive. *)

LEMMA InitInvariant == Init => IInv
BY InitType DEF Init, IInv, Holding, CallerInv, SenderInv, Said, Last

LEMMA StepInvariant == IInv /\ [Next]_vars => IInv'
<1> SUFFICES ASSUME IInv, [Next]_vars PROVE IInv'
    OBVIOUS
<1> USE DEF callVars, echoVars, senderVars, wireVars
<1>1. CASE LinkBreaks \/ LoopFails \/ ProcessExits
    <2>1. UNCHANGED <<caller, headersSent, closed, sender, held, wire>>
        BY <1>1 DEF LinkBreaks, LoopFails, ProcessExits
    <2>2. Live' => Live
        BY <1>1 DEF LinkBreaks, LoopFails, ProcessExits, Live
    <2>3. TypeOK' /\ Holding'
        BY <1>1, <2>1, ProcessType DEF IInv, Holding
    <2>4. \A r \in Request : CallerInv(r) /\ SenderInv(r) => CallerInv(r)' /\ SenderInv(r)'
        BY <2>1 DEF CallerInv, SenderInv, Said, Last
    <2> QED
        BY <2>2, <2>3, <2>4 DEF IInv
<1>2. ASSUME NEW r \in Request, Step(r)
      PROVE  IInv'
    <2>1. TypeOK' /\ Holding'
        BY <1>2, StepType, StepHolding DEF IInv
    <2>2. UNCHANGED <<link, ctx>>
        BY <1>2 DEF Step, LoopReceives, CallerStep, DoFails, DoReturns, CheckContext,
            BodyFills, ReadsData, ReadsNothing, ReadsOn, ReadEnds, ReadFails, DataPanics,
            FailPanics, Panics, Shutdown, Ends, SenderStep, SenderOwnStep, SenderOpens,
            SenderFails, HandHeaders, HandData, HandDone, HandCancel, HandFailure,
            HandShutdown, Hand, SenderSends, SenderDrops, SenderCloses, SenderReturns
    <2> SUFFICES ASSUME Live, NEW q \in Request PROVE CallerInv(q)' /\ SenderInv(q)'
        BY <2>1, <2>2 DEF IInv, Live
    <2>3. CASE q = r
        BY <1>2, <2>3, CallerKeeps, SenderKeeps DEF IInv, Step
    <2>4. CASE q # r
        BY <1>2, <2>4, StepOthers DEF IInv, CallerInv, SenderInv, Said, Last
    <2> QED
        BY <2>3, <2>4
<1>3. CASE UNCHANGED vars
    BY <1>3 DEF vars, IInv, TypeOK, Holding, Live, CallerInv, SenderInv, Said, Last
<1> QED
    BY <1>1, <1>2, <1>3 DEF Next, Step

(* No failure, and no moment at which the link breaks, leaves the invariant. *)
THEOREM Invariance == Spec => []IInv
BY InitInvariant, StepInvariant, PTL DEF Spec

(* The variables keep their types; in particular the receive loop is in Recv, *)
(* or in the echo of a request whose service is not configured.               *)
THEOREM TypeCorrect == Spec => []TypeOK
<1>1. IInv => TypeOK
    BY DEF IInv
<1> QED
    BY <1>1, Invariance, PTL

-----------------------------------------------------------------------------
(* AgentEcho implements DataFlow. *)

LEMMA InitRefines == Init => Flow!Init
BY DEF Init, Flow!Init

LEMMA StepRefines == IInv /\ [Next]_vars => [Flow!Next]_wire
<1> SUFFICES ASSUME IInv, [Next]_vars PROVE [Flow!Next]_wire
    OBVIOUS
<1> USE DEF callVars, echoVars, senderVars, wireVars
<1>1. ASSUME NEW r \in Request, SenderSends(r)
      PROVE  Flow!Next
    <2>1. /\ wire' = [wire EXCEPT ![r] = Append(@, held[r])]
          /\ held[r] \in Kinds /\ MayFollow(held[r], Last(r))
          /\ wire \in [Request -> Seq(Kinds \cup {"eof"})]
        BY <1>1 DEF SenderSends, IInv, TypeOK, Holding, Live, SenderInv
    <2>2. CASE held[r] = "headers"
        <3>1. wire[r] = <<>>
            BY <2>1, <2>2 DEF MayFollow, Last, Kinds
        <3> QED
            <4>1. wire' = [wire EXCEPT ![r] = <<"headers">>]
                BY <2>1, <2>2, <3>1
            <4> QED
                BY <3>1, <4>1 DEF Flow!Next, Flow!SayHeaders
    <2>3. CASE held[r] # "headers"
        <3>1. wire[r] # <<>> /\ Last(r) = wire[r][Len(wire[r])]
            BY <2>1, <2>3 DEF MayFollow, Last
        <3> QED
            BY <2>1, <2>3, <3>1 DEF Flow!Next, Flow!SayData, Flow!SayDone, Flow!SayCancel,
                Flow!Follows, MayFollow, Kinds
    <2> QED
        BY <2>2, <2>3
<1>2. ASSUME NEW r \in Request, SenderCloses(r)
      PROVE  [Flow!Next]_wire
    <2>1. CASE Live
        <3>1. /\ wire' = [wire EXCEPT ![r] = Append(@, "eof")]
              /\ sender[r] = "select" /\ held[r] = "none" /\ Said(r) = Last(r)
              /\ caller[r] \in {"shutdown", "end"}
            BY <1>2, <2>1, Callers DEF SenderCloses, Live, IInv, Holding, SenderInv, Said
        <3>2. Last(r) = "done"
            BY <2>1, <3>1 DEF IInv, CallerInv
        <3>3. wire[r] # <<>> /\ wire[r][Len(wire[r])] = "done"
            BY <3>2 DEF Last
        <3> QED
            BY <3>1, <3>3 DEF Flow!Next, Flow!CloseSide, Flow!Follows
    <2>2. CASE ~Live
        BY <1>2, <2>2 DEF SenderCloses, Live
    <2> QED
        BY <2>1, <2>2
\* Nothing else writes to the wire.
<1>3. ASSUME NEW r \in Request,
             SenderOpens(r) \/ SenderFails(r) \/ HandHeaders(r) \/ HandData(r) \/ HandDone(r)
             \/ HandCancel(r) \/ HandFailure(r) \/ HandShutdown(r) \/ SenderDrops(r)
             \/ SenderReturns(r)
      PROVE  UNCHANGED wire
    BY <1>3 DEF SenderOpens, SenderFails, HandHeaders, HandData, HandDone, HandCancel,
        HandFailure, HandShutdown, Hand, SenderDrops, SenderReturns
<1>4. ASSUME NEW r \in Request, LoopReceives(r) \/ CallerStep(r)
      PROVE  UNCHANGED wire
    BY <1>4 DEF LoopReceives, CallerStep, DoFails, DoReturns, CheckContext, BodyFills,
        ReadsData, ReadsNothing, ReadsOn, ReadEnds, ReadFails, DataPanics, FailPanics, Panics,
        Shutdown, Ends
<1>5. CASE LinkBreaks \/ LoopFails \/ ProcessExits \/ UNCHANGED vars
    BY <1>5 DEF LinkBreaks, LoopFails, ProcessExits, vars
<1> QED
    BY <1>1, <1>2, <1>3, <1>4, <1>5 DEF Next, SenderStep, SenderOwnStep

(* Whatever fails, and whenever the link breaks, each stream carries headers,  *)
(* data and an end in the order the controller expects.                        *)
THEOREM KeepsWireContract == Spec => WireContract
<1>1. Init => Flow!Init
    BY InitRefines
<1>2. IInv /\ [Next]_vars => [Flow!Next]_wire
    BY StepRefines
<1> QED
    BY <1>1, <1>2, Invariance, PTL DEF Spec, WireContract, Flow!Spec

-----------------------------------------------------------------------------
(***************************************************************************)
(* Two more invariants, on top of IInv: the context ends only with the     *)
(* link, and while both last every chunk that was read is on the wire, in  *)
(* the sender's hand, or in the caller's: so the buffer can have been read *)
(* into once, and no more, since the sender took its slice of it.          *)
(***************************************************************************)
InHand(place) == IF place \in {"fill", "data"} THEN 1 ELSE 0

CountInv(r) ==
    /\ Live => buf[r] = Len(chunks[r]) + InHand(held[r]) + InHand(caller[r])
    /\ Live /\ held[r] = "data" => slice[r] \subseteq {Len(chunks[r]) + 1, Len(chunks[r]) + 2}
    /\ \A i \in DOMAIN chunks[r] : chunks[r][i] # {} /\ chunks[r][i] \subseteq {i, i + 1}

LossInv ==
    /\ ctx = "done" => link = "down"
    /\ PanicNeedsLostLink
    /\ \A r \in Request : CountInv(r)

(* Only a step of r touches what CountInv says of r. *)
LEMMA CountOthers ==
    ASSUME TypeOK, NEW r \in Request, Step(r), NEW q \in Request, q # r
    PROVE  caller'[q] = caller[q] /\ held'[q] = held[q] /\ buf'[q] = buf[q]
           /\ slice'[q] = slice[q] /\ chunks'[q] = chunks[q]
<1> USE DEF TypeOK, callVars, echoVars, senderVars, wireVars, Goes
<1>1. CASE LoopReceives(r)
    BY <1>1 DEF LoopReceives
<1>2. CASE CallerStep(r)
    BY <1>2 DEF CallerStep, DoFails, DoReturns, CheckContext, BodyFills, ReadsData,
        ReadsNothing, ReadsOn, ReadEnds, ReadFails, DataPanics, FailPanics, Panics, Shutdown,
        Ends
<1>3. CASE SenderStep(r)
    BY <1>3 DEF SenderStep, SenderOwnStep, SenderOpens, SenderFails, HandHeaders, HandData,
        HandDone, HandCancel, HandFailure, HandShutdown, Hand, SenderSends, SenderDrops,
        SenderCloses, SenderReturns
<1> QED
    BY <1>1, <1>2, <1>3 DEF Step

(* The caller's own steps: a read puts one chunk into its hand, and into the *)
(* slice the sender may hold.                                                *)
LEMMA CallerCounts ==
    ASSUME TypeOK, NEW r \in Request, CountInv(r), LoopReceives(r) \/ CallerStep(r)
    PROVE  CountInv(r)'
<1> USE DEF TypeOK, callVars, echoVars, senderVars, wireVars, Goes
<1>1. UNCHANGED <<link, ctx, held, chunks>>
    BY DEF LoopReceives, CallerStep, DoFails, DoReturns, CheckContext, BodyFills, ReadsData,
        ReadsNothing, ReadsOn, ReadEnds, ReadFails, DataPanics, FailPanics, Panics, Shutdown,
        Ends
<1>2. buf[r] \in Nat /\ InHand(held[r]) \in Nat /\ InHand(caller[r]) \in Nat
      /\ Len(chunks[r]) \in Nat
    BY ChunkAssumption DEF InHand, Reads
<1>3. CASE BodyFills(r)
    <2>1. /\ caller[r] = "read" /\ caller'[r] = "fill" /\ buf'[r] = buf[r] + 1
          /\ slice'[r] = IF held[r] = "data" THEN slice[r] \cup {buf[r] + 1} ELSE slice[r]
        BY <1>3 DEF BodyFills
    <2>2. InHand(caller[r]) = 0 /\ InHand(caller'[r]) = 1 /\ InHand("data") = 1
        BY <2>1 DEF InHand
    <2>3. Live' = Live /\ held'[r] = held[r] /\ chunks'[r] = chunks[r]
        BY <1>1 DEF Live
    <2> HIDE DEF TypeOK, callVars, echoVars, senderVars, wireVars, Goes
    <2>4. Live => buf'[r] = Len(chunks[r]) + InHand(held[r]) + InHand(caller'[r])
        BY <1>2, <2>1, <2>2 DEF CountInv
    <2>5. Live /\ held[r] = "data" =>
            slice'[r] \subseteq {Len(chunks[r]) + 1, Len(chunks[r]) + 2}
        BY <1>2, <2>1, <2>2 DEF CountInv
    <2> QED
        BY <2>3, <2>4, <2>5 DEF CountInv
<1>4. CASE ~BodyFills(r)
    <2>1. UNCHANGED <<buf, slice>>
        BY <1>4 DEF LoopReceives, CallerStep, DoFails, DoReturns, CheckContext, ReadsData,
            ReadsNothing, ReadsOn, ReadEnds, ReadFails, DataPanics, FailPanics, Panics,
            Shutdown, Ends
    <2>2. InHand(caller'[r]) = InHand(caller[r])
        BY <1>4 DEF LoopReceives, CallerStep, DoFails, DoReturns, CheckContext, ReadsData,
            ReadsNothing, ReadsOn, ReadEnds, ReadFails, DataPanics, FailPanics, Panics,
            Shutdown, Ends, InHand
    <2> HIDE DEF TypeOK, callVars, echoVars, senderVars, wireVars, Goes
    <2> QED
        BY <1>1, <2>1, <2>2 DEF CountInv, Live
<1> QED
    BY <1>3, <1>4

(* The sender's steps: a chunk goes from hand to hand, and then onto the wire, *)
(* as what its slice of the buffer holds.                                      *)
LEMMA SenderCounts ==
    ASSUME TypeOK, Holding, NEW r \in Request, CountInv(r), SenderStep(r)
    PROVE  CountInv(r)'
<1> USE DEF TypeOK, callVars, echoVars, senderVars, wireVars, Goes
<1>0. buf[r] \in Nat /\ Len(chunks[r]) \in Nat
    BY ChunkAssumption DEF Reads
<1>1. CASE SenderOpens(r) \/ SenderFails(r) \/ SenderCloses(r) \/ SenderReturns(r)
    BY <1>1 DEF SenderOpens, SenderFails, SenderCloses, SenderReturns, CountInv, Live
<1>2. CASE SenderDrops(r)
    <2>1. ~Live' /\ chunks' = chunks
        BY <1>2 DEF SenderDrops, Live
    <2> QED
        BY <2>1 DEF CountInv
<1>3. ASSUME NEW c \in Sending, NEW d \in CallerStates \ {"fill", "data"}, Hand(r, c, d)
      PROVE  CountInv(r)'
    <2>1. /\ held[r] = "none" /\ held'[r] = Message[c] /\ caller[r] = c /\ caller'[r] = d
          /\ slice'[r] = IF c = "data" THEN {buf[r]} ELSE {}
        BY <1>3 DEF Hand, Holding
    <2>2. InHand(Message[c]) = InHand(c) /\ (Message[c] = "data" <=> c = "data")
        BY Callers DEF Message, InHand
    <2>3. UNCHANGED <<link, ctx, buf, chunks>>
        BY <1>3 DEF Hand
    <2>4. InHand(held'[r]) = InHand(caller[r]) /\ InHand(held[r]) = 0 /\ InHand(caller'[r]) = 0
        BY <2>1, <2>2 DEF InHand
    <2>5. InHand(caller[r]) \in Nat /\ InHand("data") = 1
        BY DEF InHand
    <2> HIDE DEF TypeOK
    <2>6. Live => slice'[r] \subseteq {Len(chunks[r]) + 1, Len(chunks[r]) + 2}
        BY <1>0, <2>1, <2>4, <2>5 DEF CountInv
    <2> QED
        BY <1>0, <2>3, <2>4, <2>5, <2>6 DEF CountInv, Live
<1>4. CASE HandHeaders(r) \/ HandData(r) \/ HandDone(r) \/ HandCancel(r) \/ HandFailure(r)
           \/ HandShutdown(r)
    <2> HIDE DEF TypeOK, Goes
    <2> QED
        BY <1>3, <1>4, Callers DEF HandHeaders, HandData, HandDone, HandCancel, HandFailure,
            HandShutdown
<1>5. CASE SenderSends(r)
    <2>0. /\ Live /\ held[r] # "none" /\ held'[r] = "none"
          /\ UNCHANGED <<link, ctx, buf, caller>>
          /\ InHand("none") = 0 /\ InHand("data") = 1 /\ InHand(caller[r]) \in Nat
        BY <1>5 DEF SenderSends, Live, Holding, InHand
    <2>1. CASE held[r] = "data"
        <3>1. PICK c \in Bytes(r) : chunks'[r] = Append(chunks[r], c)
            BY <1>5, <2>1 DEF SenderSends
        <3>2. Len(chunks'[r]) = Len(chunks[r]) + 1
            BY <3>1
        <3>3. buf[r] = Len(chunks'[r]) + InHand(held'[r]) + InHand(caller'[r])
            <4> HIDE DEF TypeOK
            <4> QED
                BY <1>0, <2>0, <2>1, <3>2 DEF CountInv
        <3>4. c # {} /\ c \subseteq {Len(chunks[r]) + 1, Len(chunks[r]) + 2}
            <4>1. slice[r] \subseteq {Len(chunks[r]) + 1, Len(chunks[r]) + 2}
                BY <2>0, <2>1 DEF CountInv
            <4> HIDE DEF TypeOK
            <4> QED
                BY <3>1, <4>1 DEF Bytes
        <3>5. ASSUME NEW i \in DOMAIN chunks'[r]
              PROVE  chunks'[r][i] # {} /\ chunks'[r][i] \subseteq {i, i + 1}
            <4>1. i \in 1 .. Len(chunks[r]) + 1
                BY <1>0, <3>1
            <4>2. CASE i \in 1 .. Len(chunks[r])
                BY <3>1, <4>2 DEF CountInv
            <4>3. CASE i = Len(chunks[r]) + 1
                <5>1. chunks'[r][i] = c
                    BY <3>1, <4>3
                <5> HIDE DEF TypeOK
                <5> QED
                    BY <1>0, <3>4, <4>3, <5>1
            <4> HIDE DEF TypeOK
            <4> QED
                BY <1>0, <4>1, <4>2, <4>3
        <3> QED
            BY <2>0, <3>3, <3>5 DEF CountInv
    <2>2. CASE held[r] # "data"
        <3>1. chunks' = chunks /\ InHand(held[r]) = 0
            BY <1>5, <2>2, <2>0 DEF SenderSends, InHand, Kinds
        <3> HIDE DEF TypeOK
        <3> QED
            BY <2>0, <2>2, <3>1 DEF CountInv, Live
    <2> QED
        BY <2>1, <2>2
<1> QED
    BY <1>1, <1>2, <1>4, <1>5 DEF SenderStep, SenderOwnStep

(* A send on a closed msgChan needs a closed echo whose caller still reads: so *)
(* the context is done, and the link with it.                                  *)
LEMMA LossStep == IInv /\ LossInv /\ [Next]_vars => LossInv'
<1> SUFFICES ASSUME IInv, LossInv, [Next]_vars PROVE LossInv'
    OBVIOUS
<1> USE DEF callVars, echoVars, senderVars, wireVars
<1>1. CASE LinkBreaks \/ LoopFails \/ ProcessExits \/ UNCHANGED vars
    <2>1. UNCHANGED <<caller, held, buf, slice, chunks>> /\ (Live' => Live)
        BY <1>1 DEF LinkBreaks, LoopFails, ProcessExits, vars, Live
    <2>2. \A r \in Request : CountInv(r)'
        BY <2>1 DEF LossInv, CountInv
    <2>3. (ctx = "done" => link = "down")' /\ PanicNeedsLostLink'
        BY <1>1 DEF LinkBreaks, LoopFails, ProcessExits, vars, LossInv, PanicNeedsLostLink,
            IInv, TypeOK
    <2> QED
        BY <2>2, <2>3 DEF LossInv
<1>2. ASSUME NEW r \in Request, Step(r)
      PROVE  LossInv'
    <2>1. UNCHANGED <<link, ctx>>
        BY <1>2 DEF Step, LoopReceives, CallerStep, DoFails, DoReturns, CheckContext,
            BodyFills, ReadsData, ReadsNothing, ReadsOn, ReadEnds, ReadFails, DataPanics,
            FailPanics, Panics, Shutdown, Ends, SenderStep, SenderOwnStep, SenderOpens,
            SenderFails, HandHeaders, HandData, HandDone, HandCancel, HandFailure,
            HandShutdown, Hand, SenderSends, SenderDrops, SenderCloses, SenderReturns
    <2>2. PanicNeedsLostLink'
        <3>1. CASE DataPanics(r) \/ FailPanics(r)
            <4>1. closed[r] /\ caller[r] \in {"fill", "check"}
                BY <3>1 DEF DataPanics, FailPanics
            <4>2. ~Live
                BY <4>1 DEF IInv, SenderInv
            <4>3. link = "down"
                BY <4>2 DEF LossInv, Live, IInv, TypeOK
            <4> QED
                BY <2>1, <4>3 DEF PanicNeedsLostLink
        <3>2. CASE ~(DataPanics(r) \/ FailPanics(r))
            <4>1. process' = process
                BY <1>2, <3>2 DEF Step, LoopReceives, CallerStep, DoFails, DoReturns,
                    CheckContext, BodyFills, ReadsData, ReadsNothing, ReadsOn, ReadEnds,
                    ReadFails, Shutdown, Ends, SenderStep, SenderOwnStep, SenderOpens,
                    SenderFails, HandHeaders, HandData, HandDone, HandCancel, HandFailure,
                    HandShutdown, Hand, SenderSends, SenderDrops, SenderCloses, SenderReturns
            <4> QED
                BY <2>1, <4>1 DEF LossInv, PanicNeedsLostLink
        <3> QED
            BY <3>1, <3>2
    <2>3. ASSUME NEW q \in Request PROVE CountInv(q)'
        <3>1. CASE q = r
            BY <1>2, <3>1, CallerCounts, SenderCounts DEF IInv, LossInv, Step
        <3>2. CASE q # r
            BY <1>2, <2>1, <3>2, CountOthers DEF IInv, LossInv, CountInv, Live
        <3> QED
            BY <3>1, <3>2
    <2> QED
        BY <2>1, <2>2, <2>3 DEF LossInv
<1> QED
    BY <1>1, <1>2 DEF Next, Step

LEMMA LossInvariance == Spec => []LossInv
<1>1. Init => LossInv
    BY DEF Init, LossInv, PanicNeedsLostLink, CountInv, InHand
<1> QED
    BY <1>1, LossStep, Invariance, PTL DEF Spec

(* An echo never takes the agent down while its link is up: no call of Data or *)
(* Fail follows the Done or Cancel that closed it.                             *)
THEOREM OnlyLostAgentsPanic == Spec => []PanicNeedsLostLink
<1>1. LossInv => PanicNeedsLostLink
    BY DEF LossInv
<1> QED
    BY <1>1, LossInvariance, PTL

(* Where the shared buffer is refilled too early, in part or wholly, what goes  *)
(* out are bytes of the chunk meant and of the next, and of no later one, for   *)
(* any number of chunks.                                                        *)
THEOREM BufferAtMostOneAhead == Spec => []AtMostOneAhead
<1>1. LossInv => AtMostOneAhead
    BY DEF LossInv, CountInv, AtMostOneAhead
<1> QED
    BY <1>1, LossInvariance, PTL
=============================================================================
