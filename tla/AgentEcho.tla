------------------------------ MODULE AgentEcho ------------------------------
(***************************************************************************)
(* The agent's side of the tunnel: the receive loop (waitForRequest,       *)
(* app/client/main.go), the goroutine that performs a request              *)
(* (ExecuteHTTPRequest and RunHTTPRequest,                                 *)
(* internal/serviceconfig/generic_endpoint.go), and the AgentEcho          *)
(* (app/client/echo.go) with its sender goroutine RunDataSender.           *)
(*                                                                         *)
(* The caller of an echo is one goroutine: the receive loop itself when    *)
(* the service is not configured, a goroutine of its own otherwise.  So    *)
(* the echo's mutex is never contended and is left out.  msgChan is        *)
(* unbuffered: a send and the sender's receive are one action (Hand), and  *)
(* a caller that waits in a send is in a state named after the message.    *)
(* The sender then marshals and writes the message in an action of its     *)
(* own (SenderSends): meanwhile the caller goes on.                        *)
(*                                                                         *)
(* The read buffer is shared, unsynchronised: echo.Data hands over a slice *)
(* of it, and the next Body.Read writes to it (BodyFills) while the sender *)
(* may be marshalling that slice.  The bytes of a data message are then of *)
(* either read or of both, in the length the slice had: chunks keeps, for  *)
(* each data message, the set of the reads whose bytes it shows.           *)
(*                                                                         *)
(* Send waits for flow control, and stream.CloseAndRecv for the handler of *)
(* the controller: how long is not this module's to say (Tunnel says it).  *)
(***************************************************************************)
EXTENDS Naturals, Sequences

CONSTANTS
    Request,    \* the requests the controller sends
    Known,      \* those whose service the agent has configured
    MaxChunks   \* bound on the reads of a response body that return data

ASSUME KnownAssumption == Known \subseteq Request
ASSUME ChunkAssumption == MaxChunks \in Nat

VARIABLES
    process,        \* the agent process
    link,           \* the connection to the controller
    ctx,            \* the context of waitForRequest
    loop,           \* where the receive loop is: in Recv, or in the echo of a request
    caller,         \* where the caller of the request's echo is
    err,            \* the local variable err of the read loop
    buf,            \* the last read that put data into the read buffer, 0 for none
    headersSent,    \* AgentEcho.headersSent
    closed,         \* AgentEcho.closed; msgChan is closed with it, after one message
    sender,         \* where RunDataSender is
    held,           \* the message it holds
    slice,          \* for a data message: the reads whose bytes may be in its slice
    wire,           \* the kinds of message sent to the controller
    chunks          \* of the data messages among them, the reads whose bytes they show

callVars == <<caller, err, buf>>
echoVars == <<headersSent, closed>>
senderVars == <<sender, held, slice>>
wireVars == <<wire, chunks>>
vars == <<process, link, ctx, loop, callVars, echoVars, senderVars, wireVars>>

\* Caller states in which it waits to hand a message to the sender.
Message == [headers |-> "headers", data |-> "data", done |-> "done", cancel |-> "cancel",
            failHeaders |-> "headers", failDone |-> "done", shutdownDone |-> "done"]
Sending == DOMAIN Message
CallerStates == Sending \cup {"none", "do", "loop", "read", "fill", "check", "shutdown", "end"}
Kinds == {"headers", "data", "done", "cancel"}
Reads == 0..MaxChunks     \* the reads of a body that return data, 0 for none

TypeOK ==
    /\ process \in {"running", "exited", "panicked"}
    /\ link \in {"up", "down"}
    /\ ctx \in {"live", "done"}
    /\ loop \in {"recv", "returned"} \cup (Request \ Known)
    /\ caller \in [Request -> CallerStates]
    /\ err \in [Request -> {"nil", "eof", "error"}]
    /\ buf \in [Request -> Reads]
    /\ headersSent \in [Request -> BOOLEAN]
    /\ closed \in [Request -> BOOLEAN]
    /\ sender \in [Request -> {"none", "opening", "select", "send", "closing", "returned",
                              "dead"}]
    /\ held \in [Request -> Kinds \cup {"none"}]
    /\ slice \in [Request -> SUBSET Reads]
    /\ wire \in [Request -> Seq(Kinds \cup {"eof"})]
    /\ chunks \in [Request -> Seq(SUBSET Reads)]

Init ==
    /\ process = "running"
    /\ link = "up"
    /\ ctx = "live"
    /\ loop = "recv"
    /\ caller = [r \in Request |-> "none"]
    /\ err = [r \in Request |-> "nil"]
    /\ buf = [r \in Request |-> 0]
    /\ headersSent = [r \in Request |-> FALSE]
    /\ closed = [r \in Request |-> FALSE]
    /\ sender = [r \in Request |-> "none"]
    /\ held = [r \in Request |-> "none"]
    /\ slice = [r \in Request |-> {}]
    /\ wire = [r \in Request |-> <<>>]
    /\ chunks = [r \in Request |-> <<>>]

Goes(r, c) == caller' = [caller EXCEPT ![r] = c]

-----------------------------------------------------------------------------
(* The process and its receive loop. *)

\* Mutant: the loop performs the request itself, without a goroutine.
LoopReceivesInline(r) ==
    /\ loop = "recv"
    /\ link = "up"
    /\ caller[r] = "none"
    /\ sender' = [sender EXCEPT ![r] = "opening"]
    /\ Goes(r, IF r \in Known THEN "do" ELSE "failHeaders")
    /\ loop' = r
    /\ UNCHANGED <<process, link, ctx, err, buf, echoVars, held, slice, wireVars>>

\* A request arrives: MakeEcho starts its sender.  A service that is not
\* configured is failed by the loop itself, which waits for that to be sent.
LoopReceives(r) ==
    /\ loop = "recv"
    /\ link = "up"
    /\ caller[r] = "none"
    /\ sender' = [sender EXCEPT ![r] = "opening"]
    /\ \/ r \in Known /\ Goes(r, "do") /\ UNCHANGED loop
       \/ r \notin Known /\ Goes(r, "failHeaders") /\ loop' = r
    /\ UNCHANGED <<process, link, ctx, err, buf, echoVars, held, slice, wireVars>>

LinkBreaks ==
    /\ link = "up"
    /\ link' = "down"
    /\ UNCHANGED <<process, ctx, loop, callVars, echoVars, senderVars, wireVars>>

\* waitForRequest returns, and cancels the context of all that it started.
LoopFails ==
    /\ loop = "recv"
    /\ link = "down"
    /\ loop' = "returned"
    /\ ctx' = "done"
    /\ UNCHANGED <<process, link, callVars, echoVars, senderVars, wireVars>>

\* The receive loop has returned, or a ping has failed: main returns.
ProcessExits ==
    /\ link = "down"
    /\ process' = "exited"
    /\ UNCHANGED <<link, ctx, loop, callVars, echoVars, senderVars, wireVars>>

-----------------------------------------------------------------------------
(* RunHTTPRequest. *)

\* The request could not be built or performed, or its response has headers
\* that cannot be converted: echo.Fail, which sends headers of its own first.
DoFails(r) ==
    /\ caller[r] = "do"
    /\ Goes(r, "failHeaders")
    /\ UNCHANGED <<process, link, ctx, loop, err, buf, echoVars, senderVars, wireVars>>

DoReturns(r) ==
    /\ caller[r] = "do"
    /\ Goes(r, "headers")
    /\ UNCHANGED <<process, link, ctx, loop, err, buf, echoVars, senderVars, wireVars>>

\* The select at the top of the read loop: a context that is done is canceled
\* (once), and the loop goes on to read.
CheckContext(r) ==
    /\ caller[r] = "loop"
    /\ IF ctx = "done" /\ ~closed[r]
         THEN closed' = [closed EXCEPT ![r] = TRUE] /\ Goes(r, "cancel")
         ELSE Goes(r, "read") /\ UNCHANGED closed
    /\ UNCHANGED <<process, link, ctx, loop, err, buf, headersSent, senderVars, wireVars>>

\* Body.Read begins to fill the one buffer of the loop, of which the sender may
\* still be marshalling a slice.
BodyFills(r) ==
    /\ caller[r] = "read"
    /\ buf[r] < MaxChunks
    /\ buf' = [buf EXCEPT ![r] = @ + 1]
    /\ slice' = [slice EXCEPT ![r] = IF held[r] = "data" THEN @ \cup {buf'[r]} ELSE @]
    /\ Goes(r, "fill")
    /\ UNCHANGED <<process, link, ctx, loop, err, echoVars, sender, held, wireVars>>

\* Mutant: data that comes together with the end of the body is not passed on.
ReadsDataButNotTheLast(r) ==
    /\ caller[r] = "fill"
    /\ ~closed[r]
    /\ \E e \in {"nil", "eof", "error"} :
        /\ err' = [err EXCEPT ![r] = e]
        /\ Goes(r, IF e = "eof" THEN "check" ELSE "data")
    /\ UNCHANGED <<process, link, ctx, loop, buf, echoVars, senderVars, wireVars>>

\* Body.Read returns data; echo.Data passes a slice of the buffer on, uncopied.
ReadsData(r) ==
    /\ caller[r] = "fill"
    /\ ~closed[r]
    /\ \E e \in {"nil", "eof", "error"} : err' = [err EXCEPT ![r] = e]
    /\ Goes(r, "data")
    /\ UNCHANGED <<process, link, ctx, loop, buf, echoVars, senderVars, wireVars>>

ReadsNothing(r) ==
    /\ caller[r] = "read"
    /\ \E e \in {"eof", "error"} : err' = [err EXCEPT ![r] = e]
    /\ Goes(r, "check")
    /\ UNCHANGED <<process, link, ctx, loop, buf, echoVars, senderVars, wireVars>>

\* A send on the msgChan that Cancel has closed.
Panics == process' = "panicked" /\ UNCHANGED <<link, ctx, loop, callVars, echoVars,
                                               senderVars, wireVars>>

DataPanics(r) ==
    /\ caller[r] = "fill"
    /\ closed[r]
    /\ Panics

\* Fail does not look at closed.
FailPanics(r) ==
    /\ caller[r] = "check"
    /\ err[r] = "error"
    /\ closed[r]
    /\ Panics

ReadsOn(r) ==
    /\ caller[r] = "check"
    /\ err[r] = "nil"
    /\ Goes(r, "loop")
    /\ UNCHANGED <<process, link, ctx, loop, err, buf, echoVars, senderVars, wireVars>>

\* Done closes the echo, unless it is closed.
ReadEnds(r) ==
    /\ caller[r] = "check"
    /\ err[r] = "eof"
    /\ closed' = [closed EXCEPT ![r] = TRUE]
    /\ Goes(r, IF closed[r] THEN "shutdown" ELSE "done")
    /\ UNCHANGED <<process, link, ctx, loop, err, buf, headersSent, senderVars, wireVars>>

\* Mutant: Fail sends headers whether or not the response had its own.
ReadFailsHeadersAgain(r) ==
    /\ caller[r] = "check"
    /\ err[r] = "error"
    /\ ~closed[r]
    /\ Goes(r, "failHeaders")
    /\ UNCHANGED <<process, link, ctx, loop, err, buf, echoVars, senderVars, wireVars>>

\* Mutant: a body that cannot be read to its end is canceled.
ReadFailsCancels(r) ==
    /\ caller[r] = "check"
    /\ err[r] = "error"
    /\ ~closed[r]
    /\ Goes(r, "cancel")
    /\ UNCHANGED <<process, link, ctx, loop, err, buf, echoVars, senderVars, wireVars>>

\* Fail after the headers sends a Done, and leaves the echo open.
ReadFails(r) ==
    /\ caller[r] = "check"
    /\ err[r] = "error"
    /\ ~closed[r]
    /\ Goes(r, IF headersSent[r] THEN "failDone" ELSE "failHeaders")
    /\ UNCHANGED <<process, link, ctx, loop, err, buf, echoVars, senderVars, wireVars>>

\* The caller is through with the echo, and the loop, if it was the caller,
\* returns to Recv.
Ends(r) ==
    /\ Goes(r, "end")
    /\ loop' = IF loop = r THEN "recv" ELSE loop

\* Mutant: Shutdown does nothing, as the controller's does.
ShutdownIdle(r) ==
    /\ caller[r] = "shutdown"
    /\ Ends(r)
    /\ UNCHANGED <<process, link, ctx, err, buf, echoVars, senderVars, wireVars>>

Shutdown(r) ==
    /\ caller[r] = "shutdown"
    /\ closed' = [closed EXCEPT ![r] = TRUE]
    /\ \/ closed[r] /\ Ends(r)
       \/ ~closed[r] /\ Goes(r, "shutdownDone") /\ UNCHANGED loop
    /\ UNCHANGED <<process, link, ctx, err, buf, headersSent, senderVars, wireVars>>

-----------------------------------------------------------------------------
(* RunDataSender. *)

SenderOpens(r) ==
    /\ sender[r] = "opening"
    /\ link = "up" /\ ctx = "live"
    /\ sender' = [sender EXCEPT ![r] = "select"]
    /\ UNCHANGED <<process, link, ctx, loop, callVars, echoVars, held, slice, wireVars>>

\* The stream cannot be opened, or its first message, the stream's identifier,
\* cannot be sent: nobody will receive from msgChan.
SenderFails(r) ==
    /\ sender[r] = "opening"
    /\ link = "down" \/ ctx = "done"
    /\ sender' = [sender EXCEPT ![r] = "dead"]
    /\ UNCHANGED <<process, link, ctx, loop, callVars, echoVars, held, slice, wireVars>>

\* The caller in state c hands its message over and goes on to state d.
Hand(r, c, d) ==
    /\ caller[r] = c
    /\ sender[r] = "select"
    /\ sender' = [sender EXCEPT ![r] = "send"]
    /\ held' = [held EXCEPT ![r] = Message[c]]
    /\ slice' = [slice EXCEPT ![r] = IF c = "data" THEN {buf[r]} ELSE {}]
    /\ Goes(r, d)
    /\ UNCHANGED <<process, link, ctx, err, buf, closed, wireVars>>

HandHeaders(r) ==
    /\ Hand(r, "headers", "loop")
    /\ headersSent' = [headersSent EXCEPT ![r] = TRUE]
    /\ UNCHANGED loop

HandData(r) == Hand(r, "data", "check") /\ UNCHANGED <<loop, headersSent>>

\* Mutant: after Done the read loop goes on, as it does after Cancel.
HandDoneReadsOn(r) == Hand(r, "done", "loop") /\ UNCHANGED <<loop, headersSent>>

HandDone(r) == Hand(r, "done", "shutdown") /\ UNCHANGED <<loop, headersSent>>

\* RunHTTPRequest stays in its loop after Cancel, and reads on.
HandCancel(r) == Hand(r, "cancel", "read") /\ UNCHANGED <<loop, headersSent>>

HandFailure(r) ==
    /\ Hand(r, "failHeaders", "failDone") \/ Hand(r, "failDone", "shutdown")
    /\ UNCHANGED <<loop, headersSent>>

HandShutdown(r) ==
    /\ Hand(r, "shutdownDone", "end")
    /\ loop' = IF loop = r THEN "recv" ELSE loop
    /\ UNCHANGED headersSent

\* The bytes of a data message: those of one of the reads that may be in its
\* slice, or of several.
Bytes(r) == (SUBSET slice[r]) \ {{}}

\* Mutant: the sender repeats a message although the first Send went through.
SenderSendsTwice(r) ==
    /\ sender[r] = "send"
    /\ link = "up" /\ ctx = "live"
    /\ wire' = [wire EXCEPT ![r] = @ \o <<held[r], held[r]>>]
    /\ \/ /\ held[r] = "data"
          /\ \E c \in Bytes(r) : chunks' = [chunks EXCEPT ![r] = @ \o <<c, c>>]
       \/ held[r] # "data" /\ UNCHANGED chunks
    /\ sender' = [sender EXCEPT ![r] = "select"]
    /\ held' = [held EXCEPT ![r] = "none"]
    /\ slice' = [slice EXCEPT ![r] = {}]
    /\ UNCHANGED <<process, link, ctx, loop, callVars, echoVars>>

\* stream.Send marshals the message at some moment up to now, while the caller may
\* be reading, and then waits to write it: data is what the buffer held meanwhile.
SenderSends(r) ==
    /\ sender[r] = "send"
    /\ link = "up" /\ ctx = "live"
    /\ wire' = [wire EXCEPT ![r] = Append(@, held[r])]
    /\ \/ /\ held[r] = "data"
          /\ \E c \in Bytes(r) : chunks' = [chunks EXCEPT ![r] = Append(@, c)]
       \/ held[r] # "data" /\ UNCHANGED chunks
    /\ sender' = [sender EXCEPT ![r] = "select"]
    /\ held' = [held EXCEPT ![r] = "none"]
    /\ slice' = [slice EXCEPT ![r] = {}]
    /\ UNCHANGED <<process, link, ctx, loop, callVars, echoVars>>

\* A Send that fails is logged, and the sender goes on.
SenderDrops(r) ==
    /\ sender[r] = "send"
    /\ link = "down" \/ ctx = "done"
    /\ sender' = [sender EXCEPT ![r] = "select"]
    /\ held' = [held EXCEPT ![r] = "none"]
    /\ slice' = [slice EXCEPT ![r] = {}]
    /\ UNCHANGED <<process, link, ctx, loop, callVars, echoVars, wireVars>>

\* msgChan is closed: the sender closes its side of the stream, in CloseAndRecv.
SenderCloses(r) ==
    /\ sender[r] = "select"
    /\ closed[r] /\ caller[r] \notin Sending
    /\ sender' = [sender EXCEPT ![r] = "closing"]
    /\ wire' = IF link = "up" /\ ctx = "live"
                 THEN [wire EXCEPT ![r] = Append(@, "eof")]
                 ELSE wire
    /\ UNCHANGED <<process, link, ctx, loop, callVars, echoVars, held, slice, chunks>>

\* CloseAndRecv returns what the controller's handler returned, or an error.
SenderReturns(r) ==
    /\ sender[r] = "closing"
    /\ sender' = [sender EXCEPT ![r] = "returned"]
    /\ UNCHANGED <<process, link, ctx, loop, callVars, echoVars, held, slice, wireVars>>

-----------------------------------------------------------------------------

CallerStep(r) ==
    \/ DoFails(r) \/ DoReturns(r)
    \/ CheckContext(r) \/ BodyFills(r) \/ ReadsData(r) \/ ReadsNothing(r)
    \/ ReadsOn(r) \/ ReadEnds(r) \/ ReadFails(r) \/ DataPanics(r) \/ FailPanics(r)
    \/ Shutdown(r)

\* What the sender does without waiting for the controller.
SenderOwnStep(r) ==
    \/ SenderOpens(r) \/ SenderFails(r)
    \/ HandHeaders(r) \/ HandData(r) \/ HandDone(r) \/ HandCancel(r)
    \/ HandFailure(r) \/ HandShutdown(r)
    \/ SenderDrops(r) \/ SenderCloses(r)

SenderStep(r) == SenderOwnStep(r) \/ SenderSends(r) \/ SenderReturns(r)

Next ==
    /\ process = "running"
    /\ \/ LinkBreaks \/ LoopFails \/ ProcessExits
       \/ \E r \in Request : LoopReceives(r) \/ CallerStep(r) \/ SenderStep(r)

Spec == Init /\ [][Next]_vars

\* Goroutines run, the HTTP server behind the agent answers, and its body ends.
\* Nothing is assumed of a Send or a CloseAndRecv on a link that is up.
Fairness ==
    \A r \in Request :
        /\ WF_vars(process = "running" /\ CallerStep(r))
        /\ WF_vars(process = "running" /\ SenderOwnStep(r))

FairSpec == Spec /\ Fairness

-----------------------------------------------------------------------------
(* What the agent promises. *)

\* Whatever fails or breaks, and whether a request ends by Done, Fail, Cancel or
\* Shutdown, each stream carries messages in the order DataFlow allows.
Flow == INSTANCE DataFlow WITH wire <- wire

WireContract == Flow!Spec

\* Every request the agent has received gets an end on its stream, and the
\* receive loop gets back to Recv, unless the connection breaks, or the controller
\* leaves the sender in a Send or in CloseAndRecv for ever.  Nothing else holds an
\* echo up: not the unbuffered msgChan, nor its close, nor which of Done, Fail and
\* Shutdown comes first.
AnswerEnds ==
    \A r \in Request :
        caller[r] # "none" ~>
            \/ link = "down"
            \/ caller[r] = "end" /\ loop # r /\ sender[r] = "returned"
            \/ [](sender[r] \in {"send", "closing"})

\* A send on a closed msgChan takes the agent down only when its connection is
\* lost already, and with it all that the process was good for: while the link is
\* up no call of Data or Fail comes after the Done or Cancel that closed the echo
\* (CheckContext, the end of the read loop, Shutdown).
PanicNeedsLostLink == process = "panicked" => link = "down"

\* What can go out in place of a chunk, the buffer being shared with the sender,
\* are bytes of that chunk and of the one read next, and of no other: the i-th data
\* message shows nothing but the i-th and the next read of the body (msgChan is
\* unbuffered, and the read loop waits in it before it reads a second time).
AtMostOneAhead ==
    \A r \in Request : \A i \in DOMAIN chunks[r] :
        chunks[r][i] # {} /\ chunks[r][i] \subseteq {i, i + 1}

\* http_echo.go:31-33: "Fail() can be called at any time, and it will ensure that
\* the RPC level protocol is properly handled."  So no call of Fail, after which
\* the caller would be past its check of the read, takes the agent down.
FailAtAnyTime ==
    \A r \in Request :
        process = "panicked" => ~(caller[r] = "check" /\ err[r] = "error" /\ closed[r])

\* generic_endpoint.go:211-212: ExecuteHTTPRequest "will send the data back over
\* the tunnel": the chunks sent are the chunks read, each once and in order.
DataSentBack ==
    \A r \in Request : \A i \in DOMAIN chunks[r] : chunks[r][i] = {i}
=============================================================================
