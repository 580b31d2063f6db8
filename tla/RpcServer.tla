----------------------------- MODULE RpcServer -----------------------------
(***************************************************************************)
(* The inbound half of JSONRPCDispatcher, as both servers run it over      *)
(* stdio: the read loop, a handler task per request, cancellation by the   *)
(* client and the end of the connection.  A handler that runs a tool waits *)
(* for a worker thread that no cancellation interrupts.                    *)
(***************************************************************************)
EXTENDS RpcWire

VARIABLES
    loop,       \* "reading", "ending" (run() waits for its handlers), "leaving"
                \* (stdio_server waits for its writer), "closed"
    inFlight,   \* inFlight[id]: _in_flight, the handler a cancel of this id hits
    handler,    \* handler[c]: where _handle_request stands
    asked,      \* asked[c]: cancel_requested
    frames      \* frames[c]: history, frames written in answer to c

serverVars == <<loop, inFlight, handler, asked, frames>>

\* "queued" can be interrupted, "running" is in its worker thread; "writing"
\* is _write_result or _write_error, "closing" the error of a shutdown.
HandlerStages == {"none", "queued", "running", "writing", "closing", "settled"}

ServerTypeOK ==
    /\ loop \in {"reading", "ending", "leaving", "closed"}
    /\ inFlight \in [Ids -> Calls \union {None}]
    /\ handler \in [Calls -> HandlerStages]
    /\ asked \in [Calls -> BOOLEAN]
    /\ frames \in [Calls -> Nat]

ServerInit ==
    /\ loop = "reading"
    /\ inFlight = [id \in Ids |-> None]
    /\ handler = [c \in Calls |-> "none"]
    /\ asked = [c \in Calls |-> FALSE]
    /\ frames = [c \in Calls |-> 0]

\* on_request has not returned.
Handling(c) == handler[c] \in {"queued", "running"}

Settled(c) == handler[c] \in {"none", "settled"}

\* Mutant: every request is awaited in the read loop.
ReadyAlone == loop = "reading" /\ \A c \in Calls : Settled(c)

\* An inline handler parks the loop.
Ready == loop = "reading" /\ \A c \in Inline : Settled(c)

Becomes(c, stage) == handler' = [handler EXCEPT ![c] = stage]

\* Mutant: no identity guard, a newer entry under the same id goes too.
ForgetId(c) == inFlight' = [inFlight EXCEPT ![IdOf[c]] = None]

\* The finally clause of _handle_request.
Forget(c) ==
    inFlight' = [inFlight EXCEPT ![IdOf[c]] = IF @ = c THEN None ELSE @]

-----------------------------------------------------------------------------
(* The read loop *)

\* A duplicate id overwrites the entry of the request before it.
ReadRequest(c) ==
    /\ Ready
    /\ toServer # <<>> /\ Head(toServer) = Frame("request", c)
    /\ toServer' = Tail(toServer)
    /\ inFlight' = [inFlight EXCEPT ![IdOf[c]] = c]
    /\ Becomes(c, "queued")
    /\ UNCHANGED <<loop, asked, frames, toClient>>

\* It hits whatever is in flight under the id of c.
ReadCancel(c) ==
    /\ Ready
    /\ toServer # <<>> /\ Head(toServer) = Frame("cancelled", c)
    /\ toServer' = Tail(toServer)
    /\ asked' = IF inFlight[IdOf[c]] # None
                THEN [asked EXCEPT ![inFlight[IdOf[c]]] = TRUE] ELSE asked
    /\ UNCHANGED <<loop, inFlight, handler, frames, toClient>>

\* End of file: run() cancels its handlers and waits for them.
ReadEnd ==
    /\ Ready
    /\ toServer = <<>>
    /\ loop' = "ending"
    /\ UNCHANGED <<inFlight, handler, asked, frames, wireVars>>

\* run() returns; the process is not over yet.
ServerCloses ==
    /\ loop = "ending"
    /\ \A c \in Calls : Settled(c)
    /\ loop' = "leaving"
    /\ UNCHANGED <<inFlight, handler, asked, frames, wireVars>>

\* The task group of stdio_server joins stdout_writer: the last place of a full
\* pipe is the frame that its thread is writing, and nothing interrupts that.
ServerLeaves ==
    /\ loop = "leaving"
    /\ ClientHasRoom
    /\ loop' = "closed"
    /\ UNCHANGED <<inFlight, handler, asked, frames, wireVars>>

\* The process is killed.
ServerDies ==
    /\ loop # "closed"
    /\ loop' = "closed"
    /\ inFlight' = [id \in Ids |-> None]
    /\ handler' = [c \in Calls |-> IF handler[c] = "none" THEN "none" ELSE "settled"]
    /\ UNCHANGED <<asked, frames, wireVars>>

-----------------------------------------------------------------------------
(* _handle_request *)

HandlerRuns(c) ==
    /\ handler[c] = "queued"
    /\ Becomes(c, "running")
    /\ UNCHANGED <<loop, inFlight, asked, frames, wireVars>>

\* Mutant: the entry is removed once the answer is written.
HandlerReturnsEarly(c) ==
    /\ Handling(c)
    /\ Becomes(c, IF asked[c] \/ loop = "ending" THEN "settled" ELSE "writing")
    /\ UNCHANGED <<loop, inFlight, asked, frames, wireVars>>

\* on_request returns or raises.  A cancelled request is not answered, and
\* after the end of the connection the write raises before it delivers.
HandlerReturns(c) ==
    /\ Handling(c)
    /\ Forget(c)
    /\ Becomes(c, IF asked[c] \/ loop = "ending" THEN "settled" ELSE "writing")
    /\ UNCHANGED <<loop, asked, frames, wireVars>>

\* The cancellation is raised in the handler: while it is queued, or at its
\* next await after the thread.  The client is told if it was not its wish.
HandlerInterrupted(c) ==
    /\ Handling(c)
    /\ asked[c] \/ loop = "ending"
    /\ Forget(c)
    /\ Becomes(c, IF asked[c] THEN "settled" ELSE "closing")
    /\ UNCHANGED <<loop, asked, frames, wireVars>>

Delivers(c, kind) ==
    /\ ClientHasRoom
    /\ toClient' = Append(toClient, Frame(kind, c))
    /\ frames' = [frames EXCEPT ![c] = @ + 1]
    /\ UNCHANGED toServer

WriteAnswer(c) ==
    /\ handler[c] = "writing"
    /\ Delivers(c, "answer")
    /\ Becomes(c, "settled")
    /\ UNCHANGED <<loop, inFlight, asked>>

\* Mutant: answer_write_started is set after the write.
AnswerInterruptedUnmarked(c) ==
    /\ loop = "ending"
    /\ handler[c] = "writing"
    /\ Delivers(c, "answer") \/ UNCHANGED <<frames, wireVars>>
    /\ Becomes(c, "closing")
    /\ UNCHANGED <<loop, inFlight, asked>>

\* Cancelled in the middle of the write, which may have delivered.
AnswerInterrupted(c) ==
    /\ loop = "ending"
    /\ handler[c] = "writing"
    /\ Delivers(c, "answer") \/ UNCHANGED <<frames, wireVars>>
    /\ Becomes(c, "settled")
    /\ UNCHANGED <<loop, inFlight, asked>>

\* Mutant: the write of the shutdown error has no bound.
WriteClosedForever(c) ==
    /\ handler[c] = "closing"
    /\ Delivers(c, "closed")
    /\ Becomes(c, "settled")
    /\ UNCHANGED <<loop, inFlight, asked>>

\* Bounded by _SHUTDOWN_WRITE_TIMEOUT.
WriteClosed(c) ==
    /\ handler[c] = "closing"
    /\ \/ Delivers(c, "closed")
       \/ ~ClientHasRoom /\ UNCHANGED <<frames, wireVars>>
    /\ Becomes(c, "settled")
    /\ UNCHANGED <<loop, inFlight, asked>>
=============================================================================
