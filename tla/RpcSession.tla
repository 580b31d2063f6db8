----------------------------- MODULE RpcSession -----------------------------
(***************************************************************************)
(* One connection: a client and a server process over two pipes.  A tool's *)
(* thread returns when it likes; the client leaves, and the server process *)
(* dies, at any time.                                                      *)
(***************************************************************************)
EXTENDS RpcClient, RpcServer

vars == <<wireVars, clientVars, serverVars>>

Init == WireInit /\ ClientInit /\ ServerInit

TypeOK == WireTypeOK /\ ClientTypeOK /\ ServerTypeOK

\* The server has seen the end of its input, which the client's transport
\* closes, or has died.
Broken == loop # "reading"

-----------------------------------------------------------------------------
CallBegins(c) == (Issue(c) \/ Refuse(c)) /\ UNCHANGED serverVars

CallGoesOn(c) == CallerSteps(c, Broken) /\ UNCHANGED serverVars

CallIsCancelled(c) == CallerCancels(c) /\ UNCHANGED serverVars

ClientRuns == ClientReads /\ UNCHANGED serverVars

\* The application leaves, or sees the end of the server's output.
ClientLeaves == ClientEnds /\ UNCHANGED serverVars

ServerReads ==
    /\ \/ \E c \in Calls : ReadRequest(c) \/ ReadCancel(c)
       \/ client = "gone" /\ ReadEnd
    /\ UNCHANGED clientVars

ServerEnds == (ServerCloses \/ ServerLeaves) /\ UNCHANGED clientVars

ServerIsKilled == ServerDies /\ UNCHANGED clientVars

HandlerBegins(c) == HandlerRuns(c) /\ UNCHANGED clientVars

ToolReturns(c) == HandlerReturns(c) /\ UNCHANGED clientVars

HandlerIsInterrupted(c) == HandlerInterrupted(c) /\ UNCHANGED clientVars

HandlerWrites(c) ==
    /\ WriteAnswer(c) \/ AnswerInterrupted(c) \/ WriteClosed(c)
    /\ UNCHANGED clientVars

\* Every call has returned and the server is gone.
AllOver ==
    /\ client = "gone" /\ loop = "closed"
    /\ \A c \in Calls : caller[c] = "done"
    /\ UNCHANGED vars

Next ==
    \/ \E c \in Calls :
        \/ CallBegins(c) \/ CallGoesOn(c) \/ CallIsCancelled(c)
        \/ HandlerBegins(c) \/ ToolReturns(c) \/ HandlerIsInterrupted(c) \/ HandlerWrites(c)
    \/ ClientRuns \/ ClientLeaves \/ ServerReads \/ ServerEnds \/ ServerIsKilled
    \/ AllOver

\* The event loops of both processes run, timeouts fire and a handler that is
\* inline or queued goes on; no fairness for a tool in its thread, for callers
\* that give up and for either process going away.
Fairness ==
    /\ WF_vars(ClientRuns)
    /\ WF_vars(ServerReads)
    /\ WF_vars(ServerEnds)
    /\ WF_vars(loop = "closed" /\ toClient = <<>> /\ ClientLeaves)
    /\ \A c \in Calls :
        /\ WF_vars(CallGoesOn(c))
        /\ WF_vars(HandlerWrites(c))
        /\ WF_vars(handler[c] = "queued" /\ HandlerIsInterrupted(c))
        /\ WF_vars(c \in Inline /\ ToolReturns(c))

Spec == Init /\ [][Next]_vars

FairSpec == Spec /\ Fairness

-----------------------------------------------------------------------------
(* Properties *)

\* A request is never answered twice, though a shutdown may interrupt the
\* write of an answer that was already delivered.
AtMostOneAnswer == \A c \in Calls : frames[c] <= 1

\* No frame is written for a request whose cancellation reached its handler,
\* whether that was queued, in its thread or about to write.
CancelledIsSilent == \A c \in Calls : asked[c] => frames[c] = 0

\* A request that its caller still waits for can be cancelled as long as its
\* handler works: no handler of an older request with the same id takes the
\* entry away, and none overwrites it.
WantedIsCancellable ==
    \A c \in Calls : Waits(c) /\ Handling(c) => inFlight[IdOf[c]] = c

\* A cancellation carries an id that may have been used before and again: it
\* hits no request that its own caller waits for.
WantedIsNotCancelled == \A c \in Calls : asked[c] => ~Waits(c)

\* A caller gets the answer to another request only when that one has its id
\* and returned before it, without its own answer.
OutcomeIsOwn ==
    \A c \in Calls :
        LET d == outcome[c].by
        IN d \notin {c, None} =>
              IdOf[d] = IdOf[c] /\ caller[d] = "done" /\ outcome[d].by # d

\* A call with a timeout returns, whatever the server, the tool of this call
\* and the tools of the others do.
CallerReturns == \A c \in Timed : Waits(c) ~> caller[c] = "done"

\* The tool is in its thread, or the answer to an initialize, for which the
\* read loop is parked, finds no room.
HoldsServer(c) ==
    \/ handler[c] = "running"
    \/ c \in Inline /\ handler[c] = "writing" /\ ~ClientHasRoom

\* run() has returned with the last frame still in the hands of stdout_writer,
\* for a pipe that is full and that nobody reads.
WriterHoldsServer == loop = "leaving" /\ ~ClientHasRoom

\* Once the client is gone the server process ends, unless one of these three
\* holds it: a queued handler does not, nor an answer or an error that finds no
\* room, as long as the writer is not stuck with the frame before it.
ServerFollows ==
    client = "gone" ~>
        loop = "closed" \/ WriterHoldsServer \/ \E c \in Calls : HoldsServer(c)
=============================================================================
