-------------------------- MODULE RpcSession_proofs --------------------------
EXTENDS RpcInvariant, TLAPS

(***************************************************************************)
(* The steps, by what they touch.                                          *)
(***************************************************************************)
\* A caller's step that writes nothing.
CallerOnly(c) ==
    /\ \/ Issue(c) \/ Refuse(c) \/ WriteFails(c, Broken) \/ Wakes(c) \/ TimesOut(c)
       \/ CallerCancels(c) \/ WithdrawGivesUp(c)
    /\ UNCHANGED serverVars

CallerWrites(c) ==
    (WriteRequest(c, Broken) \/ Withdraw(c, Broken)) /\ UNCHANGED serverVars

ClientLoop == (ClientReads \/ ClientEnds) /\ UNCHANGED serverVars

ServerReadsFrame(c) == (ReadRequest(c) \/ ReadCancel(c)) /\ UNCHANGED clientVars

ServerStops == (ReadEnd \/ ServerCloses \/ ServerLeaves \/ ServerDies) /\ UNCHANGED clientVars

HandlerMoves(c) ==
    /\ HandlerRuns(c) \/ HandlerReturns(c) \/ HandlerInterrupted(c)
    /\ UNCHANGED clientVars

LEMMA Steps ==
    ASSUME [Next]_vars
    PROVE  \/ UNCHANGED vars
           \/ \E c \in Calls :
                  \/ CallerOnly(c) \/ CallerWrites(c) \/ ServerReadsFrame(c)
                  \/ HandlerMoves(c) \/ HandlerWrites(c)
           \/ ClientLoop \/ ServerStops
BY DEF Next, CallBegins, CallGoesOn, CallIsCancelled, CallerSteps, ClientRuns, ClientLeaves,
       ServerReads, ServerEnds, ServerIsKilled, HandlerBegins, ToolReturns,
       HandlerIsInterrupted, AllOver, CallerOnly, CallerWrites, ClientLoop, ServerReadsFrame,
       ServerStops, HandlerMoves

LEMMA IdsOfCalls == \A c \in Calls : IdOf[c] \in Ids
BY DEF Ids

(***************************************************************************)
(* Types.                                                                  *)
(***************************************************************************)
LEMMA OutcomeTypes ==
    /\ Closed \in Outcomes /\ NoOutcome \in Outcomes
    /\ \A kind \in {"refused", "timedOut", "cancelled"} : Outcome(kind, None) \in Outcomes
BY DEF Closed, NoOutcome, Outcome, Outcomes

LEMMA ReturnsType ==
    ASSUME ClientTypeOK, NEW c \in Calls, NEW from, NEW got \in Outcomes, Returns(c, from, got)
    PROVE  ClientTypeOK'
BY IdsOfCalls DEF ClientTypeOK, Returns, Goes, CallerStages

Given(c) == {mailbox[c], Closed, Outcome("cancelled", None), Outcome("timedOut", None)}

\* A caller's step that writes nothing.
LEMMA CallerEffects ==
    ASSUME NEW c \in Calls, CallerOnly(c)
    PROVE  /\ UNCHANGED <<wireVars, serverVars>>
           /\ \/ Issue(c)
              \/ Refuse(c)
              \/ /\ \E to \in {"timedOut", "cancelled"} : caller' = [caller EXCEPT ![c] = to]
                 /\ Registered(c)
                 /\ UNCHANGED <<client, pending, mailbox, outcome>>
              \/ Registered(c) /\ \E got \in Given(c) : Returns(c, caller[c], got)
<1> USE DEF CallerOnly, Issue, Refuse, WriteFails, Wakes, TimesOut, CallerCancels,
            WithdrawGivesUp, wireVars
<1>1. CASE Issue(c) \/ Refuse(c)  BY <1>1 DEF Returns
<1>2. CASE WriteFails(c, Broken) \/ Wakes(c) \/ TimesOut(c)
  BY <1>2 DEF Returns, Goes, Registered, Given
<1>3. CASE CallerCancels(c)  BY <1>3 DEF Returns, Goes, Registered, Given
<1>4. CASE WithdrawGivesUp(c)  BY <1>4 DEF Returns, Goes, Registered, Given
<1>5. QED  BY <1>1, <1>2, <1>3, <1>4

LEMMA CallerTypes ==
    ASSUME TypeOK, NEW c \in Calls, CallerOnly(c) \/ CallerWrites(c)
    PROVE  TypeOK'
<1>1. CASE CallerOnly(c)
  <2>1. UNCHANGED <<wireVars, serverVars>>  BY <1>1, CallerEffects
  <2>2. ASSUME Issue(c)  PROVE ClientTypeOK'
    BY <2>2, IdsOfCalls DEF Issue, Goes, TypeOK, ClientTypeOK, CallerStages
  <2>3. ASSUME Refuse(c)  PROVE ClientTypeOK'
    BY <2>3, OutcomeTypes DEF Refuse, Goes, TypeOK, ClientTypeOK, CallerStages
  <2>4. ASSUME NEW to \in {"timedOut", "cancelled"}, caller' = [caller EXCEPT ![c] = to],
               UNCHANGED <<client, pending, mailbox, outcome>>
        PROVE  ClientTypeOK'
    BY <2>4 DEF TypeOK, ClientTypeOK, CallerStages
  <2>5. ASSUME NEW got \in Given(c), Returns(c, caller[c], got)
        PROVE  ClientTypeOK'
    <3>1. got \in Outcomes  BY OutcomeTypes DEF Given, TypeOK, ClientTypeOK
    <3>2. QED  BY <2>5, <3>1, ReturnsType DEF TypeOK
  <2>6. ClientTypeOK'  BY <1>1, <2>2, <2>3, <2>4, <2>5, CallerEffects DEF TypeOK
  <2>7. QED
    BY <2>1, <2>6 DEF TypeOK, WireTypeOK, ServerTypeOK, wireVars, serverVars
<1>2. CASE CallerWrites(c)
  <2>1. Frame("request", c) \in Outgoing /\ Frame("cancelled", c) \in Outgoing
    BY DEF Frame, Outgoing
  <2>2. WireTypeOK'
    <3>1. /\ toClient' = toClient
          /\ \/ toServer' = toServer
             \/ /\ Len(toServer) < RoomToServer
                /\ \E f \in Outgoing : toServer' = Append(toServer, f)
      BY <1>2, <2>1 DEF CallerWrites, WriteRequest, Withdraw, ServerHasRoom
    <3>2. QED  BY <3>1, WireAssumption DEF TypeOK, WireTypeOK
  <2>3. ASSUME WriteRequest(c, Broken)  PROVE ClientTypeOK'
    BY <2>3 DEF WriteRequest, Goes, TypeOK, ClientTypeOK, CallerStages
  <2>4. ASSUME Withdraw(c, Broken)  PROVE ClientTypeOK'
    BY <2>4, OutcomeTypes, ReturnsType DEF Withdraw, TypeOK
  <2>5. ClientTypeOK'  BY <1>2, <2>3, <2>4 DEF CallerWrites, TypeOK
  <2>6. QED  BY <1>2, <2>2, <2>5 DEF CallerWrites, TypeOK, ServerTypeOK, serverVars
<1>3. QED  BY <1>1, <1>2

LEMMA LoopTypes ==
    ASSUME TypeOK, ClientLoop \/ ServerStops \/ \E c \in Calls : ServerReadsFrame(c)
    PROVE  TypeOK'
<1> USE WireAssumption, IdsOfCalls
    DEF TypeOK, WireTypeOK, ClientTypeOK, ServerTypeOK, wireVars, clientVars, serverVars
<1>1. CASE ClientReads /\ UNCHANGED serverVars
  <2>1. Head(toClient) \in Incoming /\ Tail(toClient) \in Seq(Incoming)
        /\ Len(Tail(toClient)) <= RoomToClient
    BY <1>1 DEF ClientReads
  <2>2. Outcome(Head(toClient).kind, Head(toClient).of) \in Outcomes
    BY <2>1 DEF Outcome, Outcomes, Incoming
  <2>3. QED  BY <1>1, <2>1, <2>2 DEF ClientReads
<1>2. CASE ClientEnds /\ UNCHANGED serverVars
  BY <1>2, OutcomeTypes DEF ClientEnds
<1>3. CASE ServerStops
  BY <1>3 DEF ServerStops, ReadEnd, ServerCloses, ServerLeaves, ServerDies, HandlerStages
<1>4. ASSUME NEW c \in Calls, ServerReadsFrame(c)  PROVE TypeOK'
  <2>1. Tail(toServer) \in Seq(Outgoing) /\ Len(Tail(toServer)) <= RoomToServer
    BY <1>4 DEF ServerReadsFrame, ReadRequest, ReadCancel
  <2>2. QED
    <3>1. UNCHANGED <<loop, frames, toClient, clientVars>>
      BY <1>4 DEF ServerReadsFrame, ReadRequest, ReadCancel
    <3>2. inFlight' \in [Ids -> Calls \union {None}] /\ handler' \in [Calls -> HandlerStages]
      <4>1. CASE ReadRequest(c)
        BY <4>1 DEF ReadRequest, Becomes, HandlerStages
      <4>2. CASE ReadCancel(c)
        BY <4>2 DEF ReadCancel
      <4>3. QED  BY <1>4, <4>1, <4>2 DEF ServerReadsFrame
    <3>3. asked' \in [Calls -> BOOLEAN]
      BY <1>4 DEF ServerReadsFrame, ReadRequest, ReadCancel
    <3>4. toServer' = Tail(toServer)
      BY <1>4 DEF ServerReadsFrame, ReadRequest, ReadCancel
    <3>5. QED  BY <2>1, <3>1, <3>2, <3>3, <3>4
<1>5. QED  BY <1>1, <1>2, <1>3, <1>4 DEF ClientLoop

LEMMA HandlerTypes ==
    ASSUME TypeOK, NEW c \in Calls, HandlerMoves(c) \/ HandlerWrites(c)
    PROVE  TypeOK'
<1> USE WireAssumption, IdsOfCalls
    DEF TypeOK, WireTypeOK, ClientTypeOK, ServerTypeOK, wireVars, clientVars, serverVars
<1>1. CASE HandlerMoves(c)
  <2>1. UNCHANGED <<loop, asked, frames, wireVars, clientVars>>
    BY <1>1 DEF HandlerMoves, HandlerRuns, HandlerReturns, HandlerInterrupted
  <2>2. handler' \in [Calls -> HandlerStages]
    <3>1. \E stage \in HandlerStages : Becomes(c, stage)
      BY <1>1 DEF HandlerMoves, HandlerRuns, HandlerReturns, HandlerInterrupted, HandlerStages
    <3>2. QED  BY <3>1 DEF Becomes
  <2>3. inFlight' = inFlight \/ Forget(c)
    BY <1>1 DEF HandlerMoves, HandlerRuns, HandlerReturns, HandlerInterrupted
  <2>4. inFlight' \in [Ids -> Calls \union {None}]
    BY <2>3 DEF Forget
  <2>5. QED  BY <2>1, <2>2, <2>4
<1>2. CASE HandlerWrites(c)
  <2>1. Frame("answer", c) \in Incoming /\ Frame("closed", c) \in Incoming
    BY DEF Frame, Incoming
  <2>2. handler' \in [Calls -> HandlerStages] /\ UNCHANGED <<loop, inFlight, asked, clientVars>>
    <3>1. Becomes(c, "settled") /\ UNCHANGED <<loop, inFlight, asked, clientVars>>
      BY <1>2 DEF HandlerWrites, WriteAnswer, AnswerInterrupted, WriteClosed
    <3>2. QED  BY <3>1 DEF Becomes, HandlerStages
  <2>3. ASSUME NEW kind \in {"answer", "closed"}, Delivers(c, kind)
        PROVE  WireTypeOK' /\ frames' \in [Calls -> Nat]
    BY <2>1, <2>3 DEF Delivers, ClientHasRoom
  <2>4. UNCHANGED <<frames, wireVars>> \/ Delivers(c, "answer") \/ Delivers(c, "closed")
    BY <1>2 DEF HandlerWrites, WriteAnswer, AnswerInterrupted, WriteClosed
  <2>5. QED  BY <2>2, <2>3, <2>4
<1>3. QED  BY <1>1, <1>2

THEOREM TypeCorrect == Spec => []TypeOK
<1>1. Init => TypeOK
  BY WireAssumption
     DEF Init, WireInit, ClientInit, ServerInit, TypeOK, WireTypeOK, ClientTypeOK, ServerTypeOK,
         NoOutcome, Outcome, Outcomes, CallerStages, HandlerStages
<1>2. TypeOK /\ [Next]_vars => TypeOK'
  <2>1. TypeOK /\ UNCHANGED vars => TypeOK'
    BY DEF vars, wireVars, clientVars, serverVars, TypeOK, WireTypeOK, ClientTypeOK,
           ServerTypeOK
  <2>2. QED  BY <2>1, Steps, CallerTypes, LoopTypes, HandlerTypes
<1>3. QED  BY <1>1, <1>2, PTL DEF Spec

(***************************************************************************)
(* What steps do to the request pipe and to the stages.                    *)
(***************************************************************************)
\* Callers only go forward.
CallersGo ==
    \A c \in Calls :
        /\ caller[c] = "done" => caller'[c] = "done"
        /\ caller'[c] = "idle" => caller[c] = "idle"
        /\ caller'[c] = "writing" /\ caller[c] # "writing" => caller[c] = "idle"
        /\ caller'[c] = "waiting" /\ caller[c] # "waiting" => caller[c] = "writing"

HandlersStay == \A c \in Calls : handler'[c] = "none" <=> handler[c] = "none"

\* A step that leaves the request pipe alone.
Quiet == CallersGo /\ HandlersStay /\ UNCHANGED toServer

LEMMA QuietSteps ==
    ASSUME TypeOK,
           \/ UNCHANGED vars \/ ClientLoop \/ ServerStops
           \/ \E c \in Calls : CallerOnly(c) \/ HandlerMoves(c) \/ HandlerWrites(c)
    PROVE  Quiet
<1> USE DEF TypeOK, ClientTypeOK, ServerTypeOK, Quiet, CallersGo, HandlersStay, wireVars,
            clientVars, serverVars
<1>1. CASE UNCHANGED vars  BY <1>1 DEF vars
<1>2. CASE ClientLoop  BY <1>2 DEF ClientLoop, ClientReads, ClientEnds
<1>3. CASE ServerStops  BY <1>3 DEF ServerStops, ReadEnd, ServerCloses, ServerLeaves, ServerDies
<1>4. ASSUME NEW c \in Calls, CallerOnly(c)  PROVE Quiet
  <2>1. \/ caller' = [caller EXCEPT ![c] = "writing"] /\ caller[c] = "idle"
        \/ caller' = [caller EXCEPT ![c] = "done"]
        \/ \E to \in {"timedOut", "cancelled"} :
               caller' = [caller EXCEPT ![c] = to] /\ Registered(c)
    BY <1>4, CallerEffects DEF Issue, Refuse, Returns, Goes
  <2>2. UNCHANGED <<toServer, handler>>  BY <1>4, CallerEffects
  <2>3. QED  BY <2>1, <2>2 DEF Registered
<1>5. ASSUME NEW c \in Calls, HandlerMoves(c) \/ HandlerWrites(c)  PROVE Quiet
  <2>1. UNCHANGED <<toServer, caller>>
    BY <1>5 DEF HandlerMoves, HandlerWrites, HandlerRuns, HandlerReturns, HandlerInterrupted,
                WriteAnswer, AnswerInterrupted, WriteClosed, Delivers
  <2>2. /\ handler[c] # "none"
        /\ \E stage \in HandlerStages \ {"none"} : handler' = [handler EXCEPT ![c] = stage]
    BY <1>5 DEF HandlerMoves, HandlerWrites, HandlerRuns, HandlerReturns, HandlerInterrupted,
                WriteAnswer, AnswerInterrupted, WriteClosed, Becomes, Handling, HandlerStages
  <2>3. QED  BY <2>1, <2>2
<1>6. QED  BY <1>1, <1>2, <1>3, <1>4, <1>5

\* A caller's write, as far as the server sees it.
Written(c, frame) ==
    /\ caller[c] \in {"writing", "timedOut", "cancelled"}
    /\ \A d \in Calls \ {c} : caller'[d] = caller[d]
    /\ UNCHANGED <<toClient, serverVars>>
    /\ \/ toServer' = toServer
       \/ toServer' = Append(toServer, frame)

LEMMA WritingSteps ==
    ASSUME TypeOK, NEW c \in Calls, CallerWrites(c)
    PROVE  \/ /\ caller[c] = "writing" /\ caller'[c] = "waiting"
              /\ Written(c, Frame("request", c)) /\ toServer' # toServer
           \/ /\ caller[c] # "writing" /\ caller'[c] = "done"
              /\ Written(c, Frame("cancelled", c))
<1> USE DEF TypeOK, ClientTypeOK, Written
<1>1. CASE WriteRequest(c, Broken)
  <2>1. Append(toServer, Frame("request", c)) # toServer
    BY DEF WireTypeOK
  <2>2. QED  BY <1>1, <2>1 DEF CallerWrites, WriteRequest, Withdraw, Goes
<1>2. CASE Withdraw(c, Broken)
  BY <1>2 DEF CallerWrites, WriteRequest, Withdraw, Returns, Goes
<1>3. QED  BY <1>1, <1>2 DEF CallerWrites

(***************************************************************************)
(* Requests are sent once.                                                 *)
(***************************************************************************)
LEMMA SentOnceStep ==
    ASSUME TypeOK, SentOnce, [Next]_vars
    PROVE  SentOnce'
<1> USE DEF TypeOK, WireTypeOK, ClientTypeOK, SentOnce, Sent
<1>1. CASE Quiet
  BY <1>1 DEF Quiet, CallersGo, HandlersStay
<1>2. ASSUME NEW c \in Calls, CallerWrites(c)  PROVE SentOnce'
  <2>1. handler' = handler /\ \A d \in Calls \ {c} : caller'[d] = caller[d]
    BY <1>2, WritingSteps DEF Written, serverVars
  <2>2. CASE toServer' = toServer /\ caller'[c] = "done"  BY <2>1, <2>2
  <2>3. ASSUME toServer' = Append(toServer, Frame("request", c)),
               caller[c] = "writing", caller'[c] = "waiting"
        PROVE  SentOnce'
    <3>1. /\ Len(toServer') = Len(toServer) + 1
          /\ \A i \in DOMAIN toServer : toServer'[i] = toServer[i]
          /\ toServer'[Len(toServer) + 1] = Frame("request", c)
          /\ DOMAIN toServer' = DOMAIN toServer \union {Len(toServer) + 1}
      BY <2>3
    <3>2. /\ \A i \in DOMAIN toServer : toServer[i].of # c
          /\ handler[c] = "none" /\ caller[c] = "writing" /\ caller'[c] = "waiting"
      BY <2>3
    <3>3. ASSUME NEW d \in Calls, NEW i \in DOMAIN toServer', i \in DOMAIN toServer
          PROVE  /\ Sent(i, d)' => d # c /\ Sent(i, d)
                 /\ caller'[d] \in {"idle", "writing"} => toServer'[i].of # d
                 /\ toServer'[i] = Frame("cancelled", d) => caller'[d] = "done"
      <4>1. toServer'[i] = toServer[i]  BY <3>1, <3>3
      <4>2. CASE d = c  BY <3>2, <3>3, <4>1, <4>2 DEF Frame
      <4>3. CASE d # c  BY <2>1, <3>3, <4>1, <4>3
      <4>4. QED  BY <4>2, <4>3
    <3>4. ASSUME NEW d \in Calls, NEW i \in DOMAIN toServer', i = Len(toServer) + 1
          PROVE  /\ Sent(i, d)' => d = c
                 /\ caller'[d] \in {"idle", "writing"} => toServer'[i].of # d
                 /\ toServer'[i] # Frame("cancelled", d)
      BY <3>1, <3>2, <3>4 DEF Frame
    <3>5. QED
      <4>1. ASSUME NEW d \in Calls, caller'[d] \in {"idle", "writing"}
            PROVE  handler'[d] = "none"
        BY <2>1, <3>2, <4>1
      <4>2. ASSUME NEW d \in Calls, NEW i \in DOMAIN toServer', Sent(i, d)'
            PROVE  handler'[d] = "none" /\ \A j \in DOMAIN toServer' : Sent(j, d)' => j = i
        <5>1. CASE d = c  BY <2>1, <3>1, <3>2, <3>3, <4>2, <5>1
        <5>2. CASE d # c
          <6>1. i \in DOMAIN toServer /\ Sent(i, d)  BY <3>1, <3>3, <3>4, <4>2, <5>2
          <6>2. \A j \in DOMAIN toServer' : Sent(j, d)' => j \in DOMAIN toServer /\ Sent(j, d)
            BY <3>1, <3>3, <3>4, <5>2
          <6>3. QED  BY <2>1, <6>1, <6>2
        <5>3. QED  BY <5>1, <5>2
      <4>3. QED  BY <3>1, <3>3, <3>4, <4>1, <4>2
  <2>4. ASSUME toServer' = Append(toServer, Frame("cancelled", c)), caller'[c] = "done"
        PROVE  SentOnce'
    <3>1. /\ Len(toServer') = Len(toServer) + 1
          /\ \A i \in DOMAIN toServer : toServer'[i] = toServer[i]
          /\ toServer'[Len(toServer) + 1] = Frame("cancelled", c)
          /\ DOMAIN toServer' = DOMAIN toServer \union {Len(toServer) + 1}
      BY <2>4
    <3>2. ASSUME NEW d \in Calls, NEW i \in DOMAIN toServer'
          PROVE  /\ Sent(i, d)' => i \in DOMAIN toServer /\ Sent(i, d)
                 /\ caller'[d] \in {"idle", "writing"} => toServer'[i].of # d
                 /\ toServer'[i] = Frame("cancelled", d) => caller'[d] = "done"
      <4>1. CASE i \in DOMAIN toServer
        <5>1. toServer'[i] = toServer[i]  BY <3>1, <4>1
        <5>2. CASE d = c  BY <2>4, <4>1, <5>1, <5>2
        <5>3. CASE d # c  BY <2>1, <4>1, <5>1, <5>3
        <5>4. QED  BY <5>2, <5>3
      <4>2. CASE i = Len(toServer) + 1
        BY <2>4, <3>1, <4>2 DEF Frame
      <4>3. QED  BY <3>1, <4>1, <4>2
    <3>3. caller'[c] = "done"  BY <2>4
    <3>4. QED  BY <2>1, <3>1, <3>2, <3>3
  <2>5. QED  BY <1>2, <2>2, <2>3, <2>4, WritingSteps DEF Written
<1>3. ASSUME NEW c \in Calls, ServerReadsFrame(c)  PROVE SentOnce'
  <2>1. /\ caller' = caller /\ toServer # <<>> /\ toServer' = Tail(toServer)
        /\ \/ Sent(1, c) /\ handler' = [handler EXCEPT ![c] = "queued"]
           \/ handler' = handler
    BY <1>3 DEF ServerReadsFrame, ReadRequest, ReadCancel, Becomes, clientVars
  <2>2. /\ \A i \in DOMAIN toServer' : i + 1 \in DOMAIN toServer /\ toServer'[i] = toServer[i + 1]
        /\ 1 \in DOMAIN toServer /\ \A i \in DOMAIN toServer' : i \in Nat \ {0}
    BY <2>1
  <2>3. handler \in [Calls -> HandlerStages]  BY DEF ServerTypeOK
  <2>4. CASE handler' = handler  BY <2>1, <2>2, <2>4
  <2>5. CASE Sent(1, c) /\ handler' = [handler EXCEPT ![c] = "queued"]
    <3>1. caller[c] \notin {"idle", "writing"}  BY <2>2, <2>5 DEF Frame
    <3>2. \A i \in DOMAIN toServer' : toServer'[i] # Frame("request", c)  BY <2>2, <2>5
    <3>3. QED  BY <2>1, <2>2, <2>3, <2>5, <3>1, <3>2
  <2>6. QED  BY <2>1, <2>4, <2>5
<1>4. QED  BY <1>1, <1>2, <1>3, Steps, QuietSteps

THEOREM RequestsAreSentOnce == Spec => []SentOnce
<1>1. Init => SentOnce
  <2>1. ASSUME Init  PROVE DOMAIN toServer = {}  BY <2>1 DEF Init, WireInit
  <2>2. QED  BY <2>1 DEF Init, ServerInit, SentOnce
<1>2. QED  BY <1>1, SentOnceStep, TypeCorrect, PTL DEF Spec

(***************************************************************************)
(* The server writes one frame for a request, or none.                     *)
(***************************************************************************)
LEMMA OneFrameStep ==
    ASSUME TypeOK, SentOnce, Entries, OneFrame, [Next]_vars
    PROVE  Entries' /\ OneFrame'
<1> USE IdsOfCalls, WireAssumption DEF TypeOK, ServerTypeOK, Entries, OneFrame, Handling, Becomes
<1>1. CASE UNCHANGED serverVars  BY <1>1 DEF serverVars
<1>2. ASSUME NEW c \in Calls, ServerReadsFrame(c)  PROVE Entries' /\ OneFrame'
  <2>1. CASE ReadRequest(c)
    <3>1. handler[c] = "none"
      <4>1. 1 \in DOMAIN toServer /\ Sent(1, c)
        BY <2>1 DEF ReadRequest, WireTypeOK, Sent
      <4>2. QED  BY <4>1 DEF SentOnce
    <3>2. /\ handler' = [handler EXCEPT ![c] = "queued"]
          /\ inFlight' = [inFlight EXCEPT ![IdOf[c]] = c]
          /\ UNCHANGED <<asked, frames>>
      BY <2>1 DEF ReadRequest
    <3>3. OneFrame'  BY <3>1, <3>2
    <3>4. Entries'  BY <3>2
    <3>5. QED  BY <3>3, <3>4
  <2>2. CASE ReadCancel(c)
    <3>1. /\ UNCHANGED <<inFlight, handler, frames>>
          /\ \/ asked' = asked
             \/ /\ inFlight[IdOf[c]] # None
                /\ asked' = [asked EXCEPT ![inFlight[IdOf[c]]] = TRUE]
      BY <2>2 DEF ReadCancel
    <3>2. inFlight[IdOf[c]] # None =>
              inFlight[IdOf[c]] \in Calls /\ handler[inFlight[IdOf[c]]] \in {"queued", "running"}
      OBVIOUS
    <3>3. QED  BY <3>1, <3>2
  <2>3. QED  BY <1>2, <2>1, <2>2 DEF ServerReadsFrame
<1>3. CASE ServerStops
  <2>1. CASE ReadEnd \/ ServerCloses \/ ServerLeaves
    <3>1. UNCHANGED <<inFlight, handler, asked, frames>>
      BY <2>1 DEF ReadEnd, ServerCloses, ServerLeaves
    <3>2. QED  BY <3>1
  <2>2. CASE ServerDies
    <3>1. /\ inFlight' = [id \in Ids |-> None]
          /\ handler' = [c \in Calls |-> IF handler[c] = "none" THEN "none" ELSE "settled"]
          /\ UNCHANGED <<asked, frames>>
      BY <2>2 DEF ServerDies
    <3>2. QED  BY <3>1
  <2>3. QED  BY <1>3, <2>1, <2>2 DEF ServerStops
<1>4. ASSUME NEW c \in Calls, HandlerMoves(c)  PROVE Entries' /\ OneFrame'
  <2>1. /\ handler[c] \in {"queued", "running"}
        /\ UNCHANGED <<asked, frames>>
        /\ \/ handler' = [handler EXCEPT ![c] = "running"] /\ inFlight' = inFlight
           \/ /\ \/ handler' = [handler EXCEPT ![c] = "settled"]
                 \/ /\ ~asked[c]
                    /\ \E stage \in {"writing", "closing"} :
                           handler' = [handler EXCEPT ![c] = stage]
              /\ Forget(c)
    BY <1>4 DEF HandlerMoves, HandlerRuns, HandlerReturns, HandlerInterrupted
  <2>2. OneFrame'  BY <2>1
  <2>3. Entries'
    <3>1. CASE handler' = [handler EXCEPT ![c] = "running"] /\ inFlight' = inFlight
      BY <3>1
    <3>2. CASE Forget(c)
      <4> SUFFICES ASSUME NEW id \in Ids, inFlight'[id] # None
                   PROVE  IdOf[inFlight'[id]] = id /\ Handling(inFlight[id])'
        OBVIOUS
      <4> DEFINE d == inFlight[id]
      <4>1. inFlight'[id] = d /\ d # c  BY <3>2 DEF Forget
      <4>2. d \in Calls /\ IdOf[d] = id /\ handler[d] \in {"queued", "running"}
        BY <4>1
      <4>3. handler'[d] = handler[d]  BY <2>1, <4>1, <4>2
      <4>4. QED  BY <4>1, <4>2, <4>3
    <3>3. QED  BY <2>1, <3>1, <3>2
  <2>4. QED  BY <2>2, <2>3
<1>5. ASSUME NEW c \in Calls, HandlerWrites(c)  PROVE Entries' /\ OneFrame'
  <2>1. /\ handler[c] \in {"writing", "closing"}
        /\ handler' = [handler EXCEPT ![c] = "settled"]
        /\ frames' = frames \/ frames' = [frames EXCEPT ![c] = @ + 1]
        /\ UNCHANGED <<inFlight, asked>>
    BY <1>5 DEF HandlerWrites, WriteAnswer, AnswerInterrupted, WriteClosed, Delivers
  <2>2. OneFrame'  BY <2>1
  <2>3. Entries'
    <3> SUFFICES ASSUME NEW id \in Ids, inFlight'[id] # None
                 PROVE  IdOf[inFlight'[id]] = id /\ Handling(inFlight[id])'
      OBVIOUS
    <3> DEFINE d == inFlight[id]
    <3>1. inFlight'[id] = d /\ IdOf[d] = id /\ handler[d] \in {"queued", "running"}
      BY <2>1
    <3>2. d \in Calls /\ d # c  BY <2>1, <3>1
    <3>3. handler'[d] = handler[d]  BY <2>1, <3>2
    <3>4. QED  BY <3>1, <3>3
  <2>4. QED  BY <2>2, <2>3
<1>6. QED
  BY <1>1, <1>2, <1>3, <1>4, <1>5, Steps DEF vars, CallerOnly, CallerWrites, ClientLoop

\* With the type invariant and SentOnce: the invariant of the server's half.
THEOREM HandlersAnswerOnce == Spec => [](Entries /\ OneFrame)
<1>1. Init => Entries /\ OneFrame
  BY DEF Init, ServerInit, Entries, OneFrame
<1>2. QED  BY <1>1, OneFrameStep, TypeCorrect, RequestsAreSentOnce, PTL DEF Spec

\* No request is answered twice, whatever ids the client chooses and however
\* the connection ends.
THEOREM AnsweredOnce == Spec => []AtMostOneAnswer
<1>1. OneFrame => AtMostOneAnswer  BY DEF OneFrame, AtMostOneAnswer
<1>2. QED  BY <1>1, HandlersAnswerOnce, PTL

\* A request that was cancelled at its handler is never answered.
THEOREM SilentOnceCancelled == Spec => []CancelledIsSilent
<1>1. OneFrame => CancelledIsSilent  BY DEF OneFrame, CancelledIsSilent
<1>2. QED  BY <1>1, HandlersAnswerOnce, PTL

(***************************************************************************)
(* The client waits under the id it sent.                                  *)
(***************************************************************************)
\* A call that returns takes its own entry away and no other.
LEMMA ReturnsKeepWaiters ==
    ASSUME TypeOK, Waiters, NEW c \in Calls, NEW got, got.by # None => got = mailbox[c],
           Registered(c), Returns(c, caller[c], got)
    PROVE  Waiters'
<1>1. /\ caller' = [caller EXCEPT ![c] = "done"]
      /\ outcome' = [outcome EXCEPT ![c] = got]
      /\ pending' = [pending EXCEPT ![IdOf[c]] = None]
      /\ UNCHANGED <<client, mailbox>>
  BY DEF Returns, Goes
<1>2. /\ pending \in [Ids -> Calls \union {None}] /\ caller \in [Calls -> CallerStages]
      /\ outcome \in [Calls -> Outcomes] /\ None \notin Calls /\ IdOf[c] \in Ids
  BY IdsOfCalls, WireAssumption DEF TypeOK, ClientTypeOK
<1>3. HasWaiter'
  <2> SUFFICES ASSUME client' = "up", NEW d \in Calls, Registered(d)'
               PROVE  pending'[IdOf[d]] = d
    BY DEF HasWaiter
  <2>1. d # c /\ Registered(d)  BY <1>1, <1>2 DEF Registered
  <2>2. pending[IdOf[d]] = d /\ pending[IdOf[c]] = c
    BY <1>1, <2>1 DEF Waiters, HasWaiter
  <2>3. QED  BY <1>1, <1>2, <2>1, <2>2, IdsOfCalls
<1>4. IsWaiter'
  <2> SUFFICES ASSUME NEW id \in Ids, pending'[id] # None
               PROVE  IdOf[pending'[id]] = id /\ Registered(pending[id])'
    BY DEF IsWaiter
  <2>1. id # IdOf[c] /\ pending'[id] = pending[id]  BY <1>1, <1>2
  <2>2. IdOf[pending[id]] = id /\ Registered(pending[id]) /\ pending[id] \in Calls
    BY <1>2, <2>1 DEF Waiters, IsWaiter
  <2>3. pending[id] # c  BY <2>1, <2>2
  <2>4. QED  BY <1>1, <1>2, <2>1, <2>2, <2>3 DEF Registered
<1>5. KeepsOutcome'
  <2> SUFFICES ASSUME NEW d \in Calls, outcome'[d].by # None
               PROVE  caller'[d] = "done" /\ outcome'[d] = mailbox'[d]
    BY DEF KeepsOutcome
  <2>1. CASE d = c  BY <1>1, <1>2, <2>1
  <2>2. CASE d # c  BY <1>1, <1>2, <2>2 DEF Waiters, KeepsOutcome
  <2>3. QED  BY <2>1, <2>2
<1>6. OneUnderWay'
  <2>1. \A d \in Calls : Registered(d)' => Registered(d)  BY <1>1, <1>2 DEF Registered
  <2>2. QED  BY <2>1 DEF Waiters, OneUnderWay
<1>7. QED  BY <1>3, <1>4, <1>5, <1>6 DEF Waiters

LEMMA WaitersStep ==
    ASSUME TypeOK, Waiters, [Next]_vars
    PROVE  Waiters'
<1>1. CASE UNCHANGED clientVars
  BY <1>1 DEF clientVars, Waiters, HasWaiter, IsWaiter, KeepsOutcome, OneUnderWay, Registered
<1> /\ pending \in [Ids -> Calls \union {None}] /\ caller \in [Calls -> CallerStages]
    /\ outcome \in [Calls -> Outcomes] /\ None \notin Calls
  BY WireAssumption DEF TypeOK, ClientTypeOK
<1>2. ASSUME NEW c \in Calls, NEW to \in {"waiting", "timedOut", "cancelled"}, Registered(c),
             caller' = [caller EXCEPT ![c] = to],
             UNCHANGED <<client, pending, mailbox, outcome>>
      PROVE  Waiters'
  <2>1. \A d \in Calls : Registered(d)' <=> Registered(d)  BY <1>2 DEF Registered
  <2>2. \A d \in Calls : caller[d] = "done" => caller'[d] = "done"  BY <1>2 DEF Registered
  <2>3. HasWaiter'  BY <1>2, <2>1 DEF Waiters, HasWaiter
  <2>4. IsWaiter'  BY <1>2, <2>1 DEF Waiters, IsWaiter
  <2>5. KeepsOutcome'  BY <1>2, <2>2 DEF Waiters, KeepsOutcome
  <2>6. OneUnderWay'  BY <2>1 DEF Waiters, OneUnderWay
  <2>7. QED  BY <2>3, <2>4, <2>5, <2>6 DEF Waiters
<1>3. ASSUME NEW c \in Calls, CallerOnly(c)  PROVE Waiters'
  <2>1. CASE Issue(c)
    <3>1. /\ client = "up" /\ pending[IdOf[c]] = None /\ caller[c] = "idle"
          /\ caller' = [caller EXCEPT ![c] = "writing"]
          /\ pending' = [pending EXCEPT ![IdOf[c]] = c]
          /\ UNCHANGED <<client, mailbox, outcome>>
      BY <2>1 DEF Issue, Goes
    <3>2. \A d \in Calls : Registered(d) => IdOf[d] # IdOf[c] /\ pending[IdOf[d]] = d
      BY <3>1 DEF Waiters, HasWaiter
    <3>3. \A d \in Calls : Registered(d)' <=> d = c \/ Registered(d)
      BY <3>1 DEF Registered
    <3>4. HasWaiter'  BY <3>1, <3>2, <3>3, IdsOfCalls DEF HasWaiter
    <3>5. IsWaiter'
      <4> SUFFICES ASSUME NEW id \in Ids, pending'[id] # None
                   PROVE  IdOf[pending'[id]] = id /\ Registered(pending[id])'
        BY DEF IsWaiter
      <4>1. CASE id = IdOf[c]  BY <3>1, <4>1 DEF Registered
      <4>2. CASE id # IdOf[c]
        <5>1. pending'[id] = pending[id] /\ pending[id] \in Calls  BY <3>1, <4>2
        <5>2. IdOf[pending[id]] = id /\ Registered(pending[id])
          BY <5>1 DEF Waiters, IsWaiter
        <5>3. QED  BY <3>1, <5>1, <5>2 DEF Registered
      <4>3. QED  BY <4>1, <4>2
    <3>6. KeepsOutcome'  BY <3>1 DEF Waiters, KeepsOutcome
    <3>7. OneUnderWay'  BY <3>2, <3>3 DEF Waiters, OneUnderWay
    <3>8. QED  BY <3>4, <3>5, <3>6, <3>7 DEF Waiters
  <2>2. CASE Refuse(c)
    <3>1. /\ caller[c] = "idle"
          /\ caller' = [caller EXCEPT ![c] = "done"]
          /\ \E got : got.by = None /\ outcome' = [outcome EXCEPT ![c] = got]
          /\ UNCHANGED <<client, pending, mailbox>>
      BY <2>2 DEF Refuse, Goes, Closed, Outcome
    <3>2. \A d \in Calls : Registered(d)' <=> Registered(d)  BY <3>1 DEF Registered
    <3>3. HasWaiter'  BY <3>1, <3>2 DEF Waiters, HasWaiter
    <3>4. IsWaiter'  BY <3>1, <3>2 DEF Waiters, IsWaiter
    <3>5. KeepsOutcome'  BY <3>1 DEF Waiters, KeepsOutcome
    <3>6. OneUnderWay'  BY <3>2 DEF Waiters, OneUnderWay
    <3>7. QED  BY <3>3, <3>4, <3>5, <3>6 DEF Waiters
  <2>3. CASE /\ \E to \in {"timedOut", "cancelled"} : caller' = [caller EXCEPT ![c] = to]
             /\ Registered(c)
             /\ UNCHANGED <<client, pending, mailbox, outcome>>
    BY <1>2, <2>3
  <2>4. ASSUME NEW got \in Given(c), Registered(c), Returns(c, caller[c], got)
        PROVE  Waiters'
    <3>1. got.by # None => got = mailbox[c]  BY DEF Given, Closed, Outcome
    <3>2. QED  BY <2>4, <3>1, ReturnsKeepWaiters
  <2>5. QED  BY <1>3, <2>1, <2>2, <2>3, <2>4, CallerEffects
<1>4. ASSUME NEW c \in Calls, CallerWrites(c)  PROVE Waiters'
  <2>1. CASE WriteRequest(c, Broken)
    BY <1>2, <2>1 DEF WriteRequest, Goes, Registered
  <2>2. CASE Withdraw(c, Broken)
    <3>1. /\ Registered(c)
          /\ \E stage \in {"timedOut", "cancelled"} :
                 Returns(c, caller[c], Outcome(stage, None))
      BY <2>2 DEF Withdraw, Returns, Goes, Registered
    <3>2. \A stage : Outcome(stage, None).by = None  BY DEF Outcome
    <3>3. QED  BY <3>1, <3>2, ReturnsKeepWaiters
  <2>3. QED  BY <1>4, <2>1, <2>2 DEF CallerWrites
<1>5. CASE ClientLoop
  <2>1. /\ UNCHANGED <<caller, outcome>>
        /\ \/ UNCHANGED <<client, pending>>
           \/ client' = "gone" /\ pending' = [id \in Ids |-> None]
        /\ \A d \in Calls : mailbox[d] # NoOutcome => mailbox'[d] = mailbox[d]
    BY <1>5 DEF ClientLoop, ClientReads, ClientEnds, TypeOK, ClientTypeOK
  <2>2. KeepsOutcome'
    <3>1. \A d \in Calls : outcome[d].by # None => mailbox'[d] = mailbox[d]
      BY <2>1 DEF NoOutcome, Outcome, Waiters, KeepsOutcome
    <3>2. QED  BY <2>1, <3>1 DEF Waiters, KeepsOutcome
  <2>3. HasWaiter'  BY <2>1 DEF Waiters, HasWaiter, Registered
  <2>4. IsWaiter'  BY <2>1 DEF Waiters, IsWaiter, Registered
  <2>5. OneUnderWay'  BY <2>1 DEF Waiters, OneUnderWay, Registered
  <2>6. QED  BY <2>2, <2>3, <2>4, <2>5 DEF Waiters
<1>6. QED
  BY <1>1, <1>3, <1>4, <1>5, Steps
     DEF vars, ServerReadsFrame, ServerStops, HandlerMoves, HandlerWrites

THEOREM WaitersInvariant == Spec => []Waiters
<1>1. Init => Waiters
  BY DEF Init, ClientInit, Waiters, HasWaiter, IsWaiter, KeepsOutcome, OneUnderWay,
         Registered, NoOutcome, Outcome
<1>2. QED  BY <1>1, WaitersStep, TypeCorrect, PTL DEF Spec

(***************************************************************************)
(* Whose answer a caller gets.                                             *)
(***************************************************************************)
LEMMA AnswerSteps ==
    ASSUME TypeOK, OneFrame, [Next]_vars
    PROVE  \/ UNCHANGED <<toClient, mailbox, frames>>
           \/ ClientLoop
           \/ \E c \in Calls, kind \in {"answer", "closed"} :
                  /\ frames[c] = 0 /\ frames' = [frames EXCEPT ![c] = 1]
                  /\ toClient' = Append(toClient, Frame(kind, c))
                  /\ UNCHANGED clientVars
<1>1. ASSUME NEW c \in Calls, HandlerWrites(c)
      PROVE  \/ UNCHANGED <<toClient, mailbox, frames>>
             \/ \E kind \in {"answer", "closed"} :
                    /\ frames[c] = 0 /\ frames' = [frames EXCEPT ![c] = 1]
                    /\ toClient' = Append(toClient, Frame(kind, c))
                    /\ UNCHANGED clientVars
  <2>1. handler[c] # "settled"
    BY <1>1 DEF HandlerWrites, WriteAnswer, AnswerInterrupted, WriteClosed
  <2>2. frames[c] = 0  BY <2>1 DEF OneFrame
  <2>3. \/ Delivers(c, "answer") \/ Delivers(c, "closed")
        \/ UNCHANGED <<frames, wireVars>>
    BY <1>1 DEF HandlerWrites, WriteAnswer, AnswerInterrupted, WriteClosed
  <2>4. QED
    BY <1>1, <2>2, <2>3
       DEF HandlerWrites, Delivers, wireVars, clientVars, TypeOK, ServerTypeOK
<1>2. ASSUME NEW c \in Calls, CallerOnly(c) \/ CallerWrites(c)
      PROVE  UNCHANGED <<toClient, mailbox, frames>>
  BY <1>2, CallerEffects
     DEF Issue, Refuse, Returns, CallerWrites, WriteRequest, Withdraw, wireVars, serverVars
<1>3. ASSUME NEW c \in Calls, ServerReadsFrame(c) \/ HandlerMoves(c)
      PROVE  UNCHANGED <<toClient, mailbox, frames>>
  BY <1>3 DEF ServerReadsFrame, ReadRequest, ReadCancel, HandlerMoves, HandlerRuns,
              HandlerReturns, HandlerInterrupted, wireVars, clientVars
<1>4. CASE ServerStops
  BY <1>4 DEF ServerStops, ReadEnd, ServerCloses, ServerLeaves, ServerDies, wireVars, clientVars
<1>5. CASE UNCHANGED vars  BY <1>5 DEF vars, wireVars, clientVars, serverVars
<1>6. QED  BY <1>1, <1>2, <1>3, <1>4, <1>5, Steps

\* What the read loop of the client does to the mailboxes.
LEMMA LoopEffects ==
    ASSUME TypeOK, ClientLoop
    PROVE  /\ UNCHANGED <<frames, caller, outcome>>
           /\ \/ /\ toClient' = toClient
                 /\ \A c \in Calls : mailbox'[c] = mailbox[c] \/ mailbox'[c].by = None
              \/ /\ client = "up" /\ toClient # <<>> /\ toClient' = Tail(toClient)
                 /\ \A c \in Calls :
                       \/ mailbox'[c] = mailbox[c]
                       \/ /\ c = pending[IdOf[toClient[1].of]]
                          /\ mailbox'[c].by = toClient[1].of
<1>1. CASE ClientEnds
  BY <1>1 DEF ClientLoop, ClientEnds, Closed, Outcome, TypeOK, ClientTypeOK, wireVars, serverVars
<1>2. CASE ClientReads
  <2>1. Head(toClient) = toClient[1]  BY <1>2 DEF ClientReads, TypeOK, WireTypeOK
  <2>2. ASSUME NEW c \in Calls, mailbox'[c] # mailbox[c]
        PROVE  c = pending[IdOf[toClient[1].of]] /\ mailbox'[c].by = toClient[1].of
    BY <1>2, <2>1, <2>2 DEF ClientReads, Outcome, TypeOK, ClientTypeOK
  <2>3. QED  BY <1>2, <2>2 DEF ClientLoop, ClientReads, serverVars
<1>3. QED  BY <1>1, <1>2 DEF ClientLoop

LEMMA OneAnswerStep ==
    ASSUME TypeOK, OneFrame, OneAnswer, [Next]_vars
    PROVE  OneAnswer'
<1>1. CASE UNCHANGED <<toClient, mailbox, frames>>  BY <1>1 DEF OneAnswer
<1>2. ASSUME NEW c \in Calls, NEW kind \in {"answer", "closed"},
             frames[c] = 0, frames' = [frames EXCEPT ![c] = 1],
             toClient' = Append(toClient, Frame(kind, c)), UNCHANGED clientVars
      PROVE  OneAnswer'
  <2>1. /\ DOMAIN toClient' = DOMAIN toClient \union {Len(toClient) + 1}
        /\ \A i \in DOMAIN toClient : toClient'[i] = toClient[i] /\ i # Len(toClient) + 1
        /\ toClient'[Len(toClient) + 1].of = c
    BY <1>2 DEF TypeOK, WireTypeOK, Frame
  <2>2. /\ \A d \in Calls : frames'[d] = 0 => d # c /\ frames[d] = 0
        /\ mailbox' = mailbox
    BY <1>2 DEF TypeOK, ServerTypeOK, clientVars
  <2>3. /\ \A i \in DOMAIN toClient : toClient[i].of # c
        /\ \A d \in Calls : mailbox[d].by # c
    BY <1>2 DEF OneAnswer
  <2>4. ASSUME NEW d \in Calls, frames'[d] = 0
        PROVE  /\ \A i \in DOMAIN toClient' : toClient'[i].of # d
               /\ \A e \in Calls : mailbox'[e].by # d
    BY <2>1, <2>2, <2>4 DEF OneAnswer
  <2>5. ASSUME NEW d \in Calls, NEW i \in DOMAIN toClient', toClient'[i].of = d
        PROVE  /\ \A j \in DOMAIN toClient' : toClient'[j].of = d => j = i
               /\ \A e \in Calls : mailbox'[e].by # d
    <3>1. CASE d = c  BY <2>1, <2>2, <2>3, <2>5, <3>1
    <3>2. CASE d # c
      <4>1. i \in DOMAIN toClient /\ toClient[i].of = d  BY <2>1, <2>5, <3>2
      <4>2. QED  BY <2>1, <2>2, <3>2, <4>1 DEF OneAnswer
    <3>3. QED  BY <3>1, <3>2
  <2>6. QED  BY <2>4, <2>5 DEF OneAnswer
<1>3. CASE ClientLoop
  <2>1. CASE /\ toClient' = toClient
             /\ \A c \in Calls : mailbox'[c] = mailbox[c] \/ mailbox'[c].by = None
    BY <1>3, <2>1, LoopEffects, WireAssumption DEF OneAnswer
  <2>2. CASE /\ toClient # <<>> /\ toClient' = Tail(toClient)
             /\ \A c \in Calls : mailbox'[c] = mailbox[c] \/ mailbox'[c].by = toClient[1].of
    <3>1. /\ 1 \in DOMAIN toClient /\ toClient[1].of \in Calls
          /\ \A i \in DOMAIN toClient' :
                i \in Nat \ {0} /\ i + 1 \in DOMAIN toClient /\ toClient'[i] = toClient[i + 1]
      <4>1. toClient \in Seq(Incoming)  BY DEF TypeOK, WireTypeOK
      <4>2. 1 \in DOMAIN toClient /\ toClient[1] \in Incoming  BY <2>2, <4>1
      <4>3. toClient[1].of \in Calls  BY <4>2 DEF Incoming
      <4>4. QED  BY <2>2, <4>1, <4>2, <4>3
    <3>2. frames' = frames  BY <1>3, LoopEffects
    <3>3. ASSUME NEW i \in DOMAIN toClient'  PROVE toClient'[i].of # toClient[1].of
      <4>1. i + 1 # 1 /\ i + 1 \in DOMAIN toClient  BY <3>1
      <4>2. toClient[i + 1].of # toClient[1].of  BY <3>1, <4>1 DEF OneAnswer
      <4>3. QED  BY <3>1, <4>2
    <3>4. ASSUME NEW d \in Calls, frames'[d] = 0
          PROVE  /\ \A i \in DOMAIN toClient' : toClient'[i].of # d
                 /\ \A e \in Calls : mailbox'[e].by # d
      <4>1. toClient[1].of # d  BY <3>1, <3>2, <3>4 DEF OneAnswer
      <4>2. QED  BY <2>2, <3>1, <3>2, <3>4, <4>1 DEF OneAnswer
    <3>5. ASSUME NEW d \in Calls, NEW i \in DOMAIN toClient', toClient'[i].of = d
          PROVE  /\ \A j \in DOMAIN toClient' : toClient'[j].of = d => j = i
                 /\ \A e \in Calls : mailbox'[e].by # d
      <4>1. d # toClient[1].of  BY <3>3, <3>5
      <4>2. i + 1 \in DOMAIN toClient /\ toClient[i + 1].of = d  BY <3>1, <3>5
      <4>3. \A e \in Calls : mailbox'[e].by # d  BY <2>2, <4>1, <4>2 DEF OneAnswer
      <4>4. ASSUME NEW j \in DOMAIN toClient', toClient'[j].of = d  PROVE j = i
        <5>1. j + 1 \in DOMAIN toClient /\ toClient[j + 1].of = d  BY <3>1, <4>4
        <5>2. j + 1 = i + 1  BY <4>2, <5>1 DEF OneAnswer
        <5>3. QED  BY <3>1, <5>2
      <4>5. QED  BY <4>3, <4>4
    <3>6. QED  BY <3>4, <3>5 DEF OneAnswer
  <2>3. QED  BY <1>3, <2>1, <2>2, LoopEffects
<1>4. QED  BY <1>1, <1>2, <1>3, AnswerSteps

\* A call that is done keeps its outcome.
LEMMA DoneIsDone ==
    ASSUME TypeOK, [Next]_vars, NEW d \in Calls, caller[d] = "done"
    PROVE  caller'[d] = "done" /\ outcome'[d] = outcome[d]
<1> USE DEF TypeOK, ClientTypeOK
<1>1. ASSUME NEW c \in Calls, NEW from, NEW got, Returns(c, from, got), from # "done"
      PROVE  caller'[d] = "done" /\ outcome'[d] = outcome[d]
  BY <1>1 DEF Returns, Goes
<1>2. ASSUME NEW c \in Calls, CallerOnly(c)
      PROVE  caller'[d] = "done" /\ outcome'[d] = outcome[d]
  BY <1>1, <1>2, CallerEffects DEF Issue, Refuse, Goes, Registered
<1>3. ASSUME NEW c \in Calls, CallerWrites(c)
      PROVE  caller'[d] = "done" /\ outcome'[d] = outcome[d]
  BY <1>1, <1>3 DEF CallerWrites, WriteRequest, Withdraw, Goes
<1>4. CASE UNCHANGED <<caller, outcome>>  BY <1>4
<1>5. QED
  BY <1>2, <1>3, <1>4, Steps, LoopEffects
     DEF vars, clientVars, ServerReadsFrame, ServerStops, HandlerMoves, HandlerWrites

\* Whoever gets a frame that is not its own answer gets that of a call that is
\* done, without it.
LEMMA LateAnswersStep ==
    ASSUME TypeOK, OneFrame, OneAnswer, SentOnce, Waiters, LateAnswers, [Next]_vars
    PROVE  LateAnswers'
<1> SUFFICES ASSUME NEW c \in Calls, NEW d \in Calls, mailbox'[c].by = d, d # c
             PROVE  IdOf[d] = IdOf[c] /\ caller'[d] = "done" /\ outcome'[d].by # d
  BY DEF LateAnswers
<1>1. CASE mailbox'[c] = mailbox[c]  BY <1>1, DoneIsDone DEF LateAnswers
<1>2. CASE mailbox'[c] # mailbox[c]
  <2>1. ClientLoop  BY <1>2, AnswerSteps DEF clientVars
  <2>2. /\ client = "up" /\ toClient # <<>>
        /\ c = pending[IdOf[toClient[1].of]] /\ toClient[1].of = d
    BY <1>2, <2>1, LoopEffects, WireAssumption
  <2>3. 1 \in DOMAIN toClient  BY <2>2 DEF TypeOK, WireTypeOK
  <2>4. IdOf[d] = IdOf[c]
    BY <2>2, IdsOfCalls, WireAssumption DEF Waiters, IsWaiter
  <2>5. caller[d] = "done"
    <3>1. ~Registered(d)  BY <2>2 DEF Waiters, HasWaiter
    <3>2. frames[d] # 0  BY <2>2, <2>3 DEF OneAnswer
    <3>3. handler[d] # "none"  BY <3>2 DEF OneFrame
    <3>4. caller[d] # "idle"  BY <3>3 DEF SentOnce
    <3>5. QED  BY <3>1, <3>4 DEF Registered, TypeOK, ClientTypeOK, CallerStages
  <2>6. outcome[d].by # d
    <3>1. mailbox[d].by # d  BY <2>2, <2>3 DEF OneAnswer
    <3>2. QED  BY <3>1, WireAssumption DEF Waiters, KeepsOutcome
  <2>7. QED  BY <2>1, <2>4, <2>5, <2>6, LoopEffects
<1>3. QED  BY <1>1, <1>2

\* With the invariants before it: where the one answer to a request is.
THEOREM AnswersInvariant == Spec => []Answers
<1>1. Init => Answers
  <2>1. ASSUME Init  PROVE DOMAIN toClient = {}  BY <2>1 DEF Init, WireInit
  <2>2. ASSUME Init, NEW c \in Calls, NEW d \in Calls  PROVE mailbox[c].by # d
    BY <2>2, WireAssumption DEF Init, ClientInit, NoOutcome, Outcome
  <2>3. QED  BY <2>1, <2>2 DEF Answers, OneAnswer, LateAnswers
<1>2. TypeOK /\ OneFrame /\ SentOnce /\ Waiters /\ Answers /\ [Next]_vars => Answers'
  BY OneAnswerStep, LateAnswersStep DEF Answers
<1>3. QED
  BY <1>1, <1>2, TypeCorrect, HandlersAnswerOnce, RequestsAreSentOnce, WaitersInvariant, PTL
     DEF Spec

\* With any number of calls under one id, a caller gets its own answer, or that
\* of an abandoned call with its id.
THEOREM OwnOrLate == Spec => []OutcomeIsOwn
<1>1. TypeOK /\ Waiters /\ Answers => OutcomeIsOwn
  <2> SUFFICES ASSUME TypeOK, Waiters, Answers,
                      NEW c \in Calls, outcome[c].by \notin {c, None}
               PROVE  LET d == outcome[c].by
                      IN IdOf[d] = IdOf[c] /\ caller[d] = "done" /\ outcome[d].by # d
    BY DEF OutcomeIsOwn
  <2> QED
    BY DEF Waiters, KeepsOutcome, Answers, LateAnswers, TypeOK, ClientTypeOK, Outcomes
<1>2. QED  BY <1>1, TypeCorrect, WaitersInvariant, AnswersInvariant, PTL

(***************************************************************************)
(* Cancellations.                                                          *)
(***************************************************************************)
\* Of two calls with one id that are under way, at most one is waited for.
LEMMA OneIsRegistered ==
    ASSUME Waiters, NEW c \in Calls, NEW d \in Calls,
           Registered(c), Registered(d), IdOf[c] = IdOf[d]
    PROVE  c = d
BY DEF Waiters, OneUnderWay

LEMMA InOrderStep ==
    ASSUME TypeOK, Waiters, SentOnce, InOrder, [Next]_vars
    PROVE  InOrder'
<1> SUFFICES ASSUME NEW j \in DOMAIN toServer', NEW c \in Calls, toServer'[j].of # c,
                    IdOf[toServer'[j].of] = IdOf[c], AheadOf(c, j)', Waits(c)'
             PROVE  FALSE
  BY DEF InOrder
<1>1. CASE Quiet
  <2>1. toServer[j].of # c /\ AheadOf(c, j) /\ j \in DOMAIN toServer
    BY <1>1 DEF Quiet, HandlersStay, AheadOf, Sent
  <2>2. ~Waits(c)  BY <1>1, <2>1 DEF Quiet, InOrder
  <2>3. caller[c] = "idle"  BY <1>1, <2>2 DEF Quiet, CallersGo, Waits
  <2>4. handler[c] = "none" /\ \A i \in DOMAIN toServer : toServer[i].of # c
    BY <2>3 DEF SentOnce
  <2>5. 1 .. j - 1 \subseteq DOMAIN toServer  BY <2>1 DEF TypeOK, WireTypeOK
  <2>6. QED  BY <2>1, <2>4, <2>5 DEF AheadOf, Sent, Frame
<1>2. ASSUME NEW d \in Calls, CallerWrites(d)  PROVE FALSE
  <2>1. /\ caller[d] \in {"writing", "timedOut", "cancelled"}
        /\ \A e \in Calls \ {d} : caller'[e] = caller[e]
        /\ handler' = handler
        /\ caller[d] # "writing" => caller'[d] = "done"
        /\ \/ toServer' = toServer
           \/ \E f \in {Frame("request", d), Frame("cancelled", d)} :
                  toServer' = Append(toServer, f)
    BY <1>2, WritingSteps DEF Written, serverVars
  <2>2. Waits(c)  BY <2>1 DEF Waits
  <2>3. CASE toServer' = toServer
    BY <2>1, <2>2, <2>3 DEF InOrder, AheadOf, Sent
  <2>4. ASSUME NEW f \in {Frame("request", d), Frame("cancelled", d)},
               toServer' = Append(toServer, f)
        PROVE  FALSE
    <3>1. /\ DOMAIN toServer' = DOMAIN toServer \union {Len(toServer) + 1}
          /\ \A i \in DOMAIN toServer : toServer'[i] = toServer[i]
          /\ toServer'[Len(toServer) + 1].of = d
          /\ \A i \in DOMAIN toServer' : 1 .. i - 1 \subseteq DOMAIN toServer
      BY <2>4 DEF TypeOK, WireTypeOK, Frame
    <3>2. CASE j \in DOMAIN toServer
      BY <2>1, <2>2, <3>1, <3>2 DEF InOrder, AheadOf, Sent
    <3>3. CASE j = Len(toServer) + 1
      <4>1. d # c /\ IdOf[d] = IdOf[c]  BY <3>1, <3>3
      <4>2. Registered(c) /\ Registered(d)  BY <2>1, <2>2 DEF Waits, Registered
      <4>3. QED  BY <4>1, <4>2, OneIsRegistered
    <3>4. QED  BY <3>1, <3>2, <3>3
  <2>5. QED  BY <2>1, <2>3, <2>4
<1>3. ASSUME NEW d \in Calls, ServerReadsFrame(d)  PROVE FALSE
  <2>1. /\ caller' = caller /\ toServer # <<>> /\ toServer' = Tail(toServer)
        /\ \/ Sent(1, d) /\ handler' = [handler EXCEPT ![d] = "queued"]
           \/ handler' = handler
    BY <1>3 DEF ServerReadsFrame, ReadRequest, ReadCancel, Becomes, clientVars, Sent
  <2>2. /\ j \in Nat \ {0} /\ j + 1 \in DOMAIN toServer /\ toServer'[j] = toServer[j + 1]
        /\ \A i \in 1 .. j - 1 : i + 1 \in 1 .. j /\ toServer'[i] = toServer[i + 1]
        /\ 1 \in 1 .. (j + 1) - 1
    BY <2>1 DEF TypeOK, WireTypeOK
  <2>3. AheadOf(c, j + 1)
    <3>1. CASE handler'[c] # "none"
      BY <2>1, <2>2, <3>1 DEF AheadOf, TypeOK, ServerTypeOK
    <3>2. CASE \E i \in 1 .. j - 1 : Sent(i, c)'
      BY <2>2, <3>2 DEF AheadOf, Sent
    <3>3. QED  BY <3>1, <3>2 DEF AheadOf
  <2>4. QED  BY <2>1, <2>2, <2>3 DEF InOrder, Waits
<1>4. QED  BY <1>1, <1>2, <1>3, Steps, QuietSteps

\* With the invariants before it: a frame that is read is about no request that
\* was overtaken.
THEOREM InOrderInvariant == Spec => []InOrder
<1>1. Init => InOrder
  <2>1. ASSUME Init  PROVE DOMAIN toServer = {}  BY <2>1 DEF Init, WireInit
  <2>2. QED  BY <2>1 DEF InOrder
<1>2. QED
  BY <1>1, InOrderStep, TypeCorrect, RequestsAreSentOnce, WaitersInvariant, PTL DEF Spec

LEMMA NewlyWaited ==
    ASSUME TypeOK, SentOnce, [Next]_vars, NEW c \in Calls, Waits(c)', ~Waits(c)
    PROVE  handler[c] = "none" /\ handler'[c] = "none"
<1>1. CASE Quiet  BY <1>1 DEF Quiet, CallersGo, HandlersStay, Waits, SentOnce
<1>2. ASSUME NEW d \in Calls, CallerWrites(d)  PROVE FALSE
  BY <1>2, WritingSteps DEF Written, Waits
<1>3. ASSUME NEW d \in Calls, ServerReadsFrame(d)  PROVE FALSE
  BY <1>3 DEF ServerReadsFrame, clientVars, Waits
<1>4. QED  BY <1>1, <1>2, <1>3, Steps, QuietSteps

\* The frame that the server reads comes before none that is waited for.
LEMMA ReadInOrder ==
    ASSUME TypeOK, InOrder, NEW c \in Calls, NEW kind \in {"request", "cancelled"},
           toServer # <<>>, Head(toServer) = Frame(kind, c),
           NEW d \in Calls, d # c, IdOf[d] = IdOf[c], handler[d] # "none"
    PROVE  ~Waits(d)
<1>1. 1 \in DOMAIN toServer /\ toServer[1].of = c  BY DEF TypeOK, WireTypeOK, Frame
<1>2. AheadOf(d, 1)  BY DEF AheadOf
<1>3. QED  BY <1>1, <1>2 DEF InOrder

LEMMA CancellableStep ==
    ASSUME TypeOK, SentOnce, InOrder, WantedIsCancellable, [Next]_vars
    PROVE  WantedIsCancellable'
<1> USE IdsOfCalls DEF TypeOK, ServerTypeOK, Becomes
<1> SUFFICES ASSUME NEW c \in Calls, Waits(c)', Handling(c)'
             PROVE  inFlight'[IdOf[c]] = c
  BY DEF WantedIsCancellable
<1>1. Waits(c)  BY NewlyWaited DEF Handling
<1>2. Handling(c) => inFlight[IdOf[c]] = c  BY <1>1 DEF WantedIsCancellable
<1>3. CASE UNCHANGED <<inFlight, handler>>  BY <1>2, <1>3 DEF Handling
<1>4. ASSUME NEW d \in Calls, ReadRequest(d)  PROVE inFlight'[IdOf[c]] = c
  <2>1. /\ handler' = [handler EXCEPT ![d] = "queued"]
        /\ inFlight' = [inFlight EXCEPT ![IdOf[d]] = d]
        /\ toServer # <<>> /\ Head(toServer) = Frame("request", d)
    BY <1>4 DEF ReadRequest
  <2>2. CASE d = c  BY <2>1, <2>2
  <2>3. CASE d # c
    <3>1. Handling(c)  BY <2>1, <2>3 DEF Handling
    <3>2. IdOf[d] # IdOf[c]  BY <1>1, <2>1, <2>3, <3>1, ReadInOrder DEF Handling
    <3>3. QED  BY <1>2, <2>1, <3>1, <3>2
  <2>4. QED  BY <2>2, <2>3
<1>5. ASSUME NEW d \in Calls, HandlerMoves(d)  PROVE inFlight'[IdOf[c]] = c
  <2>1. /\ handler[d] \in {"queued", "running"}
        /\ \/ handler' = [handler EXCEPT ![d] = "running"] /\ inFlight' = inFlight
           \/ /\ \E stage \in {"settled", "writing", "closing"} :
                     handler' = [handler EXCEPT ![d] = stage]
              /\ inFlight' = [inFlight EXCEPT ![IdOf[d]] = IF @ = d THEN None ELSE @]
    BY <1>5 DEF HandlerMoves, HandlerRuns, HandlerReturns, HandlerInterrupted, Handling, Forget
  <2>2. Handling(c)  BY <2>1 DEF Handling
  <2>3. CASE d = c  BY <1>2, <2>1, <2>2, <2>3 DEF Handling
  <2>4. CASE d # c  BY <1>2, <2>1, <2>2, <2>4
  <2>5. QED  BY <2>3, <2>4
<1>6. ASSUME NEW d \in Calls, HandlerWrites(d)  PROVE inFlight'[IdOf[c]] = c
  <2>1. handler' = [handler EXCEPT ![d] = "settled"] /\ inFlight' = inFlight
    BY <1>6 DEF HandlerWrites, WriteAnswer, AnswerInterrupted, WriteClosed
  <2>2. Handling(c)  BY <2>1 DEF Handling
  <2>3. QED  BY <1>2, <2>1, <2>2
<1>7. CASE ServerDies
  BY <1>7 DEF ServerDies, Handling
<1>8. QED
  BY <1>3, <1>4, <1>5, <1>6, <1>7, Steps, CallerEffects
     DEF vars, serverVars, CallerWrites, ClientLoop, ServerReadsFrame, ReadCancel, ServerStops,
         ReadEnd, ServerCloses, ServerLeaves

\* Whatever ids are used again, a request that is waited for and at work is
\* found by its cancellation.
THEOREM FoundByCancel == Spec => []WantedIsCancellable
<1>1. Init => WantedIsCancellable
  BY DEF Init, ServerInit, WantedIsCancellable, Handling
<1>2. QED
  BY <1>1, CancellableStep, TypeCorrect, RequestsAreSentOnce, InOrderInvariant, PTL DEF Spec

LEMMA NotCancelledStep ==
    ASSUME TypeOK, SentOnce, InOrder, Entries, OneFrame, WantedIsNotCancelled, [Next]_vars
    PROVE  WantedIsNotCancelled'
<1> SUFFICES ASSUME NEW c \in Calls, asked'[c], Waits(c)'  PROVE FALSE
  BY DEF WantedIsNotCancelled
<1>1. Waits(c) \/ handler[c] = "none"  BY NewlyWaited
<1>2. ~asked[c]  BY <1>1 DEF WantedIsNotCancelled, OneFrame
<1>3. asked' # asked  BY <1>2
<1>4. PICK d \in Calls : ReadCancel(d)
  BY <1>3, Steps, CallerEffects
     DEF vars, serverVars, CallerWrites, ClientLoop, ServerReadsFrame, ReadRequest, ReadCancel,
         ServerStops, ReadEnd, ServerCloses, ServerLeaves, ServerDies, HandlerMoves, HandlerWrites,
         HandlerRuns, HandlerReturns, HandlerInterrupted, WriteAnswer, AnswerInterrupted,
         WriteClosed
<1>5. /\ toServer # <<>> /\ Head(toServer) = Frame("cancelled", d)
      /\ inFlight[IdOf[d]] # None
      /\ asked' = [asked EXCEPT ![inFlight[IdOf[d]]] = TRUE]
  BY <1>3, <1>4 DEF ReadCancel
<1>6. inFlight[IdOf[d]] = c  BY <1>2, <1>5 DEF TypeOK, ServerTypeOK
<1>7. IdOf[c] = IdOf[d] /\ handler[c] # "none"
  BY <1>5, <1>6, IdsOfCalls DEF Entries, Handling
<1>8. Waits(c)  BY <1>1, <1>7
<1>9. CASE d = c
  <2>1. 1 \in DOMAIN toServer /\ toServer[1] = Frame("cancelled", c)
    BY <1>5, <1>9 DEF TypeOK, WireTypeOK
  <2>2. QED  BY <1>8, <2>1 DEF SentOnce, Waits
<1>10. CASE d # c  BY <1>5, <1>7, <1>8, <1>10, ReadInOrder
<1>11. QED  BY <1>9, <1>10

\* Whatever ids are used again, no late cancellation hits a request that its
\* caller waits for.
THEOREM NotHitByCancel == Spec => []WantedIsNotCancelled
<1>1. Init => WantedIsNotCancelled
  BY DEF Init, ServerInit, WantedIsNotCancelled
<1>2. QED
  BY <1>1, NotCancelledStep, TypeCorrect, RequestsAreSentOnce, InOrderInvariant,
     HandlersAnswerOnce, PTL DEF Spec
=============================================================================
