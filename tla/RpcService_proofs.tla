-------------------------- MODULE RpcService_proofs --------------------------
EXTENDS RpcService, RpcSession_proofs

(***************************************************************************)
(* An answer is in one mailbox.                                            *)
(***************************************************************************)
\* An answer leaves the pipe once, for one mailbox at most.
THEOREM HandedToOne == Spec => []OneMailbox
<1>1. Init => OneMailbox
  BY DEF Init, ClientInit, NoOutcome, Outcome, OneMailbox
<1>2. TypeOK /\ OneFrame /\ OneAnswer /\ OneMailbox /\ [Next]_vars => OneMailbox'
  <2> SUFFICES ASSUME TypeOK, OneFrame, OneAnswer, OneMailbox, [Next]_vars
               PROVE  OneMailbox'
    OBVIOUS
  <2>1. CASE mailbox' = mailbox  BY <2>1 DEF OneMailbox
  <2>2. CASE ClientLoop
    <3>1. CASE \A c \in Calls : mailbox'[c] = mailbox[c] \/ mailbox'[c].by = None
      BY <3>1 DEF OneMailbox
    <3>2. CASE /\ toClient # <<>>
               /\ \A c \in Calls :
                     \/ mailbox'[c] = mailbox[c]
                     \/ /\ c = pending[IdOf[toClient[1].of]]
                        /\ mailbox'[c].by = toClient[1].of
      <4>1. toClient \in Seq(Incoming)  BY DEF TypeOK, WireTypeOK
      <4>2. 1 \in DOMAIN toClient /\ toClient[1] \in Incoming  BY <3>2, <4>1
      <4>3. toClient[1].of \in Calls  BY <4>2 DEF Incoming
      <4>4. \A e \in Calls : mailbox[e].by # toClient[1].of
        BY <4>2, <4>3 DEF OneAnswer
      <4>5. QED  BY <3>2, <4>4 DEF OneMailbox
    <3>3. QED  BY <2>2, <3>1, <3>2, LoopEffects
  <2>3. QED  BY <2>1, <2>2, AnswerSteps DEF clientVars
<1>3. Answers => OneAnswer  BY DEF Answers
<1>4. QED
  BY <1>1, <1>2, <1>3, TypeCorrect, HandlersAnswerOnce, AnswersInvariant, PTL DEF Spec

(***************************************************************************)
(* Every step is a step of the service or changes nothing it shows.        *)
(***************************************************************************)
Stages == [d \in Calls |-> StageOf(caller[d])]

Works == [d \in Calls |-> WorkOf(frames[d], handler[d])]

Gots == [d \in Calls |-> outcome[d].by]

LEMMA StageMoves ==
    ASSUME TypeOK, NEW c \in Calls, NEW to, caller' = [caller EXCEPT ![c] = to]
    PROVE  Stages' = [Stages EXCEPT ![c] = StageOf(to)]
<1>1. \A d \in Calls : caller'[d] = IF d = c THEN to ELSE caller[d]
  BY DEF TypeOK, ClientTypeOK
<1>2. \A d \in Calls : StageOf(caller'[d]) = IF d = c THEN StageOf(to) ELSE StageOf(caller[d])
  BY <1>1
<1>3. QED  BY <1>2 DEF Stages

LEMMA GotsMove ==
    ASSUME TypeOK, NEW c \in Calls, NEW got, outcome' = [outcome EXCEPT ![c] = got]
    PROVE  Gots' = [Gots EXCEPT ![c] = got.by]
BY DEF TypeOK, ClientTypeOK, Gots

\* Until it is done a caller was handed nothing.
LEMMA HandedNothing ==
    ASSUME TypeOK, Waiters, NEW c \in Calls, caller[c] # "done"
    PROVE  Gots[c] = None
BY DEF TypeOK, ClientTypeOK, Waiters, KeepsOutcome, Gots, Outcomes

LEMMA WorkValues ==
    ASSUME NEW place
    PROVE  /\ place = "none" => WorkOf(0, place) = "none"
           /\ place # "none" => WorkOf(0, place) = "begun"
           /\ WorkOf(1, place) = "answered"
BY DEF WorkOf

\* The server's part is hidden but for its frames and the first step of a handler.
LEMMA WorksStay ==
    ASSUME TypeOK, OneFrame, HandlersStay, UNCHANGED frames
    PROVE  UNCHANGED Works
<1>1. ASSUME NEW c \in Calls  PROVE WorkOf(frames'[c], handler'[c]) = WorkOf(frames[c], handler[c])
  <2>1. frames[c] \in {0, 1}  BY DEF TypeOK, ServerTypeOK, OneFrame
  <2>2. QED  BY <2>1, WorkValues DEF HandlersStay
<1>2. QED  BY <1>1 DEF Works

LEMMA ReturnsWithout ==
    ASSUME TypeOK, Waiters, NEW c \in Calls, Registered(c), NEW got, got.by = None,
           Returns(c, caller[c], got), UNCHANGED serverVars
    PROVE  Service!CloseWithout(c)
<1>1. Stages[c] \in {"open", "leaving"}  BY DEF Registered, Stages, StageOf
<1>2. Stages' = [Stages EXCEPT ![c] = "closed"]
  BY StageMoves DEF Returns, Goes, StageOf
<1>3. Gots' = Gots
  <2>1. Gots[c] = None  BY HandedNothing DEF Registered
  <2>2. Gots' = [Gots EXCEPT ![c] = None]  BY GotsMove DEF Returns
  <2>3. QED  BY <2>1, <2>2 DEF Gots
<1>4. QED
  BY <1>1, <1>2, <1>3
     DEF Stages, Gots, serverVars, Service!CloseWithout, Service!Moves

LEMMA WakesImplements ==
    ASSUME TypeOK, OneFrame, Waiters, Answers, OneMailbox, NEW c \in Calls,
           Wakes(c), UNCHANGED serverVars
    PROVE  Service!Next
<1>1. caller[c] = "waiting" /\ Returns(c, caller[c], mailbox[c])
  BY DEF Wakes, Returns, Goes
<1>2. CASE mailbox[c].by = None
  BY <1>1, <1>2, ReturnsWithout DEF Registered, Service!Next
<1>3. CASE mailbox[c].by # None
  <2>1. PICK d \in Calls : mailbox[c].by = d
    BY <1>3 DEF TypeOK, ClientTypeOK, Outcomes
  <2>2. Stages[c] = "open" /\ Stages' = [Stages EXCEPT ![c] = "closed"]
    BY <1>1, StageMoves DEF Returns, Goes, Stages, StageOf
  <2>3. Gots' = [Gots EXCEPT ![c] = d]  BY <1>1, <2>1, GotsMove DEF Returns
  <2>4. Works[d] = "answered"
    <3>1. frames[d] # 0  BY <2>1 DEF Answers, OneAnswer
    <3>2. frames[d] = 1  BY <3>1 DEF OneFrame, TypeOK, ServerTypeOK
    <3>3. QED  BY <3>2, WorkValues DEF Works
  <2>5. ASSUME NEW e \in Calls  PROVE Gots[e] # d
    <3> SUFFICES ASSUME outcome[e].by = d PROVE FALSE  BY DEF Gots
    <3>1. caller[e] = "done" /\ mailbox[e].by = d
      BY <1>3, <2>1 DEF Waiters, KeepsOutcome
    <3>2. e = c  BY <1>3, <2>1, <3>1 DEF OneMailbox
    <3>3. QED  BY <1>1, <3>1, <3>2
  <2>6. d = c \/ (IdOf[d] = IdOf[c] /\ Stages[d] = "closed")
    BY <2>1 DEF Answers, LateAnswers, Stages, StageOf
  <2>7. Service!CloseWith(c, d)
    BY <2>2, <2>3, <2>4, <2>5, <2>6
       DEF Stages, Gots, Works, serverVars, Service!CloseWith, Service!Fits, Service!Moves
  <2>8. QED  BY <2>7 DEF Service!Next
<1>4. QED  BY <1>2, <1>3

LEMMA CallerImplements ==
    ASSUME TypeOK, OneFrame, Waiters, Answers, OneMailbox, NEW c \in Calls,
           CallerOnly(c) \/ CallerWrites(c)
    PROVE  [Service!Next]_(Service!vars)
<1>1. UNCHANGED serverVars  BY DEF CallerOnly, CallerWrites
<1>2. UNCHANGED <<Works, asked>>  BY <1>1 DEF serverVars, Works
<1>3. CASE Issue(c)
  <2>1. Stages[c] = "idle" /\ Stages' = [Stages EXCEPT ![c] = "open"] /\ UNCHANGED Gots
    BY <1>3, StageMoves DEF Issue, Goes, Stages, StageOf, Gots
  <2>2. ASSUME NEW d \in Calls, IdOf[d] = IdOf[c]
        PROVE  Stages[d] \notin {"open", "leaving"}
    <3>1. pending[IdOf[d]] # d  BY <1>3, <2>2, WireAssumption DEF Issue
    <3>2. ~Registered(d)  BY <1>3, <3>1 DEF Issue, Waiters, HasWaiter
    <3>3. QED  BY <3>2 DEF Registered, Stages, StageOf, TypeOK, ClientTypeOK, CallerStages
  <2>3. Service!Open(c)
    BY <1>2, <2>1, <2>2 DEF Stages, Gots, Works, Service!Open, Service!Moves
  <2>4. QED  BY <2>3 DEF Service!Next
<1>4. CASE Refuse(c)
  <2>1. Stages[c] = "idle" /\ Stages' = [Stages EXCEPT ![c] = "closed"]
    BY <1>4, StageMoves DEF Refuse, Goes, Stages, StageOf
  <2>2. Gots' = [Gots EXCEPT ![c] = None]
    <3>1. PICK got \in {Closed, Outcome("refused", None)} :
                   outcome' = [outcome EXCEPT ![c] = got]
      BY <1>4 DEF Refuse
    <3>2. got.by = None  BY <3>1 DEF Closed, Outcome
    <3>3. Gots' = [Gots EXCEPT ![c] = got.by]  BY <3>1, GotsMove
    <3>4. QED  BY <3>2, <3>3
  <2>3. Gots[c] = None  BY <1>4, HandedNothing DEF Refuse, Goes
  <2>4. Gots' = Gots  BY <2>2, <2>3 DEF Gots
  <2>5. Service!Refuse(c)
    BY <1>2, <2>1, <2>4 DEF Stages, Gots, Works, Service!Refuse, Service!Moves
  <2>6. QED  BY <2>5 DEF Service!Next
<1>5. ASSUME Registered(c), NEW to \in {"timedOut", "cancelled"},
             caller' = [caller EXCEPT ![c] = to], UNCHANGED outcome
      PROVE  [Service!Next]_(Service!vars)
  <2>1. Stages' = [Stages EXCEPT ![c] = "leaving"] /\ UNCHANGED Gots
    BY <1>5, StageMoves DEF StageOf, Gots
  <2>2. CASE Stages[c] = "open"
    <3>1. Service!GiveUp(c)
      BY <1>2, <2>1, <2>2 DEF Stages, Gots, Works, Service!GiveUp, Service!Moves
    <3>2. QED  BY <3>1 DEF Service!Next
  <2>3. CASE Stages[c] = "leaving"
    <3>1. Stages' = Stages  BY <2>1, <2>3 DEF Stages
    <3>2. QED  BY <1>2, <2>1, <3>1 DEF Stages, Gots, Works, Service!vars
  <2>4. QED  BY <1>5, <2>2, <2>3 DEF Registered, Stages, StageOf
<1>6. CASE TimesOut(c)  BY <1>5, <1>6 DEF TimesOut, Goes, Registered
<1>7. ASSUME NEW got, got.by = None, Registered(c), Returns(c, caller[c], got)
      PROVE  Service!Next
  BY <1>1, <1>7, ReturnsWithout DEF Service!Next
<1>8. CASE WriteFails(c, Broken)
  BY <1>7, <1>8 DEF WriteFails, Returns, Goes, Registered, Closed, Outcome
<1>9. CASE CallerCancels(c)
  <2>1. CASE Returns(c, "writing", Outcome("cancelled", None))
    BY <1>7, <2>1 DEF Returns, Goes, Registered, Outcome
  <2>2. CASE \E stage \in {"writing", "waiting"} : Goes(c, stage, "cancelled")
             /\ UNCHANGED outcome
    BY <1>5, <2>2 DEF Goes, Registered
  <2>3. QED  BY <1>9, <2>1, <2>2 DEF CallerCancels
<1>10. CASE WithdrawGivesUp(c) \/ Withdraw(c, Broken)
  <2>1. \E stage \in {"timedOut", "cancelled"}, kind \in {"timedOut", "cancelled"} :
           Returns(c, stage, Outcome(kind, None))
    BY <1>10 DEF WithdrawGivesUp, Withdraw
  <2>2. QED  BY <1>7, <2>1 DEF Returns, Goes, Registered, Outcome
<1>11. CASE Wakes(c)  BY <1>1, <1>11, WakesImplements
<1>12. CASE WriteRequest(c, Broken)
  <2>1. Stages[c] = "open" /\ Stages' = [Stages EXCEPT ![c] = "open"] /\ UNCHANGED Gots
    BY <1>12, StageMoves DEF WriteRequest, Goes, Stages, StageOf, Gots
  <2>2. Stages' = Stages  BY <2>1 DEF Stages
  <2>3. QED  BY <1>2, <2>1, <2>2 DEF Stages, Gots, Works, Service!vars
<1>13. QED
  BY <1>3, <1>4, <1>6, <1>8, <1>9, <1>10, <1>11, <1>12 DEF CallerOnly, CallerWrites

LEMMA ReadsImplement ==
    ASSUME TypeOK, SentOnce, Entries, OneFrame, WantedIsNotCancelled',
           NEW c \in Calls, ServerReadsFrame(c)
    PROVE  [Service!Next]_(Service!vars)
<1> USE DEF ServerReadsFrame
<1>1. UNCHANGED <<Stages, Gots, frames, caller>>
  BY DEF ReadRequest, ReadCancel, clientVars, Stages, Gots
<1>2. CASE ReadRequest(c)
  <2>1. 1 \in DOMAIN toServer /\ Sent(1, c)
    BY <1>2 DEF ReadRequest, TypeOK, WireTypeOK, Sent
  <2>2. handler[c] = "none" /\ frames[c] = 0 /\ caller[c] # "idle"
    BY <2>1 DEF SentOnce, Sent, Frame, OneFrame
  <2>3. Stages[c] # "idle" /\ Works[c] = "none"
    BY <2>2 DEF Stages, StageOf, Works, WorkOf, TypeOK, ClientTypeOK, CallerStages
  <2>4. Works' = [Works EXCEPT ![c] = "begun"]
    <3>1. \A d \in Calls : handler'[d] = IF d = c THEN "queued" ELSE handler[d]
      BY <1>2 DEF ReadRequest, Becomes, TypeOK, ServerTypeOK
    <3>2. \A d \in Calls : WorkOf(frames'[d], handler'[d])
                             = IF d = c THEN "begun" ELSE WorkOf(frames[d], handler[d])
      BY <1>1, <2>2, <3>1, WorkValues
    <3>3. QED  BY <3>2 DEF Works
  <2>5. Service!Begin(c)
    BY <1>1, <1>2, <2>3, <2>4 DEF ReadRequest, Stages, Works, Gots, Service!Begin
  <2>6. QED  BY <2>5 DEF Service!Next
<1>3. CASE ReadCancel(c)
  <2>1. caller[c] = "done"
    BY <1>3 DEF ReadCancel, TypeOK, WireTypeOK, SentOnce
  <2>2. UNCHANGED Works  BY <1>1, <1>3 DEF ReadCancel, Works
  <2>3. CASE inFlight[IdOf[c]] = None
    BY <1>1, <1>3, <2>2, <2>3 DEF ReadCancel, Stages, Works, Gots, Service!vars
  <2>4. CASE inFlight[IdOf[c]] # None
    <3>1. PICK d \in Calls : d = inFlight[IdOf[c]]
      BY <2>4, IdsOfCalls DEF TypeOK, ServerTypeOK
    <3>2. IdOf[d] = IdOf[c] /\ Handling(d)
      BY <2>4, <3>1, IdsOfCalls DEF Entries
    <3>3. Works[d] = "begun"
      BY <3>2 DEF Handling, OneFrame, Works, WorkOf
    <3>4. asked' = [asked EXCEPT ![d] = TRUE] /\ asked'[d]
      BY <1>3, <2>4, <3>1 DEF ReadCancel, TypeOK, ServerTypeOK
    <3>5. ~Waits(d)  BY <1>1, <3>4 DEF WantedIsNotCancelled, Waits
    <3>6. Stages[d] # "open"  BY <3>5 DEF Waits, Stages, StageOf
    <3>7. Stages[c] = "closed"  BY <2>1 DEF Stages, StageOf
    <3>8. Service!Revoke(d)
      BY <1>1, <2>2, <3>2, <3>3, <3>4, <3>6, <3>7 DEF Stages, Works, Gots, Service!Revoke
    <3>9. QED  BY <3>8 DEF Service!Next
  <2>5. QED  BY <2>3, <2>4
<1>4. QED  BY <1>2, <1>3

LEMMA WritesImplement ==
    ASSUME TypeOK, OneFrame, NEW c \in Calls, HandlerWrites(c)
    PROVE  [Service!Next]_(Service!vars)
<1>1. UNCHANGED <<Stages, Gots, asked>>
  BY DEF HandlerWrites, WriteAnswer, AnswerInterrupted, WriteClosed, clientVars, Stages, Gots
<1>2. handler[c] \in {"writing", "closing"} /\ handler' = [handler EXCEPT ![c] = "settled"]
  BY DEF HandlerWrites, WriteAnswer, AnswerInterrupted, WriteClosed, Becomes
<1>3. CASE UNCHANGED frames
  <2>1. UNCHANGED Works  BY <1>3, QuietSteps, WorksStay DEF Quiet
  <2>2. QED  BY <1>1, <2>1 DEF Stages, Works, Gots, Service!vars
<1>4. CASE frames' = [frames EXCEPT ![c] = @ + 1]
  <2>1. frames[c] = 0 /\ ~asked[c]  BY <1>2 DEF OneFrame
  <2>2. \A d \in Calls : frames'[d] = IF d = c THEN 1 ELSE frames[d]
    BY <1>4, <2>1 DEF TypeOK, ServerTypeOK
  <2>3. \A d \in Calls : handler'[d] = IF d = c THEN "settled" ELSE handler[d]
    BY <1>2 DEF TypeOK, ServerTypeOK
  <2>4. Works[c] = "begun"  BY <1>2, <2>1 DEF Works, WorkOf
  <2>5. \A d \in Calls : WorkOf(frames'[d], handler'[d])
                           = IF d = c THEN "answered" ELSE WorkOf(frames[d], handler[d])
    BY <2>2, <2>3, WorkValues
  <2>6. Works' = [Works EXCEPT ![c] = "answered"]  BY <2>5 DEF Works
  <2>7. Service!Answer(c)
    BY <1>1, <2>1, <2>4, <2>6 DEF Stages, Works, Gots, Service!Answer
  <2>8. QED  BY <2>7 DEF Service!Next
<1>5. QED
  BY <1>3, <1>4
     DEF HandlerWrites, WriteAnswer, AnswerInterrupted, WriteClosed, Delivers

\* Every step of the session.
LEMMA StepImplements ==
    ASSUME TypeOK, SentOnce, InOrder, Entries, OneFrame, Waiters, Answers, OneMailbox,
           WantedIsNotCancelled, [Next]_vars
    PROVE  [Service!Next]_(Service!vars)
<1>1. CASE UNCHANGED vars
  BY <1>1 DEF vars, clientVars, serverVars, Service!vars
<1>2. CASE \E c \in Calls : CallerOnly(c) \/ CallerWrites(c)  BY <1>2, CallerImplements
<1>3. CASE \E c \in Calls : ServerReadsFrame(c)
  <2>1. WantedIsNotCancelled'  BY NotCancelledStep
  <2>2. QED  BY <1>3, <2>1, ReadsImplement
<1>4. CASE \E c \in Calls : HandlerWrites(c)  BY <1>4, WritesImplement
<1>5. CASE ServerStops \/ \E c \in Calls : HandlerMoves(c)
  <2>1. UNCHANGED <<frames, asked, clientVars>>
    BY <1>5 DEF ServerStops, ReadEnd, ServerCloses, ServerLeaves, ServerDies, HandlerMoves,
                HandlerRuns, HandlerReturns, HandlerInterrupted
  <2>2. UNCHANGED Works  BY <1>5, <2>1, QuietSteps, WorksStay DEF Quiet
  <2>3. QED  BY <2>1, <2>2 DEF Works, clientVars, Service!vars
<1>6. CASE ClientLoop
  BY <1>6 DEF ClientLoop, ClientReads, ClientEnds, serverVars, Service!vars
<1>7. QED  BY <1>1, <1>2, <1>3, <1>4, <1>5, <1>6, Steps

\* Two dispatchers, their tasks and two pipes implement the service.
THEOREM Implements == Spec => ImplementsCalls
<1>1. Init => Service!Init
  <2> SUFFICES ASSUME Init  PROVE Service!Init  OBVIOUS
  <2>1. Stages = [c \in Calls |-> "idle"]  BY DEF Init, ClientInit, Stages, StageOf
  <2>2. Works = [c \in Calls |-> "none"]  BY DEF Init, ServerInit, Works, WorkOf
  <2>3. Gots = [c \in Calls |-> None]  BY DEF Init, ClientInit, NoOutcome, Outcome, Gots
  <2>4. asked = [c \in Calls |-> FALSE]  BY DEF Init, ServerInit
  <2>5. QED
    BY <2>1, <2>2, <2>3, <2>4 DEF Stages, Works, Gots, Service!Init
<1>2. TypeOK /\ SentOnce /\ InOrder /\ Entries /\ OneFrame /\ Waiters /\ Answers /\
      OneMailbox /\ WantedIsNotCancelled /\ [Next]_vars => [Service!Next]_(Service!vars)
  BY StepImplements
<1>3. QED
  BY <1>1, <1>2, TypeCorrect, RequestsAreSentOnce, InOrderInvariant, HandlersAnswerOnce,
     WaitersInvariant, AnswersInvariant, HandedToOne, NotHitByCancel, PTL
     DEF Spec, ImplementsCalls, Service!Spec
=============================================================================
