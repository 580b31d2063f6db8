------------------------ MODULE BeamPipeline_proofs ------------------------
EXTENDS BeamInvariant, TLAPS

\* The steps of the processes of a call, whatever the files show its journal.
JournalMoves(c) ==
    \E statusRefusals, errorRefusals, held :
        JournalClears(c, statusRefusals, errorRefusals) \/ JournalWaits(c, held)

Moves(c) == ToolMoves(c) \/ ControllerMoves(c) \/ WorkbenchMoves(c) \/ JournalMoves(c)

Steps == (\E c \in Calls : Moves(c)) \/ UNCHANGED vars

LEMMA NextIsSteps ==
    ASSUME [Next]_vars
    PROVE  Steps
BY DEF Next, AllOver, Steps, Moves, JournalMoves

(***************************************************************************)
(* Type correctness, component by component.                               *)
(***************************************************************************)
LEMMA ToolStepTypes ==
    ASSUME TypeOK, NEW c \in Calls, CallRun(c) \/ CallGet(c) \/ ToolStep(c)
    PROVE  FilesTypeOK' /\ ToolTypeOK'
<1> USE CallsAssumption DEF TypeOK, FilesTypeOK, ToolTypeOK, Return, Go, Note, Answer,
        Writers, DataTexts, ToolStages, RunStages, GetStages, AnswerKinds, NoReport, Report,
        fileVars
<1>1. CASE CallRun(c)  BY <1>1 DEF CallRun
<1>2. CASE CallGet(c)  BY <1>2 DEF CallGet
<1>3. CASE RejectRun(c)  BY <1>3 DEF RejectRun
<1>4. CASE OpenInput(c)  BY <1>4 DEF OpenInput
<1>5. CASE CloseInput(c)  BY <1>5 DEF CloseInput
<1>6. CASE InputRaises(c)  BY <1>6 DEF InputRaises
<1>7. CASE SpawnFails(c)  BY <1>7 DEF SpawnFails
<1>8. CASE ResultsMissing(c)  BY <1>8 DEF ResultsMissing
<1>9. CASE ResultsFound(c)  BY <1>9 DEF ResultsFound
<1>10. CASE ReadResults(c)  BY <1>10 DEF ReadResults
<1>11. CASE GetNothing(c)  BY <1>11 DEF GetNothing
<1>12. CASE GetFound(c)  BY <1>12 DEF GetFound
<1>13. CASE GetResults(c)  BY <1>13 DEF GetResults, Unreadable
<1>14. QED
  BY <1>1, <1>2, <1>3, <1>4, <1>5, <1>6, <1>7, <1>8, <1>9, <1>10, <1>11, <1>12, <1>13
     DEF ToolStep

LEMMA ControllerStepTypes ==
    ASSUME TypeOK, NEW c \in Calls,
           CtlStep(c) \/ CtlAccident(c) \/ PollSeesEnd(c, wb[c] = "ended")
    PROVE  FilesTypeOK' /\ CtlTypeOK'
<1> USE CallsAssumption DEF TypeOK, FilesTypeOK, CtlTypeOK, CtlGo, CtlExit, Note, Writers,
        DataTexts, StatusTexts, CtlStages, fileVars
<1>1. CASE WriteStarting(c)  BY <1>1 DEF WriteStarting
<1>2. CASE LoadInput(c)  BY <1>2 DEF LoadInput
<1>3. CASE LoadRaises(c)  BY <1>3 DEF LoadRaises
<1>4. CASE PopenRaises(c)  BY <1>4 DEF PopenRaises
<1>5. CASE WriteRunning(c)  BY <1>5 DEF WriteRunning
<1>6. CASE StatusWriteRaises(c)
  <2>1. status' \in {status, Note("empty", c)}  BY <1>6 DEF StatusWriteRaises, Torn
  <2>2. QED  BY <1>6, <2>1 DEF StatusWriteRaises
<1>7. CASE HandlerWritesError(c)  BY <1>7 DEF HandlerWritesError
<1>8. CASE HandlerWritesFailed(c)  BY <1>8 DEF HandlerWritesFailed
<1>9. CASE HandlerRaises(c)
  <2>1. status' \in {status, Note("empty", c)} /\ error' \in {error, Note("empty", c)}
    BY <1>9 DEF HandlerRaises, Torn
  <2>2. QED  BY <1>9, <2>1 DEF HandlerRaises
<1>10. CASE CtlAccident(c)  BY <1>10 DEF CtlAccident, Interrupt, Kill
<1>11. CASE PollSeesEnd(c, wb[c] = "ended")  BY <1>11 DEF PollSeesEnd
<1>12. QED
  BY <1>1, <1>2, <1>3, <1>4, <1>5, <1>6, <1>7, <1>8, <1>9, <1>10, <1>11 DEF CtlStep

LEMMA JournalStepTypes ==
    ASSUME TypeOK, NEW c \in Calls, NEW statusRefusals, NEW errorRefusals, NEW held,
           \/ JournalClearsStatus(c, statusRefusals) \/ JournalClearsError(c, errorRefusals)
           \/ JournalBuilds(c) \/ JournalAborts(c)
           \/ JournalSends(c) \/ JournalSent(c) \/ JournalSendRaises(c)
           \/ JournalWaitStep(c, held)
    PROVE  FilesTypeOK' /\ WorkbenchTypeOK'
<1> USE CallsAssumption, MaxPollsAssumption
    DEF TypeOK, FilesTypeOK, WorkbenchTypeOK, JnlGo, Missing, Note, Writers, DataTexts,
        StatusTexts, JournalStages, MechStages, Up, fileVars
<1>1. CASE JournalClearsStatus(c, statusRefusals)
  <2>1. status' \in {status, Missing}  BY <1>1 DEF JournalClearsStatus
  <2>2. QED  BY <1>1, <2>1 DEF JournalClearsStatus
<1>2. CASE JournalClearsError(c, errorRefusals)
  <2>1. error' \in {error, Missing}  BY <1>2 DEF JournalClearsError
  <2>2. QED  BY <1>2, <2>1 DEF JournalClearsError
<1>3. CASE JournalBuilds(c) \/ JournalAborts(c)  BY <1>3 DEF JournalBuilds, JournalAborts
<1>4. CASE JournalSends(c)  BY <1>4 DEF JournalSends
<1>5. CASE JournalSent(c) \/ JournalSendRaises(c)  BY <1>5 DEF JournalSent, JournalSendRaises
<1>6. CASE JournalSeesVerdict(c, held)
  <2>1. verdict' \in [Calls -> [text : StatusTexts, by : Writers]]
    BY <1>6 DEF JournalSeesVerdict, Seen
  <2>2. QED  BY <1>6, <2>1 DEF JournalSeesVerdict
<1>7. CASE JournalPollsAgain(c, held)
  <2>1. polls[c] + 1 \in 0 .. MaxPolls  BY <1>7 DEF JournalPollsAgain
  <2>2. QED  BY <1>7, <2>1 DEF JournalPollsAgain
<1>8. CASE JournalTimesOut(c)  BY <1>8 DEF JournalTimesOut
<1>9. CASE JournalSaves(c)  BY <1>9 DEF JournalSaves
<1>10. QED
  BY <1>1, <1>2, <1>3, <1>4, <1>5, <1>6, <1>7, <1>8, <1>9 DEF JournalWaitStep

LEMMA MechanicalStepTypes ==
    ASSUME TypeOK, NEW c \in Calls, MechStep(c) \/ UserCloses(c)
    PROVE  FilesTypeOK' /\ WorkbenchTypeOK'
<1> USE CallsAssumption, MaxPollsAssumption
    DEF TypeOK, FilesTypeOK, WorkbenchTypeOK, MechGo, Note, Report, Writers, StatusTexts,
        DataTexts, JournalStages, MechStages, Up, fileVars
<1>1. CASE MechSolves(c)  BY <1>1 DEF MechSolves
<1>2. CASE MechOpensResults(c)  BY <1>2 DEF MechOpensResults
<1>3. CASE MechWritesResults(c)  BY <1>3 DEF MechWritesResults
<1>4. CASE MechWritesSuccess(c)  BY <1>4 DEF MechWritesSuccess
<1>5. CASE MechSaves(c)  BY <1>5 DEF MechSaves
<1>6. CASE MechRaises(c)  BY <1>6 DEF MechRaises
<1>7. CASE MechWriteRaises(c)
  <2>1. status' \in {status, Note("empty", c)} /\ error' \in {error, Note("empty", c)}
    BY <1>7 DEF MechWriteRaises, Torn
  <2>2. QED  BY <1>7, <2>1 DEF MechWriteRaises
<1>8. CASE MechWritesError(c)  BY <1>8 DEF MechWritesError
<1>9. CASE MechWritesFailed(c)  BY <1>9 DEF MechWritesFailed
<1>10. CASE MechHandlerPasses(c)
  <2>1. status' \in {status, Note("empty", c)} /\ error' \in {error, Note("empty", c)}
    BY <1>10 DEF MechHandlerPasses, Torn
  <2>2. QED  BY <1>10, <2>1 DEF MechHandlerPasses
<1>11. CASE UserCloses(c)  BY <1>11 DEF UserCloses
<1>12. QED
  BY <1>1, <1>2, <1>3, <1>4, <1>5, <1>6, <1>7, <1>8, <1>9, <1>10, <1>11 DEF MechStep

LEMMA TypeInit ==
    ASSUME Init
    PROVE  TypeOK
<1> USE LeftoversAssumption, CallsAssumption
    DEF Init, Note, Report, Writers, DataTexts, StatusTexts
<1>1. FilesTypeOK
  <2>1. PICK left \in Leftovers :
           /\ input = Note(left.input, None) /\ results = Report(left.results, None, None)
           /\ status = Note(left.status, None) /\ error = Note(left.error, None)
    BY DEF FilesInit
  <2>2. left \in [input : DataTexts, results : DataTexts, status : StatusTexts, error : DataTexts]
    OBVIOUS
  <2>3. QED  BY <2>1, <2>2 DEF FilesTypeOK
<1>2. ToolTypeOK /\ CtlTypeOK
  BY DEF ToolInit, CtlInit, ToolTypeOK, CtlTypeOK, Silent, Answer, NoReport, ToolStages,
         AnswerKinds, CtlStages
<1>3. WorkbenchTypeOK
  BY MaxPollsAssumption DEF WorkbenchInit, WorkbenchTypeOK, JournalStages, MechStages, Missing
<1>4. QED  BY <1>1, <1>2, <1>3 DEF TypeOK

LEMMA TypeStep ==
    ASSUME TypeOK, Steps
    PROVE  TypeOK'
<1> USE DEF TypeOK, toolVars, ctlVars, wbVars
<1>1. ASSUME NEW c \in Calls, Call(c) \/ ToolRuns(c)  PROVE TypeOK'
  BY <1>1, ToolStepTypes DEF Call, ToolRuns, CtlTypeOK, WorkbenchTypeOK
<1>2. ASSUME NEW c \in Calls, ToolSpawns(c)  PROVE TypeOK'
  BY <1>2 DEF ToolSpawns, Spawn, Go, CtlStart, CtlGo, FilesTypeOK, ToolTypeOK, CtlTypeOK,
              WorkbenchTypeOK, ToolStages, RunStages, CtlStages, fileVars
<1>3. ASSUME NEW c \in Calls, ToolReturns(c)  PROVE TypeOK'
  <2> USE CallsAssumption
      DEF Return, Go, Answer, NoReport, Report, FilesTypeOK, ToolTypeOK, CtlTypeOK,
          WorkbenchTypeOK, ToolStages, RunStages, AnswerKinds, Writers, DataTexts, fileVars
  <2>1. CASE ReportFailure(c, code[c])  BY <1>3, <2>1 DEF ToolReturns, ReportFailure
  <2>2. CASE ControllerReturned(c, code[c])
    BY <1>3, <2>2 DEF ToolReturns, ControllerReturned
  <2>3. QED  BY <1>3, <2>1, <2>2 DEF ToolReturns
<1>4. ASSUME NEW c \in Calls, ControllerRuns(c) \/ ControllerStopped(c) \/ ControllerEnds(c)
      PROVE  TypeOK'
  BY <1>4, ControllerStepTypes
     DEF ControllerRuns, ControllerStopped, ControllerEnds, ToolTypeOK, WorkbenchTypeOK
<1>5. ASSUME NEW c \in Calls, ControllerPopens(c)  PROVE TypeOK'
  BY <1>5 DEF ControllerPopens, Popen, CtlGo, WorkbenchStarts, FilesTypeOK, ToolTypeOK,
              CtlTypeOK, WorkbenchTypeOK, CtlStages, JournalStages, fileVars
<1>6. ASSUME NEW c \in Calls, JournalMoves(c) \/ JournalBuildsModel(c) \/ JournalSendsScript(c)
      PROVE  TypeOK'
  BY <1>6, JournalStepTypes
     DEF JournalMoves, JournalClears, JournalBuildsModel, JournalSendsScript, JournalWaits,
         ToolTypeOK, CtlTypeOK
<1>7. ASSUME NEW c \in Calls, MechanicalRuns(c) \/ UserClosesWorkbench(c)  PROVE TypeOK'
  BY <1>7, MechanicalStepTypes
     DEF MechanicalRuns, UserClosesWorkbench, ToolTypeOK, CtlTypeOK
<1>8. CASE UNCHANGED vars
  BY <1>8 DEF vars, fileVars, FilesTypeOK, ToolTypeOK, CtlTypeOK, WorkbenchTypeOK
<1>9. QED
  BY <1>1, <1>2, <1>3, <1>4, <1>5, <1>6, <1>7, <1>8
     DEF Steps, Moves, ToolMoves, ControllerMoves, WorkbenchMoves

\* Every file, program counter and answer keeps its type, for any number of
\* calls, any bound on the polls and any faults.
THEOREM TypeCorrect == Spec => []TypeOK
<1>1. Init => TypeOK  BY TypeInit
<1>2. TypeOK /\ [Next]_vars => TypeOK'  BY TypeStep, NextIsSteps
<1>3. QED  BY <1>1, <1>2, PTL DEF Spec

(***************************************************************************)
(* Locality: but for the files, a step of a call leaves the others alone.  *)
(***************************************************************************)
SameCall(d) ==
    /\ tool'[d] = tool[d] /\ answer'[d] = answer[d]
    /\ ctl'[d] = ctl[d] /\ code'[d] = code[d]
    /\ wb'[d] = wb[d] /\ jnl'[d] = jnl[d] /\ polls'[d] = polls[d]
    /\ verdict'[d] = verdict[d] /\ mech'[d] = mech[d] /\ solved'[d] = solved[d]

LEMMA ToolIsLocal ==
    ASSUME TypeOK, NEW c \in Calls, ToolMoves(c), NEW d \in Calls, d # c
    PROVE  SameCall(d)
<1> USE DEF TypeOK, ToolTypeOK, CtlTypeOK, Return, Go, CtlGo
<1>1. tool'[d] = tool[d] /\ answer'[d] = answer[d]
  BY DEF ToolMoves, Call, CallRun, CallGet, ToolRuns, ToolStep, RejectRun, OpenInput, CloseInput,
         InputRaises, SpawnFails, ResultsMissing, ResultsFound, ReadResults, GetNothing,
         GetFound, GetResults, ToolSpawns, Spawn, ToolReturns, ReportFailure,
         ControllerReturned
<1>2. ctl'[d] = ctl[d] /\ code'[d] = code[d]
  BY DEF ToolMoves, Call, ToolRuns, ToolReturns, ToolSpawns, CtlStart, ctlVars
<1>3. UNCHANGED wbVars
  BY DEF ToolMoves, Call, ToolRuns, ToolReturns, ToolSpawns
<1>4. QED  BY <1>1, <1>2, <1>3 DEF SameCall, wbVars

LEMMA ControllerIsLocal ==
    ASSUME TypeOK, NEW c \in Calls, ControllerMoves(c), NEW d \in Calls, d # c
    PROVE  SameCall(d)
<1> USE DEF TypeOK, CtlTypeOK, CtlGo, CtlExit
<1>1. UNCHANGED toolVars
  BY DEF ControllerMoves, ControllerRuns, ControllerPopens, ControllerEnds, ControllerStopped
<1>2. ctl'[d] = ctl[d] /\ code'[d] = code[d]
  BY DEF ControllerMoves, ControllerRuns, CtlStep, WriteStarting, LoadInput, LoadRaises,
         PopenRaises, WriteRunning, StatusWriteRaises, HandlerWritesError,
         HandlerWritesFailed, HandlerRaises, ControllerPopens, Popen, ControllerEnds,
         PollSeesEnd, ControllerStopped, CtlAccident, Interrupt, Kill
<1>3. UNCHANGED wbVars \/ WorkbenchStarts(c)
  BY DEF ControllerMoves, ControllerRuns, ControllerPopens, ControllerEnds, ControllerStopped
<1>4. wb'[d] = wb[d] /\ jnl'[d] = jnl[d] /\ UNCHANGED <<polls, verdict, mech, solved>>
  BY <1>3 DEF wbVars, WorkbenchStarts, WorkbenchTypeOK
<1>5. QED  BY <1>1, <1>2, <1>4 DEF SameCall, toolVars

LEMMA WorkbenchIsLocal ==
    ASSUME TypeOK, NEW c \in Calls, WorkbenchMoves(c) \/ JournalMoves(c), NEW d \in Calls, d # c
    PROVE  SameCall(d)
<1> USE DEF TypeOK, WorkbenchTypeOK
<1> DEFINE Same == /\ wb'[d] = wb[d] /\ jnl'[d] = jnl[d] /\ polls'[d] = polls[d]
                   /\ verdict'[d] = verdict[d] /\ mech'[d] = mech[d] /\ solved'[d] = solved[d]
<1>1. CASE JournalBuildsModel(c)
  <2>1. Same
    BY <1>1 DEF JournalBuildsModel, JournalBuilds, JournalAborts, JnlGo
  <2>2. QED  BY <1>1, <2>1 DEF JournalBuildsModel, SameCall, toolVars, ctlVars
<1>2. CASE JournalSendsScript(c)
  <2>1. Same
    BY <1>2 DEF JournalSendsScript, JournalSends, JournalSent, JournalSendRaises, JnlGo
  <2>2. QED  BY <1>2, <2>1 DEF JournalSendsScript, SameCall, toolVars, ctlVars
<1>3. CASE JournalMoves(c)
  <2>1. Same
    BY <1>3 DEF JournalMoves, JournalClears, JournalClearsStatus, JournalClearsError,
                JournalWaits, JournalWaitStep, JournalSeesVerdict, JournalPollsAgain,
                JournalTimesOut, JournalSaves, JnlGo
  <2>2. QED
    BY <1>3, <2>1 DEF JournalMoves, JournalClears, JournalWaits, SameCall, toolVars, ctlVars
<1>4. CASE MechanicalRuns(c)
  <2>1. Same
    BY <1>4 DEF MechanicalRuns, MechStep, MechGo, MechSolves, MechOpensResults,
                MechWritesResults, MechWritesSuccess, MechSaves, MechRaises, MechWriteRaises,
                MechWritesError, MechWritesFailed, MechHandlerPasses
  <2>2. QED  BY <1>4, <2>1 DEF MechanicalRuns, SameCall, toolVars, ctlVars
<1>5. CASE UserClosesWorkbench(c)
  <2>1. Same  BY <1>5 DEF UserClosesWorkbench, UserCloses
  <2>2. QED  BY <1>5, <2>1 DEF UserClosesWorkbench, SameCall, toolVars, ctlVars
<1>6. QED  BY <1>1, <1>2, <1>3, <1>4, <1>5 DEF WorkbenchMoves

\* What holds of a call by itself is kept by the steps of the others.
LEMMA SameLinked ==
    ASSUME NEW d \in Calls, Linked(d), SameCall(d)
    PROVE  Linked(d)'
BY DEF Linked, SameCall, ToolHasController, ControllerHasWorkbench, WorkbenchRunsOnce, Up

(***************************************************************************)
(* Chain: a step of each component of an attended call keeps its tool, its *)
(* controller and its Workbench linked.                                    *)
(***************************************************************************)
LEMMA ChainTool ==
    ASSUME TypeOK, NEW c \in Calls, Linked(c), Attended(c), ToolMoves(c)
    PROVE  Linked(c)'
<1> USE DEF TypeOK, ToolTypeOK, CtlTypeOK, Go, Return, ctlVars, wbVars, Linked
<1>1. CASE Call(c)
  BY <1>1
     DEF Call, CallRun, CallGet, ToolHasController, ControllerHasWorkbench, WorkbenchRunsOnce, Up
<1>2. CASE ToolRuns(c)
  <2>1. ToolHasController(c)'
    <3> USE <1>2 DEF ToolRuns, ToolHasController
    <3>1. CASE RejectRun(c) \/ OpenInput(c) \/ CloseInput(c) \/ InputRaises(c) \/ SpawnFails(c)
      BY <3>1 DEF RejectRun, OpenInput, CloseInput, InputRaises, SpawnFails
    <3>2. CASE ResultsMissing(c) \/ ResultsFound(c) \/ ReadResults(c)
      BY <3>2 DEF ResultsMissing, ResultsFound, ReadResults
    <3>3. CASE GetNothing(c) \/ GetFound(c) \/ GetResults(c)
      BY <3>3 DEF GetNothing, GetFound, GetResults
    <3>4. QED  BY <3>1, <3>2, <3>3 DEF ToolStep
  <2>2. ControllerHasWorkbench(c)' /\ WorkbenchRunsOnce(c)'
    BY <1>2 DEF ToolRuns, ControllerHasWorkbench, WorkbenchRunsOnce, Up
  <2>3. QED  BY <2>1, <2>2
<1>3. CASE ToolSpawns(c)
  BY <1>3
     DEF ToolSpawns, Spawn, CtlStart, CtlGo, ToolHasController, ControllerHasWorkbench,
         WorkbenchRunsOnce, Up
<1>4. CASE ToolReturns(c)
  BY <1>4
     DEF ToolReturns, ReportFailure, ControllerReturned, ToolHasController,
         ControllerHasWorkbench, WorkbenchRunsOnce, Up
<1>5. QED  BY <1>1, <1>2, <1>3, <1>4 DEF ToolMoves

LEMMA ChainController ==
    ASSUME TypeOK, NEW c \in Calls, Linked(c), Attended(c), ControllerMoves(c)
    PROVE  Linked(c)'
<1> USE CallsAssumption
    DEF TypeOK, CtlTypeOK, WorkbenchTypeOK, CtlGo, CtlExit, toolVars, wbVars, Linked
<1>1. CASE ControllerRuns(c)
  <2>1. \/ /\ <<ctl[c], ctl'[c]>> \in
                   {<<"begin", "loading">>, <<"loading", "starting">>,
                    <<"loading", "handling">>, <<"starting", "handling">>,
                    <<"launched", "polling">>, <<"handling", "handled">>}
           /\ code'[c] = code[c]
        \/ /\ ctl[c] = "handled" /\ ctl'[c] = "exited"
           /\ code'[c] = 0
    <3> USE <1>1 DEF ControllerRuns
    <3>1. CASE WriteStarting(c) \/ LoadInput(c) \/ LoadRaises(c)
      BY <3>1 DEF WriteStarting, LoadInput, LoadRaises
    <3>2. CASE PopenRaises(c) \/ WriteRunning(c) \/ HandlerWritesError(c)
      BY <3>2 DEF PopenRaises, WriteRunning, HandlerWritesError
    <3>3. CASE HandlerWritesFailed(c)  BY <3>3 DEF HandlerWritesFailed
    <3>4. ~StatusWriteRaises(c) /\ ~HandlerRaises(c)
      BY DEF StatusWriteRaises, HandlerRaises, Attended
    <3>5. QED  BY <3>1, <3>2, <3>3, <3>4 DEF CtlStep
  <2>2. ToolHasController(c)'
    BY <1>1, <2>1 DEF ControllerRuns, ToolHasController
  <2>3. ControllerHasWorkbench(c)' /\ WorkbenchRunsOnce(c)'
    BY <1>1, <2>1
       DEF ControllerRuns, ControllerHasWorkbench, WorkbenchRunsOnce, Up
  <2>4. QED  BY <2>2, <2>3
<1>2. CASE ControllerPopens(c)
  <2>1. ToolHasController(c)' /\ ControllerHasWorkbench(c)'
    BY <1>2
       DEF ControllerPopens, Popen, WorkbenchStarts, ToolHasController, ControllerHasWorkbench, Up
  <2>2. WorkbenchRunsOnce(c)'
    BY <1>2
       DEF ControllerPopens, Popen, WorkbenchStarts, ControllerHasWorkbench, WorkbenchRunsOnce, Up
  <2>3. QED  BY <2>1, <2>2
<1>3. CASE ControllerEnds(c)
  BY <1>3
     DEF ControllerEnds, PollSeesEnd, ToolHasController, ControllerHasWorkbench,
         WorkbenchRunsOnce, Up
<1>4. ~ControllerStopped(c)
  BY DEF ControllerStopped, CtlAccident, Interrupt, Kill, Attended
<1>5. QED  BY <1>1, <1>2, <1>3, <1>4 DEF ControllerMoves

LEMMA ChainWorkbench ==
    ASSUME TypeOK, NEW c \in Calls, Linked(c), Attended(c), WorkbenchMoves(c) \/ JournalMoves(c)
    PROVE  Linked(c)'
<1>1. ToolHasController(c) /\ ControllerHasWorkbench(c) /\ WorkbenchRunsOnce(c)
  BY DEF Linked
<1>2. UNCHANGED <<toolVars, ctlVars>>
  BY DEF JournalMoves, WorkbenchMoves, JournalClears, JournalBuildsModel, JournalSendsScript,
         JournalWaits, MechanicalRuns, UserClosesWorkbench
<1>3. ToolHasController(c)'
  BY <1>1, <1>2 DEF ToolHasController, toolVars, ctlVars
<1>4. \/ wb'[c] = wb[c]
      \/ UserClosesWorkbench(c) /\ wb'[c] = "ended" /\ ctl[c] \in {"launched", "polling"}
  BY <1>1
     DEF JournalMoves, WorkbenchMoves, JournalClears, JournalClearsStatus, JournalClearsError,
         JournalBuildsModel, JournalBuilds, JournalAborts, JournalSendsScript, JournalSends,
         JournalSent, JournalSendRaises, JournalWaits, JournalWaitStep, JournalSeesVerdict,
         JournalPollsAgain, JournalTimesOut, JournalSaves, JnlGo, MechanicalRuns, MechStep,
         MechSolves, MechOpensResults, MechWritesResults, MechWritesSuccess, MechSaves,
         MechRaises, MechWriteRaises, MechWritesError, MechWritesFailed, MechHandlerPasses,
         MechGo, UserClosesWorkbench, UserCloses, ControllerHasWorkbench, TypeOK,
         WorkbenchTypeOK
<1>5. ControllerHasWorkbench(c)'
  BY <1>1, <1>2, <1>4 DEF ControllerHasWorkbench, Up, ctlVars
<1>6. WorkbenchRunsOnce(c)'
  <2> USE <1>1 DEF WorkbenchRunsOnce, TypeOK, WorkbenchTypeOK, Up
  <2>1. CASE JournalBuildsModel(c)
    BY <2>1 DEF JournalBuildsModel, JournalBuilds, JournalAborts, JnlGo
  <2>2. CASE JournalSendsScript(c)
    BY <2>2 DEF JournalSendsScript, JournalSends, JournalSent, JournalSendRaises, JnlGo
  <2>3. CASE JournalMoves(c)
    <3>1. /\ UNCHANGED <<wb, mech, solved>>
          /\ jnl[c] \notin {"none", "build", "send"}
          /\ jnl'[c] \notin {"clearStatus", "send"}
          /\ jnl'[c] \in {"clearError", "build"} => jnl[c] \in {"clearStatus", "clearError"}
          /\ Up(c)
      BY <2>3 DEF JournalMoves, JournalClears, JournalClearsStatus, JournalClearsError,
                  JournalWaits, JournalWaitStep, JournalSeesVerdict, JournalPollsAgain,
                  JournalTimesOut, JournalSaves, JnlGo
    <3>2. QED  BY <3>1
  <2>4. CASE MechanicalRuns(c)
    <3> USE <2>4 DEF MechanicalRuns, MechGo
    <3>1. CASE MechSolves(c) \/ MechOpensResults(c) \/ MechWritesResults(c)
      BY <3>1 DEF MechSolves, MechOpensResults, MechWritesResults
    <3>2. CASE MechWritesSuccess(c) \/ MechSaves(c) \/ MechRaises(c) \/ MechWriteRaises(c)
      BY <3>2 DEF MechWritesSuccess, MechSaves, MechRaises, MechWriteRaises
    <3>3. CASE MechWritesError(c) \/ MechWritesFailed(c) \/ MechHandlerPasses(c)
      BY <3>3 DEF MechWritesError, MechWritesFailed, MechHandlerPasses
    <3>4. QED  BY <3>1, <3>2, <3>3 DEF MechStep
  <2>5. CASE UserClosesWorkbench(c)
    BY <2>5 DEF UserClosesWorkbench, UserCloses
  <2>6. QED  BY <2>1, <2>2, <2>3, <2>4, <2>5 DEF WorkbenchMoves
<1>7. QED  BY <1>3, <1>5, <1>6 DEF Linked

LEMMA ChainInit ==
    ASSUME Init
    PROVE  Chain
BY CallsAssumption
   DEF Init, ToolInit, CtlInit, WorkbenchInit, Chain, Linked, ToolHasController,
       ControllerHasWorkbench, WorkbenchRunsOnce, Up

LEMMA ChainStep ==
    ASSUME TypeOK, Chain, Steps
    PROVE  Chain'
<1> SUFFICES ASSUME NEW d \in Calls, Attended(d)
             PROVE  Linked(d)'
  BY DEF Chain, Attended, MayFailToReport, MayBeInterrupted
<1>1. Linked(d)  BY DEF Chain
<1>2. ASSUME NEW c \in Calls, Moves(c)
      PROVE  Linked(d)'
  <2>1. CASE c = d  BY <1>1, <1>2, <2>1, ChainTool, ChainController, ChainWorkbench DEF Moves
  <2>2. CASE c # d
    BY <1>1, <1>2, <2>2, ToolIsLocal, ControllerIsLocal, WorkbenchIsLocal, SameLinked DEF Moves
  <2>3. QED  BY <2>1, <2>2
<1>3. CASE UNCHANGED vars
  <2>1. SameCall(d)  BY <1>3 DEF vars, toolVars, ctlVars, wbVars, SameCall
  <2>2. QED  BY <1>1, <2>1, SameLinked
<1>4. QED  BY <1>2, <1>3 DEF Steps

\* Whatever calls overlap and whatever befalls the processes of other calls.
THEOREM ChainInvariant == Spec => []Chain
<1>1. Init => Chain  BY ChainInit
<1>2. TypeOK /\ Chain /\ [Next]_vars => Chain'  BY ChainStep, NextIsSteps
<1>3. QED  BY <1>1, <1>2, TypeCorrect, PTL DEF Spec

LEMMA ChainWatches ==
    ASSUME Chain
    PROVE  WorkbenchIsWatched
BY DEF Chain, Linked, ToolHasController, ControllerHasWorkbench, WorkbenchIsWatched, Up

\* A Workbench always has a controller that polls it and a tool that waits.
THEOREM Watched == Spec => []WorkbenchIsWatched
<1>1. Chain => WorkbenchIsWatched  BY ChainWatches
<1>2. QED  BY <1>1, ChainInvariant, PTL

(***************************************************************************)
(* Who writes the results file.                                            *)
(***************************************************************************)
LEMMA ResultsWriters ==
    ASSUME Steps
    PROVE  \/ UNCHANGED <<results, solved>>
           \/ \E c \in Calls : MechanicalRuns(c) /\ (MechOpensResults(c) \/ MechWritesResults(c))
<1> USE DEF fileVars, toolVars, ctlVars, wbVars
<1>1. ASSUME NEW c \in Calls, Call(c) \/ ToolRuns(c) \/ ToolSpawns(c) \/ ToolReturns(c)
      PROVE  UNCHANGED <<results, solved>>
  BY <1>1 DEF Call, CallRun, CallGet, ToolRuns, ToolStep, RejectRun, OpenInput, CloseInput,
              InputRaises, SpawnFails, ResultsMissing, ResultsFound, ReadResults, GetNothing,
              GetFound, GetResults, ToolSpawns, Spawn, ToolReturns, ReportFailure,
              ControllerReturned
<1>2. ASSUME NEW c \in Calls,
             \/ ControllerRuns(c) \/ ControllerPopens(c)
             \/ ControllerEnds(c) \/ ControllerStopped(c)
      PROVE  UNCHANGED <<results, solved>>
  BY <1>2 DEF ControllerRuns, CtlStep, WriteStarting, LoadInput, LoadRaises, PopenRaises,
              WriteRunning, StatusWriteRaises, HandlerWritesError, HandlerWritesFailed,
              HandlerRaises, ControllerPopens, Popen, WorkbenchStarts, ControllerEnds,
              PollSeesEnd, ControllerStopped, CtlAccident, Interrupt, Kill
<1>3. ASSUME NEW c \in Calls, JournalBuildsModel(c) \/ JournalSendsScript(c)
      PROVE  UNCHANGED <<results, solved>>
  BY <1>3 DEF JournalBuildsModel, JournalBuilds, JournalAborts, JournalSendsScript, JournalSends,
              JournalSent, JournalSendRaises, JnlGo
<1>4. ASSUME NEW c \in Calls, JournalMoves(c)  PROVE UNCHANGED <<results, solved>>
  BY <1>4 DEF JournalMoves, JournalClears, JournalClearsStatus, JournalClearsError, JournalWaits,
              JournalWaitStep, JournalSeesVerdict, JournalPollsAgain, JournalTimesOut,
              JournalSaves, JnlGo
<1>5. ASSUME NEW c \in Calls, MechanicalRuns(c), ~MechOpensResults(c), ~MechWritesResults(c)
      PROVE  UNCHANGED <<results, solved>>
  BY <1>5 DEF MechanicalRuns, MechStep, MechSolves, MechWritesSuccess, MechSaves, MechRaises,
              MechWriteRaises, MechWritesError, MechWritesFailed, MechHandlerPasses
<1>6. ASSUME NEW c \in Calls, UserClosesWorkbench(c)  PROVE UNCHANGED <<results, solved>>
  BY <1>6 DEF UserClosesWorkbench, UserCloses
<1>7. CASE UNCHANGED vars  BY <1>7 DEF vars
<1>8. QED
  BY <1>1, <1>2, <1>3, <1>4, <1>5, <1>6, <1>7
     DEF Steps, Moves, ToolMoves, ControllerMoves, WorkbenchMoves

(***************************************************************************)
(* Answers: given once, and for a solved run from the results file.        *)
(***************************************************************************)
LEMMA ToolSteps ==
    ASSUME Steps
    PROVE  \/ UNCHANGED toolVars
           \/ \E c \in Calls : Call(c) \/ ToolRuns(c) \/ ToolSpawns(c) \/ ToolReturns(c)
BY DEF Steps, Moves, vars, ToolMoves, ControllerMoves, ControllerRuns, ControllerPopens,
       ControllerEnds, ControllerStopped, JournalMoves, JournalClears, JournalWaits,
       WorkbenchMoves, JournalBuildsModel, JournalSendsScript, MechanicalRuns,
       UserClosesWorkbench

\* No tool, controller, journal or script takes the results away, and the tool
\* that is to read them has seen them.
LEMMA ResultsStay ==
    ASSUME Steps, Exists(results)
    PROVE  Exists(results)'
BY ResultsWriters DEF MechOpensResults, MechWritesResults, Report, Exists

LEMMA SeenBeforeRead ==
    ASSUME TypeOK, Steps, NEW d \in Calls, ToolHoldsResults(d)', ~ToolHoldsResults(d)
    PROVE  Exists(results) /\ UNCHANGED results
<1> USE DEF ToolHoldsResults, TypeOK, ToolTypeOK, Return, Go, fileVars
<1>1. ASSUME NEW c \in Calls, Call(c) \/ ToolSpawns(c) \/ ToolReturns(c)
      PROVE  FALSE
  BY <1>1 DEF Call, CallRun, CallGet, ToolSpawns, Spawn, ToolReturns, ReportFailure,
              ControllerReturned
<1>2. ASSUME NEW c \in Calls, ToolRuns(c)
      PROVE  Exists(results) /\ UNCHANGED results
  BY <1>2 DEF ToolRuns, ToolStep, RejectRun, OpenInput, CloseInput, InputRaises, SpawnFails,
              ResultsMissing, ResultsFound, ReadResults, GetNothing, GetFound, GetResults
<1>3. QED  BY <1>1, <1>2, ToolSteps DEF toolVars

LEMMA AnswersStay ==
    ASSUME TypeOK, Steps, NEW d \in Calls, tool[d] = "answered"
    PROVE  tool'[d] = "answered" /\ answer'[d] = answer[d]
<1> USE DEF TypeOK, ToolTypeOK, Return, Go
<1>1. CASE UNCHANGED toolVars  BY <1>1 DEF toolVars
<1>2. ASSUME NEW c \in Calls, Call(c) \/ ToolSpawns(c) \/ ToolReturns(c)
      PROVE  tool'[d] = "answered" /\ answer'[d] = answer[d]
  BY <1>2 DEF Call, CallRun, CallGet, ToolSpawns, Spawn, ToolReturns, ReportFailure,
              ControllerReturned
<1>3. ASSUME NEW c \in Calls, ToolRuns(c)
      PROVE  tool'[d] = "answered" /\ answer'[d] = answer[d]
  BY <1>3 DEF ToolRuns, ToolStep, RejectRun, OpenInput, CloseInput, InputRaises, SpawnFails,
              ResultsMissing, ResultsFound, ReadResults, GetNothing, GetFound, GetResults
<1>4. QED  BY <1>1, <1>2, <1>3, ToolSteps

LEMMA SolvedAnswer ==
    ASSUME TypeOK, Steps, NEW d \in Calls, Linked(d),
           solved[d], Exists(results), tool[d] # "answered",
           tool'[d] = "answered"
    PROVE  answer'[d] = Answer("results", results) /\ UNCHANGED <<solved, results>>
<1> USE DEF TypeOK, ToolTypeOK, Return, Go, toolVars, wbVars, fileVars
<1>1. tool[d] \in {"waiting", "returned", "found"} /\ code[d] \in {0, None}
      /\ (ctl[d] = "exited" => code[d] = 0)
  BY DEF Linked, ToolHasController, ControllerHasWorkbench, WorkbenchRunsOnce, ToolStages,
         RunStages, GetStages
<1>2. ASSUME NEW c \in Calls, Call(c) \/ ToolSpawns(c) \/ ToolReturns(c)
      PROVE  FALSE
  BY <1>1, <1>2 DEF Call, CallRun, CallGet, ToolSpawns, Spawn, ToolReturns, ReportFailure,
                    ControllerReturned
<1>3. ASSUME NEW c \in Calls, ToolRuns(c)
      PROVE  answer'[d] = Answer("results", results) /\ UNCHANGED <<solved, results>>
  <2>1. c = d /\ ReadResults(c)
    BY <1>1, <1>3
       DEF ToolRuns, ToolStep, RejectRun, OpenInput, CloseInput, InputRaises, SpawnFails,
           ResultsMissing, ResultsFound, ReadResults, GetNothing, GetFound, GetResults
  <2>2. QED  BY <1>3, <2>1 DEF ToolRuns, ReadResults
<1>4. QED  BY <1>2, <1>3, ToolSteps

(***************************************************************************)
(* One simulation at a time, and no controller is stopped.                 *)
(***************************************************************************)
AllLinked == \A c \in Calls : Linked(c)

LEMMA ChainOfAll ==
    ASSUME Chain, AllAttended
    PROVE  AllLinked
BY DEF Chain, AllAttended, AllLinked

LEMMA OthersIdle ==
    ASSUME AllLinked, OneRun, NEW c \in Calls, ctl[c] \notin {"none", "exited"} \/ Up(c)
    PROVE  \A d \in Calls \ {c} :
              ctl[d] \in {"none", "exited"} /\ ~Up(d) /\ mech[d] = "none" /\ ~Running(d)
<1>1. Running(c)
  BY DEF AllLinked, Linked, ToolHasController, ControllerHasWorkbench, Running, RunStages
<1>2. ASSUME NEW d \in Calls \ {c}  PROVE ~Running(d)  BY <1>1, <1>2 DEF OneRun
<1>3. ASSUME NEW d \in Calls \ {c}
      PROVE  ctl[d] \in {"none", "exited"} /\ ~Up(d) /\ mech[d] = "none"
  BY <1>2, <1>3
     DEF AllLinked, Linked, ToolHasController, ControllerHasWorkbench, WorkbenchRunsOnce,
         Running, RunStages
<1>4. QED  BY <1>2, <1>3

\* A run is in progress because it was, or because it has just been called.
LEMMA RunsContinue ==
    ASSUME TypeOK, Steps, NEW d \in Calls, Running(d)', ~Running(d)
    PROVE  tool[d] = "idle" /\ \A e \in Calls : Serial => ~Running(e)
<1> USE DEF TypeOK, ToolTypeOK, Return, Go, Running, RunStages
<1>1. ASSUME NEW c \in Calls, Call(c)
      PROVE  tool[d] = "idle" /\ \A e \in Calls : Serial => ~Running(e)
  BY <1>1 DEF Call, CallRun, CallGet
<1>2. ASSUME NEW c \in Calls, ToolRuns(c) \/ ToolSpawns(c) \/ ToolReturns(c)
      PROVE  FALSE
  BY <1>2 DEF ToolRuns, ToolStep, RejectRun, OpenInput, CloseInput, InputRaises, SpawnFails,
              ResultsMissing, ResultsFound, ReadResults, GetNothing, GetFound, GetResults,
              ToolSpawns, Spawn, ToolReturns, ReportFailure, ControllerReturned
<1>3. QED  BY <1>1, <1>2, ToolSteps DEF toolVars

LEMMA OneRunStep ==
    ASSUME TypeOK, OneRun, Serial, Steps
    PROVE  OneRun'
<1> SUFFICES ASSUME NEW c \in Calls, NEW d \in Calls, Running(c)', Running(d)'
             PROVE  c = d
  BY DEF OneRun
<1>1. CASE Running(c) /\ Running(d)  BY <1>1 DEF OneRun
<1>2. CASE Running(c) /\ ~Running(d)  BY <1>2, RunsContinue
<1>3. CASE ~Running(c) /\ Running(d)  BY <1>3, RunsContinue
<1>4. CASE ~Running(c) /\ ~Running(d)
  <2> SUFFICES ASSUME c # d PROVE FALSE  OBVIOUS
  <2>1. tool[c] = "idle" /\ tool[d] = "idle"  BY <1>4, RunsContinue
  <2>2. PICK e \in Calls : Call(e) \/ ToolRuns(e) \/ ToolSpawns(e) \/ ToolReturns(e)
    BY <1>4, ToolSteps DEF toolVars, Running
  <2>3. \A f \in Calls \ {e} : tool'[f] = tool[f]
    BY <2>2
       DEF TypeOK, ToolTypeOK, Return, Go, Call, CallRun, CallGet, ToolRuns, ToolStep,
           RejectRun, OpenInput, CloseInput, InputRaises, SpawnFails, ResultsMissing,
           ResultsFound, ReadResults, GetNothing, GetFound, GetResults, ToolSpawns, Spawn,
           ToolReturns, ReportFailure, ControllerReturned
  <2>4. QED  BY <1>4, <2>3 DEF Running
<1>5. QED  BY <1>1, <1>2, <1>3, <1>4

LEMMA FreshStep ==
    ASSUME TypeOK, AllLinked, OneRun, OwnResultsOnDisk, FreshWhenSolved, Steps
    PROVE  OwnResultsOnDisk' /\ FreshWhenSolved'
<1>1. ASSUME NEW c \in Calls, MechanicalRuns(c), MechOpensResults(c) \/ MechWritesResults(c)
      PROVE  /\ Running(c) /\ ~solved[c] /\ UNCHANGED toolVars
             /\ \A d \in Calls \ {c} : ~Running(d) /\ solved'[d] = solved[d]
  <2>1. Up(c) /\ UNCHANGED toolVars /\ ~solved[c]
    BY <1>1 DEF MechanicalRuns, MechOpensResults, MechWritesResults, MechGo, AllLinked, Linked,
                WorkbenchRunsOnce
  <2>2. Running(c)
    BY <2>1 DEF AllLinked, Linked, ControllerHasWorkbench, ToolHasController, Running, RunStages
  <2>3. \A d \in Calls \ {c} : solved'[d] = solved[d]
    BY <1>1 DEF MechOpensResults, MechWritesResults, TypeOK, WorkbenchTypeOK
  <2>4. QED  BY <2>1, <2>2, <2>3, OthersIdle
<1>2. ASSUME NEW d \in Calls, solved'[d], Running(d)'
      PROVE  results' = Report("whole", d, Fixed)
  <2>1. CASE UNCHANGED <<results, solved>>
    <3>1. Running(d)
      BY <1>2, <2>1, RunsContinue
         DEF AllLinked, Linked, ToolHasController, ControllerHasWorkbench, WorkbenchRunsOnce
    <3>2. QED  BY <1>2, <2>1, <3>1 DEF OwnResultsOnDisk
  <2>2. ASSUME NEW c \in Calls, MechanicalRuns(c), MechOpensResults(c)  PROVE FALSE
    BY <1>1, <1>2, <2>2 DEF MechOpensResults, Running, toolVars
  <2>3. ASSUME NEW c \in Calls, MechanicalRuns(c), MechWritesResults(c)
        PROVE  results' = Report("whole", d, Fixed)
    BY <1>1, <1>2, <2>3 DEF MechWritesResults, Running, toolVars
  <2>4. QED  BY <2>1, <2>2, <2>3, ResultsWriters
<1>3. ASSUME NEW d \in Calls, solved'[d], tool'[d] = "answered"
      PROVE  answer'[d] = Answer("results", Report("whole", d, Fixed))
  <2>1. solved[d]
    BY <1>1, <1>3, ResultsWriters DEF MechOpensResults, Running, RunStages, toolVars
  <2>2. CASE tool[d] = "answered"  BY <2>1, <2>2, AnswersStay DEF FreshWhenSolved
  <2>3. CASE tool[d] # "answered"
    <3>1. Running(d)
      BY <2>1, <2>3
         DEF TypeOK, ToolTypeOK, ToolStages, RunStages, GetStages, Running, AllLinked, Linked,
             ToolHasController, ControllerHasWorkbench, WorkbenchRunsOnce
    <3>2. results = Report("whole", d, Fixed)  BY <2>1, <3>1 DEF OwnResultsOnDisk
    <3>3. Exists(results)  BY <3>2 DEF Report, Exists
    <3>4. Linked(d)  BY DEF AllLinked
    <3>5. QED  BY <1>3, <2>1, <2>3, <3>2, <3>3, <3>4, SolvedAnswer
  <2>4. QED  BY <2>2, <2>3
<1>4. QED  BY <1>2, <1>3 DEF OwnResultsOnDisk, FreshWhenSolved

\* The status and error files, which belong to the run in progress.
StatusInv == OwnStatus /\ VerdictIsOwn /\ ErrorFirst /\ FailureExplained

LEMMA StatusByController ==
    ASSUME TypeOK, AllLinked, OneRun, StatusInv, AllAttended, NEW c \in Calls,
           ControllerRuns(c) \/ ControllerPopens(c) \/ ControllerEnds(c)
    PROVE  StatusInv'
<1> USE DEF StatusInv, OwnStatus, VerdictIsOwn, ErrorFirst, FailureExplained, TypeOK, CtlTypeOK,
        WorkbenchTypeOK, CtlGo, CtlExit, wbVars, fileVars, Up
<1>1. /\ ctl[c] \notin {"none", "exited"}
      /\ ControllerHasWorkbench(c)
      /\ mech[c] # "none" => Up(c)
  BY DEF ControllerRuns, CtlStep, WriteStarting, LoadInput, LoadRaises, PopenRaises,
         WriteRunning, StatusWriteRaises, HandlerWritesError, HandlerWritesFailed,
         HandlerRaises, ControllerPopens, Popen, ControllerEnds, PollSeesEnd, AllLinked, Linked,
         WorkbenchRunsOnce
<1>2. \A d \in Calls \ {c} : ctl[d] \in {"none", "exited"} /\ ~Up(d) /\ mech[d] = "none"
  BY <1>1, OthersIdle
<1> USE <1>1, <1>2 DEF ControllerHasWorkbench
<1>3. CASE ControllerRuns(c)
  <2> USE <1>3 DEF ControllerRuns
  <2>1. CASE WriteStarting(c)  BY <2>1 DEF WriteStarting, Note
  <2>2. CASE LoadInput(c) \/ LoadRaises(c)  BY <2>2 DEF LoadInput, LoadRaises
  <2>3. CASE PopenRaises(c)  BY <2>3 DEF PopenRaises
  <2>4. CASE WriteRunning(c)  BY <2>4 DEF WriteRunning, Note
  <2>5. CASE HandlerWritesError(c)  BY <2>5 DEF HandlerWritesError, Note
  <2>6. CASE HandlerWritesFailed(c)  BY <2>6 DEF HandlerWritesFailed, Note
  <2>7. ~StatusWriteRaises(c) /\ ~HandlerRaises(c)
    BY DEF StatusWriteRaises, HandlerRaises, AllAttended, Attended
  <2>8. QED  BY <2>1, <2>2, <2>3, <2>4, <2>5, <2>6, <2>7 DEF CtlStep
<1>4. CASE ControllerPopens(c)
  BY <1>4 DEF ControllerPopens, Popen, WorkbenchStarts, Note
<1>5. CASE ControllerEnds(c)
  BY <1>5 DEF ControllerEnds, PollSeesEnd
<1>6. QED  BY <1>3, <1>4, <1>5

LEMMA StatusByWorkbench ==
    ASSUME TypeOK, AllLinked, OneRun, StatusInv, AllAttended, NEW c \in Calls,
           WorkbenchMoves(c) \/ JournalMoves(c)
    PROVE  StatusInv'
<1> USE DEF StatusInv, OwnStatus, VerdictIsOwn, ErrorFirst, FailureExplained, TypeOK, CtlTypeOK,
        WorkbenchTypeOK, FilesTypeOK, ctlVars, fileVars
<1>1. Up(c)
  BY DEF JournalMoves, WorkbenchMoves, JournalClears, JournalClearsStatus, JournalClearsError,
         JournalBuildsModel, JournalBuilds, JournalAborts, JournalSendsScript, JournalSends,
         JournalSent, JournalSendRaises, JournalWaits, JournalWaitStep, JournalSeesVerdict,
         JournalPollsAgain, JournalTimesOut, JournalSaves, JnlGo, MechanicalRuns, MechStep,
         MechSolves, MechOpensResults, MechWritesResults, MechWritesSuccess, MechSaves,
         MechRaises, MechWriteRaises, MechWritesError, MechWritesFailed, MechHandlerPasses,
         MechGo, UserClosesWorkbench, UserCloses
<1>2. /\ ctl[c] \in {"launched", "polling"}
      /\ status = Missing \/ status.by = c
      /\ status.text = "FAILED" => mech[c] = "raised"
      /\ jnl[c] \in {"clearStatus", "clearError", "build", "send"} => mech[c] = "none"
  BY <1>1 DEF AllLinked, Linked, ControllerHasWorkbench, WorkbenchRunsOnce
<1>3. \A d \in Calls \ {c} : ctl[d] \in {"none", "exited"} /\ ~Up(d) /\ mech[d] = "none"
  BY <1>1, OthersIdle
<1> USE <1>1, <1>2, <1>3 DEF Up
<1>4. ASSUME NEW statusRefusals, NEW errorRefusals, JournalClears(c, statusRefusals, errorRefusals)
      PROVE  StatusInv'
  <2> USE <1>4 DEF JournalClears, JnlGo, Missing, Note
  <2>1. CASE JournalClearsStatus(c, statusRefusals)
    <3>1. status' \in {status, Missing}  BY <2>1 DEF JournalClearsStatus
    <3>2. QED  BY <2>1, <3>1 DEF JournalClearsStatus
  <2>2. CASE JournalClearsError(c, errorRefusals)
    <3>1. error' \in {error, Missing} /\ UNCHANGED status  BY <2>2 DEF JournalClearsError
    <3>2. QED  BY <2>2, <3>1 DEF JournalClearsError
  <2>3. QED  BY <2>1, <2>2
<1>5. CASE JournalBuildsModel(c)
  BY <1>5 DEF JournalBuildsModel, JournalBuilds, JournalAborts, JnlGo
<1>6. CASE JournalSendsScript(c)
  BY <1>6 DEF JournalSendsScript, JournalSends, JournalSent, JournalSendRaises, JnlGo
<1>7. ASSUME NEW held, JournalWaits(c, held)
      PROVE  StatusInv'
  <2> USE <1>7 DEF JournalWaits, JnlGo
  <2>1. CASE JournalSeesVerdict(c, held)
    <3>1. PICK seen \in Seen(held) :
             Terminal(seen) /\ verdict' = [verdict EXCEPT ![c] = seen]
      BY <2>1 DEF JournalSeesVerdict
    <3>2. seen # Missing  BY <3>1 DEF Terminal, Missing, Note
    <3>3. seen = status  BY <3>1, <3>2 DEF Seen
    <3>4. seen.by = c  BY <3>2, <3>3
    <3>5. VerdictIsOwn'  BY <3>1, <3>4
    <3>6. QED  BY <2>1, <3>5 DEF JournalSeesVerdict
  <2>2. CASE JournalPollsAgain(c, held)  BY <2>2 DEF JournalPollsAgain
  <2>3. CASE JournalTimesOut(c) \/ JournalSaves(c)  BY <2>3 DEF JournalTimesOut, JournalSaves
  <2>4. QED  BY <2>1, <2>2, <2>3 DEF JournalWaitStep
<1>8. CASE MechanicalRuns(c)
  <2> USE <1>8 DEF MechanicalRuns, MechGo
  <2>1. CASE MechSolves(c) \/ MechSaves(c) \/ MechRaises(c)
    BY <2>1 DEF MechSolves, MechSaves, MechRaises
  <2>2. CASE MechOpensResults(c) \/ MechWritesResults(c)
    BY <2>2 DEF MechOpensResults, MechWritesResults
  <2>3. CASE MechWritesSuccess(c)  BY <2>3 DEF MechWritesSuccess, Note
  <2>4. CASE MechWritesError(c)  BY <2>4 DEF MechWritesError, Note
  <2>5. CASE MechWritesFailed(c)  BY <2>5 DEF MechWritesFailed, Note
  <2>6. CASE MechWriteRaises(c) \/ MechHandlerPasses(c)
    <3>1. /\ MayFailToWrite(c) /\ UNCHANGED verdict /\ UNCHANGED wb
          /\ status' \in Torn(status, c) /\ error' \in Torn(error, c)
      BY <2>6 DEF MechWriteRaises, MechHandlerPasses, Torn
    <3>2. \E stage \in {"failing", "failed", "raised"} : mech' = [mech EXCEPT ![c] = stage]
      BY <2>6 DEF MechWriteRaises, MechHandlerPasses
    <3>3. mech[c] # "raised"
      BY <2>6 DEF MechWriteRaises, MechHandlerPasses
    <3>4. status' = status \/ (status'.text = "empty" /\ status'.by = c)
      BY <3>1 DEF Torn, Note
    <3>5. OwnStatus'  BY <3>1, <3>2, <3>3, <3>4
    <3>6. VerdictIsOwn'  BY <3>1
    <3>7. FailureExplained'
      <4> SUFFICES ASSUME status'.text = "FAILED" PROVE status'.by \in {None, c}
        BY <3>1 DEF MayFailToWrite
      <4>1. status' = status  BY <3>4
      <4>2. status.text = "FAILED" => mech[c] = "raised"  OBVIOUS
      <4>3. QED  BY <3>3, <4>1, <4>2
    <3>8. ErrorFirst'
      <4> SUFFICES ASSUME NEW d \in Calls,
                          (ctl[d] = "handled" \/ (mech[d] = "failed" /\ ~MayFailToWrite(d)))'
                   PROVE  FALSE
        BY DEF ErrorFirst
      <4>1. d # c  BY <3>1 DEF MayFailToWrite
      <4>2. QED  BY <3>2, <4>1
    <3>9. QED  BY <3>5, <3>6, <3>7, <3>8
  <2>7. QED  BY <2>1, <2>2, <2>3, <2>4, <2>5, <2>6 DEF MechStep
<1>9. CASE UserClosesWorkbench(c)
  BY <1>9 DEF UserClosesWorkbench, UserCloses
<1>10. QED  BY <1>4, <1>5, <1>6, <1>7, <1>8, <1>9 DEF WorkbenchMoves, JournalMoves

LEMMA StatusByTool ==
    ASSUME StatusInv, TypeOK, NEW c \in Calls,
           ToolMoves(c)
    PROVE  StatusInv'
<1>1. UNCHANGED <<wbVars, status, error>>
  BY DEF ToolMoves, Call, CallRun, CallGet, ToolRuns, ToolStep, RejectRun, OpenInput, CloseInput,
         InputRaises, SpawnFails, ResultsMissing, ResultsFound, ReadResults, GetNothing,
         GetFound, GetResults, ToolSpawns, Spawn, ToolReturns, ReportFailure,
         ControllerReturned, fileVars
<1>2. ctl' = ctl \/ ctl' = [ctl EXCEPT ![c] = "begin"]
  BY DEF ToolMoves, Call, ToolRuns, ToolSpawns, ToolReturns, ctlVars, CtlStart, CtlGo
<1>3. QED
  BY <1>1, <1>2
     DEF StatusInv, OwnStatus, VerdictIsOwn, ErrorFirst, FailureExplained, TypeOK, CtlTypeOK,
         wbVars, Up

\* One simulation at a time and no controller stopped, whatever else raises.
THEOREM AloneInvariant == Serial /\ AllAttended => (Spec => []Alone)
<1> SUFFICES ASSUME Serial, AllAttended PROVE Spec => []Alone  OBVIOUS
<1>1. Init => Alone
  BY CallsAssumption
     DEF Init, FilesInit, ToolInit, CtlInit, WorkbenchInit, Alone, OneRun, OwnResultsOnDisk,
         FreshWhenSolved, OwnStatus, VerdictIsOwn, ErrorFirst, FailureExplained, Running,
         RunStages, Up, Note, Missing
<1>2. TypeOK /\ Chain /\ Alone /\ [Next]_vars => Alone'
  <2> SUFFICES ASSUME TypeOK, Chain, Alone, Steps PROVE Alone'  BY NextIsSteps
  <2> AllLinked  BY ChainOfAll
  <2>1. OneRun'  BY OneRunStep DEF Alone
  <2>2. OwnResultsOnDisk' /\ FreshWhenSolved'  BY FreshStep DEF Alone
  <2>3. StatusInv'
    <3>1. StatusInv  BY DEF StatusInv, Alone
    <3>2. CASE UNCHANGED vars
      BY <3>1, <3>2 DEF vars, fileVars, ctlVars, wbVars, StatusInv, OwnStatus,
                        VerdictIsOwn, ErrorFirst, FailureExplained, Up
    <3>3. \A c \in Calls : ~ControllerStopped(c)
      BY DEF ControllerStopped, CtlAccident, Interrupt, Kill, AllAttended, Attended
    <3>4. QED
      BY <3>1, <3>2, <3>3, StatusByTool, StatusByController, StatusByWorkbench
         DEF Steps, Moves, ControllerMoves, Alone
  <2>4. QED  BY <2>1, <2>2, <2>3 DEF Alone, StatusInv
<1>3. QED  BY <1>1, <1>2, TypeCorrect, ChainInvariant, PTL DEF Spec

\* A solved run is answered with its own results.
THEOREM Fresh == Serial /\ AllAttended => (Spec => []FreshWhenSolved)
<1>1. Alone => FreshWhenSolved  BY DEF Alone
<1>2. QED  BY <1>1, AloneInvariant, PTL

\* Never two Workbenches on one project.
THEOREM SingleWorkbench == Serial /\ AllAttended => (Spec => []OneWorkbench)
<1> SUFFICES ASSUME Serial, AllAttended PROVE Spec => []OneWorkbench  OBVIOUS
<1>1. Chain /\ Alone => OneWorkbench
  BY ChainOfAll
     DEF AllLinked, Linked, ToolHasController, ControllerHasWorkbench, Alone, OneRun, Running,
         RunStages, OneWorkbench, Up
<1>2. QED  BY <1>1, ChainInvariant, AloneInvariant, PTL

\* A journal never takes another run's verdict for its own.
THEOREM OwnVerdict == Serial /\ AllAttended => (Spec => []VerdictIsOwn)
<1>1. Alone => VerdictIsOwn  BY DEF Alone
<1>2. QED  BY <1>1, AloneInvariant, PTL

\* FAILED comes with its error text.
THEOREM Explained == Serial /\ AllAttended => (Spec => []FailureExplained)
<1>1. Alone => FailureExplained  BY DEF Alone
<1>2. QED  BY <1>1, AloneInvariant, PTL

(***************************************************************************)
(* Every step counts.                                                      *)
(***************************************************************************)
LeftTyped ==
    \A c \in Calls :
        /\ ToolLeft(c) \in Nat /\ ControllerLeft(c) \in Nat
        /\ JournalLeft(c) \in 0 .. MaxPolls + 14 /\ MechLeft(c) \in 0 .. 7
        /\ WorkbenchLeft(c) \in 0 .. MaxPolls + 22

LEMMA LeftTypes ==
    ASSUME TypeOK
    PROVE  LeftTyped
<1> SUFFICES ASSUME NEW c \in Calls
             PROVE  /\ ToolLeft(c) \in Nat /\ ControllerLeft(c) \in Nat
                    /\ JournalLeft(c) \in 0 .. MaxPolls + 14 /\ MechLeft(c) \in 0 .. 7
                    /\ WorkbenchLeft(c) \in 0 .. MaxPolls + 22
  BY DEF LeftTyped
<1>1. MaxPolls \in Nat /\ polls[c] \in 0 .. MaxPolls
  BY MaxPollsAssumption DEF TypeOK, WorkbenchTypeOK
<1>2. ToolLeft(c) \in Nat  BY DEF ToolLeft
<1>3. ControllerLeft(c) \in Nat  BY <1>1 DEF ControllerLeft
<1>4. JournalLeft(c) \in 0 .. MaxPolls + 14  BY <1>1 DEF JournalLeft
<1>5. MechLeft(c) \in 0 .. 7  BY DEF MechLeft
<1>6. WorkbenchLeft(c) \in 0 .. MaxPolls + 22  BY <1>1, <1>4, <1>5 DEF WorkbenchLeft
<1>7. QED  BY <1>2, <1>3, <1>4, <1>5, <1>6

\* What is left of a call is the sum over its processes.
LEMMA LeftIsLocal ==
    ASSUME NEW d, SameCall(d)
    PROVE  Left(d)' = Left(d)
BY DEF SameCall, Left, ToolLeft, ControllerLeft, WorkbenchLeft, JournalLeft, MechLeft, Up

LEMMA ToolCounts ==
    ASSUME TypeOK, LeftTyped, LeftTyped', NEW c \in Calls, ToolMoves(c)
    PROVE  Left(c)' < Left(c)
<1> USE DEF TypeOK, ToolTypeOK, CtlTypeOK
<1>1. WorkbenchLeft(c)' = WorkbenchLeft(c)
  BY DEF ToolMoves, Call, ToolRuns, ToolSpawns, ToolReturns, wbVars, WorkbenchLeft, JournalLeft,
         MechLeft, Up
<1>2. ToolLeft(c)' < ToolLeft(c)
  <2>1. CASE Call(c)
    BY <2>1 DEF Call, CallRun, CallGet, Go, ToolLeft
  <2>2. CASE ToolRuns(c)
    BY <2>2 DEF ToolRuns, ToolStep, RejectRun, OpenInput, CloseInput, InputRaises, SpawnFails,
                ResultsMissing, ResultsFound, ReadResults, GetNothing, GetFound, GetResults,
                Return, Go, ToolLeft
  <2>3. CASE ToolSpawns(c) \/ ToolReturns(c)
    BY <2>3 DEF ToolSpawns, Spawn, ToolReturns, ReportFailure, ControllerReturned, Return, Go,
                ToolLeft
  <2>4. QED  BY <2>1, <2>2, <2>3 DEF ToolMoves
<1>3. ControllerLeft(c)' <= ControllerLeft(c)
  <2>1. MaxPolls \in Nat  BY MaxPollsAssumption
  <2>2. ctl' = ctl \/ CtlStart(c)
    BY DEF ToolMoves, Call, ToolRuns, ToolSpawns, ToolReturns, ctlVars
  <2>3. QED  BY <2>1, <2>2 DEF CtlStart, CtlGo, ControllerLeft, LeftTyped
<1>4. QED  BY <1>1, <1>2, <1>3 DEF Left, LeftTyped

LEMMA ControllerCounts ==
    ASSUME TypeOK, LeftTyped, LeftTyped', NEW c \in Calls, ControllerMoves(c)
    PROVE  Left(c)' < Left(c)
<1> USE DEF TypeOK, CtlTypeOK
<1>1. MaxPolls \in Nat  BY MaxPollsAssumption
<1>2. ToolLeft(c)' = ToolLeft(c)
  BY DEF ControllerMoves, ControllerRuns, ControllerPopens, ControllerEnds, ControllerStopped,
         toolVars, ToolLeft
<1>3. CASE ControllerPopens(c)
  <2>1. ControllerLeft(c)' = ControllerLeft(c) - MaxPolls - 23
    BY <1>1, <1>3 DEF ControllerPopens, Popen, CtlGo, ControllerLeft
  <2>2. QED  BY <1>1, <1>2, <2>1 DEF Left, LeftTyped
<1>4. CASE ControllerRuns(c) \/ ControllerEnds(c) \/ ControllerStopped(c)
  <2>1. WorkbenchLeft(c)' = WorkbenchLeft(c)
    BY <1>4 DEF ControllerRuns, ControllerEnds, ControllerStopped, wbVars, WorkbenchLeft,
                JournalLeft, MechLeft, Up
  <2>2. ControllerLeft(c)' < ControllerLeft(c)
    <3>1. CASE ControllerRuns(c)
      BY <1>1, <3>1
         DEF ControllerRuns, CtlStep, WriteStarting, LoadInput, LoadRaises, PopenRaises,
             WriteRunning, StatusWriteRaises, HandlerWritesError, HandlerWritesFailed,
             HandlerRaises, CtlExit, CtlGo, ControllerLeft
    <3>2. CASE ControllerEnds(c)
      BY <1>1, <3>2 DEF ControllerEnds, PollSeesEnd, CtlExit, CtlGo, ControllerLeft
    <3>3. CASE ControllerStopped(c)
      <4>1. ctl[c] \in CtlStages \ {"none", "exited"} /\ ctl'[c] = "exited"
        BY <3>3 DEF ControllerStopped, CtlAccident, Interrupt, Kill, Trying, CtlExit, CtlGo
      <4>2. QED  BY <1>1, <4>1 DEF CtlStages, ControllerLeft
    <3>4. QED  BY <1>4, <3>1, <3>2, <3>3
  <2>3. QED  BY <1>2, <2>1, <2>2 DEF Left, LeftTyped
<1>5. QED  BY <1>3, <1>4 DEF ControllerMoves

LEMMA WorkbenchCounts ==
    ASSUME TypeOK, LeftTyped, LeftTyped', NEW c \in Calls, WorkbenchMoves(c) \/ JournalMoves(c)
    PROVE  Left(c)' < Left(c)
<1> USE DEF TypeOK, WorkbenchTypeOK
<1>1. MaxPolls \in Nat /\ polls[c] \in 0 .. MaxPolls  BY MaxPollsAssumption
<1>2. ToolLeft(c)' = ToolLeft(c) /\ ControllerLeft(c)' = ControllerLeft(c)
  BY DEF WorkbenchMoves, JournalMoves, JournalClears, JournalBuildsModel, JournalSendsScript,
         JournalWaits, MechanicalRuns, UserClosesWorkbench, toolVars, ctlVars, ToolLeft,
         ControllerLeft
<1>3. ASSUME Up(c), wb' = wb, JournalLeft(c)' + MechLeft(c)' < JournalLeft(c) + MechLeft(c)
      PROVE  Left(c)' < Left(c)
  <2>1. WorkbenchLeft(c)' < WorkbenchLeft(c)  BY <1>3 DEF WorkbenchLeft, Up, LeftTyped
  <2>2. QED  BY <1>2, <2>1 DEF Left, LeftTyped
<1>4. CASE JournalBuildsModel(c)
  <2>1. Up(c) /\ wb' = wb /\ mech' = mech
    BY <1>4 DEF JournalBuildsModel, JournalBuilds, JournalAborts, JnlGo
  <2>2. JournalLeft(c)' < JournalLeft(c)
    BY <1>1, <1>4 DEF JournalBuildsModel, JournalBuilds, JournalAborts, JnlGo, JournalLeft
  <2>3. QED  BY <1>3, <2>1, <2>2 DEF MechLeft, LeftTyped
<1>5. CASE JournalSendsScript(c)
  <2>1. CASE JournalSends(c)
    <3>1. Up(c) /\ wb' = wb  BY <2>1 DEF JournalSends, JnlGo
    <3>2. JournalLeft(c) = MaxPolls + 11 /\ JournalLeft(c)' = MaxPolls + 3 /\ MechLeft(c)' = 7
      BY <1>1, <2>1 DEF JournalSends, JnlGo, JournalLeft, MechLeft
    <3>3. QED  BY <1>1, <1>3, <3>1, <3>2 DEF LeftTyped
  <2>2. CASE JournalSent(c) \/ JournalSendRaises(c)
    <3>1. Up(c) /\ wb' = wb /\ mech' = mech
      BY <2>2 DEF JournalSent, JournalSendRaises, JnlGo
    <3>2. JournalLeft(c)' < JournalLeft(c)
      BY <1>1, <2>2 DEF JournalSent, JournalSendRaises, JnlGo, JournalLeft
    <3>3. QED  BY <1>3, <3>1, <3>2 DEF MechLeft, LeftTyped
  <2>3. QED  BY <1>5, <2>1, <2>2 DEF JournalSendsScript
<1>6. CASE JournalMoves(c)
  <2> USE DEF JournalMoves, JournalClears, JournalClearsStatus, JournalClearsError, JournalWaits,
              JournalWaitStep, JournalSeesVerdict, JournalPollsAgain, JournalTimesOut,
              JournalSaves, JnlGo
  <2>1. Up(c) /\ wb' = wb /\ mech' = mech  BY <1>6
  <2>2. JournalLeft(c)' < JournalLeft(c)  BY <1>1, <1>6 DEF JournalLeft
  <2>3. QED  BY <1>3, <2>1, <2>2 DEF MechLeft, LeftTyped
<1>7. CASE MechanicalRuns(c)
  <2> USE DEF MechanicalRuns, MechStep, MechSolves, MechOpensResults, MechWritesResults,
              MechWritesSuccess, MechSaves, MechRaises, MechWriteRaises, MechWritesError,
              MechWritesFailed, MechHandlerPasses, MechGo
  <2>1. Up(c) /\ wb' = wb /\ jnl' = jnl /\ polls' = polls  BY <1>7
  <2>2. MechLeft(c)' < MechLeft(c)  BY <1>7 DEF MechLeft
  <2>3. QED  BY <1>3, <2>1, <2>2 DEF JournalLeft, LeftTyped
<1>8. CASE UserClosesWorkbench(c)
  <2>1. WorkbenchLeft(c) > 0 /\ WorkbenchLeft(c)' = 0
    BY <1>8 DEF UserClosesWorkbench, UserCloses, Up, WorkbenchLeft, LeftTyped
  <2>2. QED  BY <1>2, <2>1 DEF Left, LeftTyped
<1>9. QED  BY <1>4, <1>5, <1>6, <1>7, <1>8 DEF WorkbenchMoves

\* Whatever overlaps and whatever fails, every step uses up one call: the system
\* makes a bounded number of steps.
THEOREM StepsRunOut == Spec => EveryStepCounts
<1>1. TypeOK => LeftTyped  BY LeftTypes
<1>2. TypeOK /\ LeftTyped /\ LeftTyped' /\ [Next]_vars => [\E c \in Calls : Counts(c)]_vars
  <2> SUFFICES ASSUME TypeOK, LeftTyped, LeftTyped', Next, ~UNCHANGED vars
               PROVE  \E c \in Calls : Counts(c)
    OBVIOUS
  <2>1. PICK c \in Calls : Moves(c)  BY NextIsSteps DEF Steps
  <2>2. Left(c)' < Left(c)  BY <2>1, ToolCounts, ControllerCounts, WorkbenchCounts DEF Moves
  <2>3. Left(c)' \in 0 .. Left(c) - 1  BY <2>2 DEF Left, LeftTyped
  <2>4. \A d \in Calls \ {c} : Left(d)' = Left(d)
    BY <2>1, ToolIsLocal, ControllerIsLocal, WorkbenchIsLocal, LeftIsLocal DEF Moves
  <2>5. QED  BY <2>3, <2>4 DEF Counts
<1>3. QED  BY <1>1, <1>2, TypeCorrect, PTL DEF Spec, EveryStepCounts
=============================================================================
