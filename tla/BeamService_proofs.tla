------------------------- MODULE BeamService_proofs -------------------------
EXTENDS BeamService, BeamPipeline_proofs

(***************************************************************************)
(* A run writes its results once, and no other run writes in between.      *)
(***************************************************************************)
\* No step but the script's two writes brings a run to where its results are
\* unopened, or open.
LEMMA OnlyWritesMove ==
    ASSUME TypeOK, AllLinked, Steps, NEW d \in Calls,
           \A c \in Calls : MechanicalRuns(c) =>
                              ~(MechOpensResults(c) \/ MechWritesResults(c))
    PROVE  /\ Unopened(d)' => Unopened(d)
           /\ (Up(d) /\ mech[d] = "write")' => Up(d) /\ mech[d] = "write"
<1> USE DEF TypeOK, WorkbenchTypeOK, Unopened, Up, wbVars
<1>1. CASE UNCHANGED wbVars  BY <1>1
<1>2. ASSUME NEW c \in Calls, ControllerPopens(c)
      PROVE  /\ wb[c] = "none" /\ wb' = [wb EXCEPT ![c] = "up"]
             /\ mech[c] = "none" /\ mech' = mech
  BY <1>2 DEF ControllerPopens, Popen, CtlGo, WorkbenchStarts, AllLinked, Linked,
              ControllerHasWorkbench, WorkbenchRunsOnce
<1>3. ASSUME NEW c \in Calls, UserClosesWorkbench(c)
      PROVE  /\ wb' = [wb EXCEPT ![c] = "ended"]
             /\ mech' = [mech EXCEPT ![c] = "none"]
  BY <1>3 DEF UserClosesWorkbench, UserCloses
<1>4. ASSUME NEW c \in Calls, JournalSendsScript(c)
      PROVE  /\ wb' = wb
             /\ \/ mech' = mech
                \/ mech[c] = "none" /\ mech' = [mech EXCEPT ![c] = "solve"]
  BY <1>4 DEF JournalSendsScript, JournalSends, JournalSent, JournalSendRaises, JnlGo, AllLinked,
              Linked, WorkbenchRunsOnce
<1>5. ASSUME NEW c \in Calls, JournalMoves(c) \/ JournalBuildsModel(c)
      PROVE  wb' = wb /\ mech' = mech
  BY <1>5 DEF JournalMoves, JournalClears, JournalClearsStatus, JournalClearsError,
              JournalBuildsModel, JournalBuilds, JournalAborts, JournalWaits, JournalWaitStep,
              JournalSeesVerdict, JournalPollsAgain, JournalTimesOut, JournalSaves, JnlGo
<1>6. ASSUME NEW c \in Calls, MechanicalRuns(c), ~(MechOpensResults(c) \/ MechWritesResults(c))
      PROVE  /\ wb' = wb
             /\ \/ mech[c] = "solve" /\ mech' = [mech EXCEPT ![c] = "open"]
                \/ \E next \in MechStages \ {"none", "solve", "open", "write"} :
                       mech' = [mech EXCEPT ![c] = next]
  BY <1>6 DEF MechanicalRuns, MechStep, MechGo, MechSolves, MechWritesSuccess, MechSaves,
              MechRaises, MechWriteRaises, MechWritesError, MechWritesFailed,
              MechHandlerPasses, MechStages
<1>7. CASE \E c \in Calls : ControllerPopens(c)  BY <1>2, <1>7
<1>8. CASE \E c \in Calls : UserClosesWorkbench(c)  BY <1>3, <1>8
<1>9. CASE \E c \in Calls : JournalSendsScript(c)  BY <1>4, <1>9
<1>10. CASE \E c \in Calls : JournalMoves(c) \/ JournalBuildsModel(c)
  BY <1>5, <1>10
<1>11. CASE \E c \in Calls : MechanicalRuns(c)
  <2>1. PICK c \in Calls : MechanicalRuns(c)  BY <1>11
  <2>2. QED  BY <1>6, <2>1
<1>12. QED
  BY <1>1, <1>7, <1>8, <1>9, <1>10, <1>11
     DEF Steps, Moves, ToolMoves, ControllerMoves, WorkbenchMoves, vars, Call, ToolRuns, ToolSpawns,
         ToolReturns, ControllerRuns, ControllerEnds, ControllerStopped

THEOREM WrittenOnceInvariant == Serial /\ AllAttended => (Spec => []WrittenOnce)
<1> SUFFICES ASSUME Serial, AllAttended PROVE Spec => []WrittenOnce  OBVIOUS
<1>1. Init => WrittenOnce
  <2> SUFFICES ASSUME Init, NEW c \in Calls
               PROVE  results.by # c /\ ~Up(c)
    BY DEF WrittenOnce
  <2> QED  BY CallsAssumption DEF Init, FilesInit, WorkbenchInit, NoReport, Report, Up
<1>2. TypeOK /\ Chain /\ Alone /\ WrittenOnce /\ [Next]_vars => WrittenOnce'
  <2> SUFFICES ASSUME TypeOK, Chain, Alone, WrittenOnce, Steps PROVE WrittenOnce'
    BY NextIsSteps
  <2> AllLinked  BY ChainOfAll
  <2>1. CASE \E c \in Calls : MechanicalRuns(c) /\ (MechOpensResults(c) \/ MechWritesResults(c))
    <3>1. PICK c \in Calls : MechOpensResults(c) \/ MechWritesResults(c)  BY <2>1
    <3>2. /\ Up(c) /\ wb' = wb
          /\ \/ mech' = [mech EXCEPT ![c] = "write"] /\ results' = Report("empty", c, Fixed)
             \/ mech' = [mech EXCEPT ![c] = "succeed"] /\ results' = Report("whole", c, Fixed)
      BY <3>1 DEF MechOpensResults, MechWritesResults, MechGo
    <3>3. \A d \in Calls \ {c} : ~Up(d)
      BY <3>2, OthersIdle DEF Alone
    <3>4. QED
      BY <3>2, <3>3 DEF TypeOK, WorkbenchTypeOK, WrittenOnce, Unopened, Up, Report
  <2>2. CASE \A c \in Calls : MechanicalRuns(c) =>
                                ~(MechOpensResults(c) \/ MechWritesResults(c))
    <3>1. UNCHANGED results  BY <2>2, ResultsWriters
    <3>2. QED  BY <2>2, <3>1, OnlyWritesMove DEF WrittenOnce
  <2>3. QED  BY <2>1, <2>2
<1>3. QED  BY <1>1, <1>2, TypeCorrect, ChainInvariant, AloneInvariant, PTL DEF Spec

LEMMA SeenInvariant == Spec => []SeenIsThere
<1>1. Init => SeenIsThere
  BY DEF Init, ToolInit, SeenIsThere, ToolHoldsResults
<1>2. TypeOK /\ SeenIsThere /\ [Next]_vars => SeenIsThere'
  <2> SUFFICES ASSUME TypeOK, SeenIsThere, Steps, NEW d \in Calls, ToolHoldsResults(d)'
               PROVE  Exists(results)'
    BY NextIsSteps DEF SeenIsThere
  <2>1. CASE ToolHoldsResults(d)  BY <2>1, ResultsStay DEF SeenIsThere
  <2>2. CASE ~ToolHoldsResults(d)  BY <2>2, SeenBeforeRead, ResultsStay
  <2>3. QED  BY <2>1, <2>2
<1>3. QED  BY <1>1, <1>2, TypeCorrect, PTL DEF Spec

(***************************************************************************)
(* Every step is a step of the service or changes nothing it shows.        *)
(***************************************************************************)
Phases == [d \in Calls |-> PhaseOf(tool[d])]

Replies == [d \in Calls |-> ReplyOf(answer[d])]

LEMMA PhaseMoves ==
    ASSUME TypeOK, NEW c \in Calls, NEW from, NEW to, Go(c, from, to)
    PROVE  /\ Phases[c] = PhaseOf(from)
           /\ Phases' = [Phases EXCEPT ![c] = PhaseOf(to)]
<1>1. \A d \in Calls : tool'[d] = IF d = c THEN to ELSE tool[d]
  BY DEF Go, TypeOK, ToolTypeOK
<1>2. \A d \in Calls : PhaseOf(tool'[d]) = IF d = c THEN PhaseOf(to) ELSE PhaseOf(tool[d])
  BY <1>1
<1>3. tool[c] = from  BY DEF Go
<1>4. QED  BY <1>2, <1>3 DEF Phases

LEMMA ReplyMoves ==
    ASSUME TypeOK, NEW c \in Calls, NEW from, NEW kind, NEW file, Return(c, from, kind, file)
    PROVE  Replies' = [Replies EXCEPT ![c] = ReplyOf(Answer(kind, file))]
<1>1. \A d \in Calls : answer'[d] = IF d = c THEN Answer(kind, file) ELSE answer[d]
  BY DEF Return, TypeOK, ToolTypeOK
<1>2. \A d \in Calls :
         ReplyOf(answer'[d]) = IF d = c THEN ReplyOf(Answer(kind, file)) ELSE ReplyOf(answer[d])
  BY <1>1
<1>3. QED  BY <1>2 DEF Replies

\* A step that keeps the results and moves a tool between stages of one phase.
LEMMA HiddenSteps ==
    ASSUME TypeOK, NEW c \in Calls, NEW from, NEW to, Go(c, from, to),
           PhaseOf(from) = PhaseOf(to), UNCHANGED <<answer, results>>
    PROVE  UNCHANGED Service!vars
<1>1. Phases' = Phases  BY PhaseMoves DEF Phases
<1>2. QED  BY <1>1 DEF Phases, Service!vars

LEMMA RunMessages ==
    ASSUME TypeOK, NEW c \in Calls, NEW from \in RunStages,
           NEW kind \in AnswerKinds \ {"none", "results"}, NEW file,
           Return(c, from, kind, file), UNCHANGED results,
           results.by # c \/ ~Exists(results)
    PROVE  Service!AnswerRun(c)
<1>1. Phases[c] = "running" /\ Phases' = [Phases EXCEPT ![c] = "done"]
  BY PhaseMoves DEF Return, PhaseOf, RunStages, GetStages
<1>2. Replies' = [Replies EXCEPT ![c] = Service!Message]
  BY ReplyMoves DEF ReplyOf, Answer, AnswerKinds, NoReport, Report, Text, Service!Message,
                    Service!Said, Service!Empty, Service!Results
<1>3. Text(results) # Service!Results("whole", c)
  BY DEF Text, Service!Results, Exists
<1>4. QED  BY <1>1, <1>2, <1>3 DEF Phases, Replies, Service!AnswerRun, Service!Move

LEMMA ToolImplements ==
    ASSUME TypeOK, AllLinked, WrittenOnce, SeenIsThere, AllAttended, Serial,
           NEW c \in Calls, Call(c) \/ ToolRuns(c) \/ ToolSpawns(c) \/ ToolReturns(c)
    PROVE  [Service!Next]_(Service!vars)
<1> USE DEF fileVars
<1>1. CASE Call(c) /\ CallRun(c)
  <2>1. Phases[c] = "idle" /\ Phases' = [Phases EXCEPT ![c] = "running"]
    BY <1>1, PhaseMoves DEF CallRun, PhaseOf, RunStages, GetStages
  <2>2. \A d \in Calls : Phases[d] # "running"
    BY <1>1 DEF CallRun, Phases, PhaseOf, Running
  <2>3. Service!Run(c)
    BY <1>1, <2>1, <2>2 DEF CallRun, Phases, Service!Run, Service!Move
  <2>4. QED  BY <2>3 DEF Service!Next
<1>2. CASE Call(c) /\ CallGet(c)
  <2>1. Phases[c] = "idle" /\ Phases' = [Phases EXCEPT ![c] = "reading"]
    BY <1>2, PhaseMoves DEF CallGet, PhaseOf, RunStages, GetStages
  <2>2. Service!Get(c)  BY <1>2, <2>1 DEF CallGet, Phases, Service!Get, Service!Move
  <2>3. QED  BY <2>2 DEF Service!Next
<1>3. CASE RejectRun(c) \/ InputRaises(c) \/ SpawnFails(c)
  <2>1. results.by # c
    BY <1>3 DEF RejectRun, InputRaises, SpawnFails, Return, Go, AllLinked, Linked,
                ToolHasController, ControllerHasWorkbench, WrittenOnce, Unopened
  <2>2. CASE RejectRun(c)
    BY <2>1, <2>2, RunMessages DEF RejectRun, RunStages, AnswerKinds, Service!Next
  <2>3. CASE SpawnFails(c)
    BY <2>1, <2>3, RunMessages DEF SpawnFails, RunStages, AnswerKinds, Service!Next
  <2>4. CASE InputRaises(c)
    BY <2>1, <2>4, RunMessages DEF InputRaises, RunStages, AnswerKinds, Service!Next
  <2>5. QED  BY <1>3, <2>2, <2>3, <2>4
<1>4. CASE OpenInput(c) \/ CloseInput(c) \/ ToolSpawns(c)
  BY <1>4, HiddenSteps DEF OpenInput, CloseInput, ToolSpawns, Spawn, PhaseOf, RunStages
<1>5. CASE ToolReturns(c)
  <2>1. code[c] = 0
    BY <1>5 DEF ToolReturns, AllLinked, Linked, ToolHasController
  <2>2. ControllerReturned(c, code[c])
    BY <1>5, <2>1 DEF ToolReturns, ReportFailure
  <2>3. QED  BY <2>2, HiddenSteps DEF ControllerReturned, PhaseOf, RunStages
<1>6. CASE ResultsFound(c)
  BY <1>6, HiddenSteps DEF ResultsFound, PhaseOf, RunStages
<1>7. CASE GetFound(c)
  BY <1>7, HiddenSteps DEF GetFound, PhaseOf, RunStages, GetStages
<1>8. CASE ResultsMissing(c)
  BY <1>8, RunMessages DEF ResultsMissing, RunStages, AnswerKinds, Service!Next
<1>9. CASE ReadResults(c)
  <2>1. CASE ~Exists(results)
    BY <1>9, <2>1, RunMessages DEF ReadResults, RunStages, AnswerKinds, Service!Next
  <2>2. CASE Exists(results)
    <3>1. Phases[c] = "running" /\ Phases' = [Phases EXCEPT ![c] = "done"]
      BY <1>9, PhaseMoves DEF ReadResults, Return, PhaseOf, RunStages, GetStages
    <3>2. Replies' = [Replies EXCEPT ![c] = Service!Held]
      BY <1>9, <2>2, ReplyMoves
         DEF ReadResults, ReplyOf, Answer, Service!Held, Service!Said
    <3>3. Service!AnswerRun(c)
      BY <1>9, <2>2, <3>1, <3>2
         DEF ReadResults, Phases, Replies, Service!AnswerRun, Service!Move, Exists, Text
    <3>4. QED  BY <3>3 DEF Service!Next
  <2>3. QED  BY <2>1, <2>2
<1>10. CASE GetNothing(c)
  <2>1. Phases[c] = "reading" /\ Phases' = [Phases EXCEPT ![c] = "done"]
    BY <1>10, PhaseMoves DEF GetNothing, Return, PhaseOf, RunStages, GetStages
  <2>2. Replies' = [Replies EXCEPT ![c] = Service!Message]
    BY <1>10, ReplyMoves
       DEF GetNothing, ReplyOf, Answer, NoReport, Report, Text, Service!Message, Service!Said,
           Service!Empty, Service!Results
  <2>3. Service!AnswerGet(c)
    BY <1>10, <2>1, <2>2
       DEF GetNothing, Phases, Replies, Service!AnswerGet, Service!Move, Exists, Text
  <2>4. QED  BY <2>3 DEF Service!Next
<1>11. CASE GetResults(c)
  <2>1. Phases[c] = "reading" /\ Phases' = [Phases EXCEPT ![c] = "done"]
    BY <1>11, PhaseMoves DEF GetResults, Return, PhaseOf, RunStages, GetStages
  <2>2. Exists(results)  BY <1>11 DEF GetResults, Return, Go, SeenIsThere, ToolHoldsResults
  <2>3. Replies' = [Replies EXCEPT ![c] = Service!Held]
    BY <1>11, <2>2, ReplyMoves DEF GetResults, ReplyOf, Answer, Service!Held, Service!Said
  <2>4. Service!AnswerGet(c)
    BY <1>11, <2>1, <2>2, <2>3
       DEF GetResults, Phases, Replies, Service!AnswerGet, Service!Move, Exists, Text
  <2>5. QED  BY <2>4 DEF Service!Next
<1>12. QED
  BY <1>1, <1>2, <1>3, <1>4, <1>5, <1>6, <1>7, <1>8, <1>9, <1>10, <1>11
     DEF Call, ToolRuns, ToolStep

LEMMA ScriptImplements ==
    ASSUME TypeOK, AllLinked, WrittenOnce, NEW c \in Calls, MechanicalRuns(c),
           MechOpensResults(c) \/ MechWritesResults(c)
    PROVE  Service!Next
<1>1. Up(c) /\ mech[c] \in {"open", "write"} /\ UNCHANGED toolVars
  BY DEF MechanicalRuns, MechOpensResults, MechWritesResults, MechGo
<1>2. Phases[c] = "running" /\ UNCHANGED <<Phases, Replies>>
  BY <1>1 DEF AllLinked, Linked, ControllerHasWorkbench, ToolHasController, Phases, Replies,
              PhaseOf, RunStages, toolVars
<1>3. CASE MechOpensResults(c)
  <2>1. results.by # c
    BY <1>1, <1>3 DEF MechOpensResults, MechGo, WrittenOnce, Unopened
  <2>2. Service!Tear(c)
    BY <1>2, <1>3, <2>1
       DEF MechOpensResults, Phases, Replies, Report, Text, Service!Tear, Service!Results
  <2>3. QED  BY <2>2 DEF Service!Next
<1>4. CASE MechWritesResults(c)
  <2>1. results = Report("empty", c, Fixed)
    BY <1>1, <1>4 DEF MechWritesResults, MechGo, WrittenOnce
  <2>2. Service!Publish(c)
    BY <1>2, <1>4, <2>1
       DEF MechWritesResults, Phases, Replies, Report, Text, Service!Publish, Service!Results
  <2>3. QED  BY <2>2 DEF Service!Next
<1>5. QED  BY <1>3, <1>4

\* The pipeline of processes and files implements the service.
THEOREM Implements == Serial /\ AllAttended => (Spec => ImplementsService)
<1> SUFFICES ASSUME Serial, AllAttended PROVE Spec => ImplementsService  OBVIOUS
<1>1. Init => Service!Init
  <2> SUFFICES ASSUME Init PROVE Service!Init  OBVIOUS
  <2>1. \E text \in DataTexts : results = Report(text, None, None)
    BY LeftoversAssumption DEF Init, FilesInit
  <2>2. QED
    BY <2>1 DEF Init, ToolInit, Silent, Answer, NoReport, Report, DataTexts, PhaseOf, RunStages,
                GetStages, ReplyOf, Text, Service!Init, Service!Empty, Service!Results,
                Service!Nothing, Service!Said
<1>2. TypeOK /\ Chain /\ WrittenOnce /\ SeenIsThere /\ [Next]_vars
        => [Service!Next]_(Service!vars)
  <2> SUFFICES ASSUME TypeOK, Chain, WrittenOnce, SeenIsThere, Steps
               PROVE  [Service!Next]_(Service!vars)
    BY NextIsSteps
  <2> AllLinked  BY ChainOfAll
  <2>1. CASE \E c \in Calls : Call(c) \/ ToolRuns(c) \/ ToolSpawns(c) \/ ToolReturns(c)
    BY <2>1, ToolImplements
  <2>2. CASE \E c \in Calls :
               MechanicalRuns(c) /\ (MechOpensResults(c) \/ MechWritesResults(c))
    BY <2>2, ScriptImplements
  <2>3. CASE UNCHANGED toolVars /\ UNCHANGED results
    BY <2>3 DEF toolVars, Service!vars
  <2>4. QED  BY <2>1, <2>2, <2>3, ToolSteps, ResultsWriters
<1>3. QED
  BY <1>1, <1>2, TypeCorrect, ChainInvariant, WrittenOnceInvariant, SeenInvariant, PTL
     DEF Spec, ImplementsService, Service!Spec
=============================================================================
