------------------------- MODULE DynPipeline_proofs -------------------------
EXTENDS DynInvariant, TLAPS

(***************************************************************************)
(* The requests: what validation and the generators take.                  *)
(***************************************************************************)
LEMMA RequestFields ==
    ASSUME NEW r \in Requests
    PROVE  /\ r.shape \in Shapes /\ r.kind \in Kinds
           /\ r.length \in Values /\ r.mesh \in Values /\ r.load \in Values
           /\ r.diameter \in Values /\ r.width \in Values /\ r.height \in Values
           /\ r.temperature \in Values /\ r.difference \in Values
           /\ r.reference \in Values
BY DEF Requests

\* A request that validation accepts raises in the generators exactly when it
\* has one of the five gaps: validate_input and the generators, written apart,
\* agree on everything else.
THEOREM GapsAreAll ==
    ASSUME NEW r \in Requests, Accepted(r)
    PROVE  Generated(r) <=> ~Gap(r)
<1> USE RequestFields
    DEF Values, Shapes, Kinds, Present, IsNumber, NumberOrDefault, Dimension, IsThermal
<1>1. /\ IsNumber(r.length) /\ IsNumber(r.mesh)
      /\ r.shape = "cylinder" => IsNumber(r.diameter)
      /\ r.shape = "rectangular" => IsNumber(r.width) /\ IsNumber(r.height)
      /\ r.shape \in {"cylinder", "rectangular"}
  BY DEF Accepted, RequiredAccepted, ShapeAccepted
<1>2. GeometryGenerated(r) <=>
          /\ r.shape = "cylinder" => "text" \notin {r.width, r.height}
          /\ r.shape = "rectangular" => r.diameter # "text"
  BY <1>1 DEF GeometryGenerated
<1>3. IsThermal(r) =>
          /\ IsNumber(r.reference)
          /\ ThermalGenerated(r) <=> (Present(r.temperature) \/ r.difference # "text")
  BY <1>1 DEF Accepted, ThermalAccepted, ThermalGenerated
<1>4. StructuralGenerated(r) <=> r.load # "text" /\ r.reference \notin {"absent", "text"}
  BY <1>1 DEF StructuralGenerated
<1>5. QED  BY <1>2, <1>3, <1>4 DEF Generated, Gap

\* A request that runs is drawn and meshed with sizes above zero, or NaN.
LEMMA RunsHaveSizes ==
    ASSUME NEW r \in Requests, Runs(r)
    PROVE  SizesTaken(r)
BY RequestFields
   DEF Runs, Accepted, RequiredAccepted, ShapeAccepted, Dimension, IsNumber, SizesTaken, Drawn

\* The packaged server leaves the reference temperature out, the development
\* server the length: neither request runs.
LEMMA ToolRequestsDoNotRun ==
    ASSUME NEW r \in Requests, FromTool(r)
    PROVE  ~Runs(r)
BY DEF FromTool, PackagedKeys, DevelopmentKeys, Runs, Accepted, RequiredAccepted, Dimension,
       Generated, StructuralGenerated, IsNumber, Present

(***************************************************************************)
(* The steps of a run, whatever its removals are answered.                 *)
(***************************************************************************)
Removes(c) ==
    \E ofResults, ofStatus, ofError : ControllerUnlinks(c, ofResults, ofStatus, ofError)

RunMoves(c) == Removes(c) \/ ControllerMoves(c) \/ WorkbenchMoves(c)

Steps == (\E c \in Calls : RunMoves(c)) \/ UNCHANGED vars

LEMMA NextIsSteps ==
    ASSUME [Next]_vars
    PROVE  Steps
BY DEF Next, AllOver, Steps, RunMoves, Removes

(***************************************************************************)
(* Type correctness, component by component.                               *)
(***************************************************************************)
LEMMA ControllerTypes ==
    ASSUME TypeOK, NEW c \in Calls,
           NEW ofResults, NEW ofStatus, NEW ofError,
           \/ RunStarts(c) \/ DynStep(c) \/ Stop(c)
           \/ UnlinkStep(c, ofResults, ofStatus, ofError)
    PROVE  FilesTypeOK' /\ DynTypeOK'
<1> USE CallsAssumption, MaxWaitsAssumption
    DEF TypeOK, FilesTypeOK, DynTypeOK, DynGo, DynEnd, Note, Missing, Report, NoReport, Said,
        ErrorText, Exists, Writers, DataTexts, ScriptTexts, StatusTexts, Endings, DynStages,
        RemoveStages, PrepareStages, WaitStages, TryStages, fileVars
<1>1. CASE RunStarts(c)  BY <1>1 DEF RunStarts
<1>2. CASE UnlinkResults(c, ofResults)  BY <1>2 DEF UnlinkResults
<1>3. CASE UnlinkStatus(c, ofStatus)  BY <1>3 DEF UnlinkStatus
<1>4. CASE UnlinkError(c, ofError)  BY <1>4 DEF UnlinkError
<1>5. CASE UnlinkRaises(c, ofResults, ofStatus, ofError)
  <2>1. PICK stage \in RemoveStages : DynEnd(c, stage, "raised", NoReport)
    BY <1>5 DEF UnlinkRaises
  <2>2. UNCHANGED fileVars  BY <1>5 DEF UnlinkRaises
  <2>3. QED  BY <2>1, <2>2
<1>6. CASE LoadInput(c) \/ Prepare(c)  BY <1>6 DEF LoadInput, Prepare
<1>7. CASE OpenScript(c) \/ WriteScript(c)  BY <1>7 DEF OpenScript, WriteScript
<1>8. CASE PrepareRaises(c)
  <2>1. /\ dyn' = [dyn EXCEPT ![c] = "handling"]
        /\ UNCHANGED <<script, wanted, said, waits, input, results, status, error>>
    BY <1>8 DEF PrepareRaises
  <2>2. QED  BY <2>1
<1>9. CASE TimeOut(c) \/ ReportFailure(c)  BY <1>9 DEF TimeOut, ReportFailure
<1>10. CASE PrintError(c)
  <2>1. CASE DynEnd(c, "readError", "failed", ErrorText(error))
    BY <1>10, <2>1 DEF PrintError
  <2>2. CASE DynGo(c, "readError", "handling") /\ UNCHANGED waits
    BY <1>10, <2>2 DEF PrintError
  <2>3. QED  BY <1>10, <2>1, <2>2 DEF PrintError
<1>11. CASE PrintResults(c)
  <2>1. CASE DynEnd(c, "reading", "completed", results)  BY <1>11, <2>1 DEF PrintResults
  <2>2. CASE DynGo(c, "reading", "handling") /\ UNCHANGED waits
    BY <1>11, <2>2 DEF PrintResults
  <2>3. QED  BY <1>11, <2>1, <2>2 DEF PrintResults
<1>12. CASE HandlerWrites(c)  BY <1>12 DEF HandlerWrites
<1>13. CASE HandlerRaises(c)
  <2>1. error' \in {error, Note("empty", c)}  BY <1>13 DEF HandlerRaises, Torn
  <2>2. QED  BY <1>13, <2>1 DEF HandlerRaises
<1>14. CASE Stop(c)  BY <1>14 DEF Stop
<1>15. QED
  BY <1>1, <1>2, <1>3, <1>4, <1>5, <1>6, <1>7, <1>8, <1>9, <1>10, <1>11, <1>12, <1>13, <1>14
     DEF DynStep, UnlinkStep

LEMMA WaitTypes ==
    ASSUME TypeOK, NEW c \in Calls, WaitStep(c, wbk[c] = "ended")
    PROVE  FilesTypeOK' /\ DynTypeOK'
<1> USE MaxWaitsAssumption
    DEF TypeOK, FilesTypeOK, DynTypeOK, DynGo, DynStages, RemoveStages, PrepareStages,
        WaitStages, TryStages, fileVars
<1>1. CASE WaitAgain(c)
  <2>1. waits[c] + 1 \in 0 .. MaxWaits  BY <1>1 DEF WaitAgain
  <2>2. QED  BY <1>1, <2>1 DEF WaitAgain
<1>2. CASE ~WaitAgain(c)
  <2>1. \E stage, to \in DynStages : DynGo(c, stage, to) /\ UNCHANGED <<waits, fileVars>>
    BY <1>2 DEF WaitStep, Check, CheckError, CheckResults, CheckStatus, ReadStatus, CheckProcess,
                LastResults, LastError
  <2>2. QED  BY <2>1
<1>3. QED  BY <1>1, <1>2

LEMMA WorkbenchTypes ==
    ASSUME TypeOK, NEW c \in Calls, WbkStep(c, script, ReadsThermal(c)) \/ WorkbenchEnds(c)
    PROVE  FilesTypeOK' /\ WbkTypeOK'
<1> USE CallsAssumption
    DEF TypeOK, FilesTypeOK, WbkTypeOK, WbkGo, Note, Report, Writers, DataTexts, StatusTexts,
        WbkStages, ThermalStages, StructuralStages, Alive, fileVars
<1>1. CASE ReadJournal(c, script)  BY <1>1 DEF ReadJournal, DynTypeOK
<1>2. CASE BuildProject(c, ReadsThermal(c)) \/ RefreshSetup(c) \/ JournalRaises(c)
  BY <1>2 DEF BuildProject, RefreshSetup, JournalRaises
<1>3. CASE ThermalSent(c) \/ StructuralSent(c) \/ ThermalSolves(c) \/ ThermalRaises(c)
  BY <1>3 DEF ThermalSent, StructuralSent, ThermalSolves, ThermalRaises
<1>4. CASE \/ ThermalOpensError(c) \/ ThermalWritesError(c)
            \/ StructuralOpensError(c) \/ StructuralWritesError(c)
  BY <1>4 DEF ThermalOpensError, ThermalWritesError, StructuralOpensError, StructuralWritesError
<1>5. CASE StructuralSolves(c) \/ SaveProject(c) \/ StructuralRaises(c) \/ ErrorNotWritten(c)
  <2>1. status' \in {status, Note("empty", c)} /\ UNCHANGED <<input, results, error>>
    BY <1>5 DEF StructuralSolves, SaveProject, StructuralRaises, ErrorNotWritten, Torn
  <2>2. \E stage \in WbkStages : WbkGo(c, wbk[c], stage)
    BY <1>5 DEF StructuralSolves, SaveProject, StructuralRaises, ErrorNotWritten
  <2>3. QED  BY <2>1, <2>2
<1>6. CASE OpenResults(c) \/ WriteResults(c)  BY <1>6 DEF OpenResults, WriteResults
<1>7. CASE WriteCompleted(c)  BY <1>7 DEF WriteCompleted
<1>8. CASE WorkbenchEnds(c)  BY <1>8 DEF WorkbenchEnds
<1>9. QED  BY <1>1, <1>2, <1>3, <1>4, <1>5, <1>6, <1>7, <1>8 DEF WbkStep

\* Every file, program counter and ending keeps its type, for any number of
\* runs, any bound on the waits, any faults and any discipline.
THEOREM TypeCorrect == Spec => []TypeOK
<1>1. Init => TypeOK
  <2> SUFFICES ASSUME Init PROVE TypeOK  OBVIOUS
  <2>1. FilesTypeOK
    <3>1. PICK left \in Leftovers :
             /\ input = Note(left.input, None) /\ results = Report(left.results, None, None)
             /\ status = Note(left.status, None) /\ error = Note(left.error, None)
      BY DEF Init, FilesInit
    <3>2. QED  BY <3>1, LeftoversAssumption DEF FilesTypeOK, Note, Report, Writers
  <2>2. DynTypeOK /\ WbkTypeOK
    BY CallsAssumption, MaxWaitsAssumption
       DEF Init, DynInit, WbkInit, DynTypeOK, WbkTypeOK, Said, NoReport, Report, Note, Writers,
           DataTexts, ScriptTexts, Endings, DynStages, WbkStages
  <2>3. QED  BY <2>1, <2>2 DEF TypeOK
<1>2. TypeOK /\ [Next]_vars => TypeOK'
  <2> SUFFICES ASSUME TypeOK, Steps PROVE TypeOK'  BY NextIsSteps
  <2> USE DEF TypeOK, dynVars, wbkVars
  <2>1. ASSUME NEW c \in Calls,
               Start(c) \/ ControllerRuns(c) \/ Removes(c) \/ ControllerStopped(c)
        PROVE  TypeOK'
    BY <2>1, ControllerTypes
       DEF Start, ControllerRuns, Removes, ControllerUnlinks, ControllerStopped, WbkTypeOK
  <2>2. ASSUME NEW c \in Calls, ControllerWaits(c)  PROVE TypeOK'
    BY <2>2, WaitTypes DEF ControllerWaits, WbkTypeOK
  <2>3. ASSUME NEW c \in Calls, ControllerLaunches(c)  PROVE TypeOK'
    BY <2>3 DEF ControllerLaunches, Launch, DynGo, WorkbenchStarts, WbkGo, FilesTypeOK,
                DynTypeOK, WbkTypeOK, DynStages, TryStages, WaitStages, WbkStages, fileVars
  <2>4. ASSUME NEW c \in Calls, WorkbenchRuns(c) \/ WorkbenchCloses(c)  PROVE TypeOK'
    BY <2>4, WorkbenchTypes DEF WorkbenchRuns, WorkbenchCloses, DynTypeOK
  <2>5. CASE UNCHANGED vars
    BY <2>5 DEF vars, fileVars, FilesTypeOK, DynTypeOK, WbkTypeOK
  <2>6. QED
    BY <2>1, <2>2, <2>3, <2>4, <2>5 DEF Steps, RunMoves, ControllerMoves, WorkbenchMoves
<1>3. QED  BY <1>1, <1>2, PTL DEF Spec

\* What is printed is the results file, the error file or the run's own error.
LEMMA Printed ==
    ASSUME TypeOK, Steps, NEW d \in Calls, said'[d] # said[d]
    PROVE  \/ ~Exists(said'[d].file) /\ said'[d].kind # "failed"
           \/ ~Exists(said'[d].file) /\ dyn[d] = "failing" /\ ~Exists(error)
           \/ said'[d].file = results /\ dyn[d] = "reading" /\ said'[d].kind = "completed"
           \/ said'[d].file = ErrorText(error) /\ dyn[d] = "readError" /\ Exists(error)
           \/ said'[d].file = Report("whole", d, d) /\ said'[d].kind = "error"
<1> USE DEF TypeOK, DynTypeOK, DynGo, DynEnd, Said, NoReport, Report, Exists
<1>1. ASSUME NEW c \in Calls, Removes(c) \/ ControllerStopped(c)
      PROVE  ~Exists(said'[d].file) /\ said'[d].kind # "failed"
  <2>1. \/ UNCHANGED said
        \/ \E ending \in {"raised", "stopped"} :
              said' = [said EXCEPT ![c] = Said(ending, NoReport)]
    BY <1>1 DEF Removes, ControllerUnlinks, UnlinkStep, UnlinkResults, UnlinkStatus,
                UnlinkError, UnlinkRaises, ControllerStopped, Stop
  <2>2. QED  BY <2>1
<1>2. ASSUME NEW c \in Calls, Start(c) \/ ControllerWaits(c) \/ ControllerLaunches(c)
      PROVE  FALSE
  BY <1>2 DEF Start, RunStarts, ControllerWaits, WaitStep, Check, CheckError, CheckResults,
              CheckStatus, ReadStatus, CheckProcess, LastResults, LastError, WaitAgain,
              ControllerLaunches, Launch
<1>3. ASSUME NEW c \in Calls, ControllerRuns(c)
      PROVE  c = d /\ (TimeOut(d) \/ ReportFailure(d) \/ PrintError(d) \/ PrintResults(d)
                       \/ HandlerWrites(d) \/ HandlerRaises(d))
  BY <1>3 DEF ControllerRuns, DynStep, LoadInput, Prepare, OpenScript, WriteScript, PrepareRaises,
              TimeOut, ReportFailure, PrintError, PrintResults, HandlerWrites, HandlerRaises
<1>4. CASE TimeOut(d) \/ ReportFailure(d)  BY <1>4 DEF TimeOut, ReportFailure
<1>5. CASE PrintError(d)  BY <1>5 DEF PrintError
<1>6. CASE PrintResults(d)  BY <1>6 DEF PrintResults
<1>7. CASE HandlerWrites(d) \/ HandlerRaises(d)  BY <1>7 DEF HandlerWrites, HandlerRaises
<1>8. ASSUME NEW c \in Calls, WorkbenchRuns(c) \/ WorkbenchCloses(c)
      PROVE  FALSE
  BY <1>8 DEF WorkbenchRuns, WorkbenchCloses, dynVars
<1>9. CASE UNCHANGED vars  BY <1>9 DEF vars, dynVars
<1>10. QED
  BY <1>1, <1>2, <1>3, <1>4, <1>5, <1>6, <1>7, <1>8, <1>9
     DEF Steps, RunMoves, ControllerMoves, WorkbenchMoves

(***************************************************************************)
(* Quiet runs: one run is active at a time and finds only files of its own.*)
(***************************************************************************)
LEMMA OneMoves ==
    ASSUME TypeOK, OneActive, Discipline = "quiet", NEW c \in Calls, RunMoves(c),
           NEW d \in Calls, d # c
    PROVE  /\ ~Active(d)
           /\ dyn'[d] = dyn[d] /\ wbk'[d] = wbk[d] /\ source'[d] = source[d]
<1> USE DEF TypeOK, DynTypeOK, WbkTypeOK, DynGo, DynEnd, WbkGo, dynVars, wbkVars
<1>1. CASE Start(c)
  BY <1>1 DEF Start, MayStart, RunStarts, Active
<1>2. CASE Removes(c) \/ ControllerStopped(c)
  <2>1. /\ Working(c)
        /\ dyn'[d] = dyn[d] /\ wbk'[d] = wbk[d] /\ source'[d] = source[d]
    BY <1>2 DEF Removes, ControllerUnlinks, UnlinkStep, UnlinkResults, UnlinkStatus, UnlinkError,
                UnlinkRaises, ControllerStopped, Stop, Working
  <2>2. QED  BY <2>1 DEF OneActive, Active
<1>3. CASE ControllerWaits(c) \/ ControllerLaunches(c)
  <2>1. /\ Working(c)
        /\ dyn'[d] = dyn[d] /\ wbk'[d] = wbk[d] /\ source'[d] = source[d]
    BY <1>3 DEF ControllerWaits, WaitStep, Check, CheckError, CheckResults, CheckStatus,
                ReadStatus, CheckProcess, LastResults, LastError, WaitAgain, ControllerLaunches,
                Launch, WorkbenchStarts, Working
  <2>2. QED  BY <2>1 DEF OneActive, Active
<1>4. CASE ControllerRuns(c)
  <2>1. /\ Working(c)
        /\ dyn'[d] = dyn[d] /\ wbk'[d] = wbk[d] /\ source'[d] = source[d]
    BY <1>4 DEF ControllerRuns, DynStep, LoadInput, Prepare, OpenScript, WriteScript,
                PrepareRaises, TimeOut, ReportFailure, PrintError, PrintResults, HandlerWrites,
                HandlerRaises, Working
  <2>2. QED  BY <2>1 DEF OneActive, Active
<1>5. CASE WorkbenchRuns(c) \/ WorkbenchCloses(c)
  <2>1. /\ Alive(c)
        /\ dyn'[d] = dyn[d] /\ wbk'[d] = wbk[d] /\ source'[d] = source[d]
    BY <1>5 DEF WorkbenchRuns, WbkStep, ReadJournal, BuildProject, RefreshSetup, JournalRaises,
                ThermalSent, StructuralSent, ThermalSolves, ThermalRaises, ThermalOpensError,
                ThermalWritesError, StructuralSolves, OpenResults, WriteResults, SaveProject,
                WriteCompleted, StructuralRaises, StructuralOpensError, StructuralWritesError,
                ErrorNotWritten, WorkbenchCloses, WorkbenchEnds, Alive
  <2>2. QED  BY <2>1 DEF OneActive, Active
<1>6. QED
  BY <1>1, <1>2, <1>3, <1>4, <1>5 DEF RunMoves, ControllerMoves, WorkbenchMoves

OwnRun(c) == LaunchedFirst(c) /\ OwnScript(c) /\ OwnFiles(c) /\ ErrorStays(c)

LEMMA ControllerKeepsOwn ==
    ASSUME TypeOK, Own, NEW c \in Calls,
           Removes(c) \/ ControllerMoves(c)
    PROVE  OwnRun(c)'
<1> USE DEF TypeOK, DynTypeOK, WbkTypeOK, DynGo, DynEnd, WbkGo, dynVars, wbkVars, fileVars,
        OwnRun, Own, LaunchedFirst, OwnScript, OwnFiles, ErrorStays, Active, Working, Alive,
        Launched, BeforeResults, BeforeError, WaitStages, Exists, Note, Report, NoReport, Missing
<1>1. CASE Start(c)  BY <1>1 DEF Start, RunStarts
<1>2. CASE Removes(c)
  <2>1. PICK ofResults, ofStatus, ofError : UnlinkStep(c, ofResults, ofStatus, ofError)
    BY <1>2 DEF Removes, ControllerUnlinks
  <2>2. wbk' = wbk /\ source' = source  BY <1>2 DEF Removes, ControllerUnlinks
  <2>3. dyn[c] \in BeforeError
    BY <2>1 DEF UnlinkStep, UnlinkResults, UnlinkStatus, UnlinkError, UnlinkRaises
  <2>4. wbk'[c] = "none"  BY <2>2, <2>3
  <2>5. CASE UnlinkResults(c, ofResults)  BY <2>4, <2>5 DEF UnlinkResults
  <2>6. CASE UnlinkStatus(c, ofStatus)  BY <2>4, <2>6 DEF UnlinkStatus
  <2>7. CASE UnlinkError(c, ofError)  BY <2>4, <2>7 DEF UnlinkError
  <2>8. CASE UnlinkRaises(c, ofResults, ofStatus, ofError)
    <3>1. dyn'[c] = "exited"  BY <2>8 DEF UnlinkRaises
    <3>2. QED  BY <2>4, <3>1
  <2>9. QED  BY <2>1, <2>5, <2>6, <2>7, <2>8 DEF UnlinkStep
<1>3. CASE ControllerStopped(c)  BY <1>3 DEF ControllerStopped, Stop
<1>4. CASE ControllerLaunches(c)  BY <1>4 DEF ControllerLaunches, Launch, WorkbenchStarts
<1>5. CASE ControllerWaits(c)
  <2>1. /\ dyn[c] \in WaitStages
        /\ dyn'[c] \in WaitStages \union {"failing", "reading", "handling"}
        /\ dyn'[c] = "failing" => Exists(error)
        /\ UNCHANGED <<script, wbk, source, results, error>>
    BY <1>5 DEF ControllerWaits, WaitStep, Check, CheckError, CheckResults, CheckStatus,
                ReadStatus, CheckProcess, LastResults, LastError, WaitAgain
  <2>2. QED  BY <2>1
<1>6. CASE ControllerRuns(c)
  <2> USE <1>6 DEF ControllerRuns
  <2>1. CASE LoadInput(c) \/ Prepare(c) \/ PrepareRaises(c)
    <3>1. /\ dyn[c] \in PrepareStages /\ dyn'[c] \in {"prepare", "openScript", "handling"}
          /\ UNCHANGED <<script, wbk, source, results, error>>
      BY <2>1 DEF LoadInput, Prepare, PrepareRaises, PrepareStages
    <3>2. wbk[c] = "none"  BY <3>1 DEF PrepareStages
    <3>3. QED  BY <3>1, <3>2 DEF PrepareStages
  <2>2. CASE OpenScript(c) \/ WriteScript(c)
    <3>1. wbk[c] = "none"  BY <2>2 DEF OpenScript, WriteScript
    <3>2. CASE OpenScript(c)  BY <3>1, <3>2 DEF OpenScript
    <3>3. CASE WriteScript(c)  BY <3>1, <3>3 DEF WriteScript
    <3>4. QED  BY <2>2, <3>2, <3>3
  <2>3. CASE TimeOut(c) \/ ReportFailure(c)  BY <2>3 DEF TimeOut, ReportFailure
  <2>4. CASE PrintError(c) \/ PrintResults(c)
    <3>1. /\ dyn[c] \in {"readError", "reading"} /\ dyn'[c] \in {"exited", "handling"}
          /\ UNCHANGED <<script, wbk, source, results, error>>
      BY <2>4 DEF PrintError, PrintResults
    <3>2. QED  BY <3>1
  <2>5. CASE HandlerWrites(c)
    <3>1. /\ dyn[c] = "handling" /\ dyn'[c] = "exited"
          /\ error' = Note("whole", c)
          /\ UNCHANGED <<script, wbk, source, results>>
      BY <2>5 DEF HandlerWrites
    <3>2. QED  BY <3>1
  <2>6. CASE HandlerRaises(c)
    <3>1. /\ dyn[c] = "handling" /\ dyn'[c] = "exited"
          /\ error' \in {error, Note("empty", c)}
          /\ UNCHANGED <<script, wbk, source, results>>
      BY <2>6 DEF HandlerRaises, Torn
    <3>2. QED  BY <3>1
  <2>7. QED  BY <2>1, <2>2, <2>3, <2>4, <2>5, <2>6 DEF DynStep
<1>7. QED  BY <1>1, <1>2, <1>3, <1>4, <1>5, <1>6 DEF ControllerMoves

LEMMA WorkbenchKeepsOwn ==
    ASSUME TypeOK, Own, NEW c \in Calls, WorkbenchRuns(c) \/ WorkbenchCloses(c)
    PROVE  OwnRun(c)'
<1> USE DEF TypeOK, DynTypeOK, WbkTypeOK, WbkGo, dynVars, wbkVars, fileVars, OwnRun, Own,
        LaunchedFirst, OwnScript, OwnFiles, ErrorStays, Active, Working, Alive, Launched,
        BeforeResults, BeforeError, WaitStages, Exists, Note, Report
<1>1. CASE WorkbenchCloses(c)  BY <1>1 DEF WorkbenchCloses, WorkbenchEnds
<1>2. CASE WorkbenchRuns(c)
  <2> USE <1>2 DEF WorkbenchRuns
  <2>1. CASE ReadJournal(c, script)  BY <2>1 DEF ReadJournal
  <2>2. CASE BuildProject(c, ReadsThermal(c)) \/ RefreshSetup(c) \/ JournalRaises(c)
    BY <2>2 DEF BuildProject, RefreshSetup, JournalRaises
  <2>3. CASE ThermalSent(c) \/ StructuralSent(c) \/ ThermalSolves(c) \/ ThermalRaises(c)
    BY <2>3 DEF ThermalSent, StructuralSent, ThermalSolves, ThermalRaises
  <2>4. CASE \/ ThermalOpensError(c) \/ ThermalWritesError(c)
            \/ StructuralOpensError(c) \/ StructuralWritesError(c)
    <3>1. /\ Alive(c) /\ wbk[c] # "boot" /\ wbk'[c] \notin {"none", "boot"}
          /\ error'.by = c /\ error'.text # "absent"
          /\ UNCHANGED <<script, dyn, source, results>>
      BY <2>4 DEF ThermalOpensError, ThermalWritesError, StructuralOpensError,
                  StructuralWritesError
    <3>2. QED  BY <3>1
  <2>5. CASE StructuralSolves(c) \/ SaveProject(c) \/ StructuralRaises(c) \/ ErrorNotWritten(c)
    <3>1. /\ Alive(c) /\ wbk[c] # "boot" /\ wbk'[c] \notin {"none", "boot"}
          /\ UNCHANGED <<script, dyn, source, results, error>>
      BY <2>5 DEF StructuralSolves, SaveProject, StructuralRaises, ErrorNotWritten
    <3>2. QED  BY <3>1
  <2>6. CASE OpenResults(c) \/ WriteResults(c)  BY <2>6 DEF OpenResults, WriteResults
  <2>7. CASE WriteCompleted(c)  BY <2>7 DEF WriteCompleted
  <2>8. QED  BY <2>1, <2>2, <2>3, <2>4, <2>5, <2>6, <2>7 DEF WbkStep
<1>3. QED  BY <1>1, <1>2

\* When a run is started only after the Workbench of the run before is gone,
\* one run is active at a time, and it finds only what it wrote itself.
THEOREM QuietOwn ==
    ASSUME Discipline = "quiet"
    PROVE  Spec => []Own
<1>1. Init => Own
  BY DEF Init, DynInit, WbkInit, Own, OneActive, LaunchedFirst, OwnScript, OwnFiles, ErrorStays,
         Active, Working, Alive
<1>2. TypeOK /\ Own /\ [Next]_vars => Own'
  <2> SUFFICES ASSUME TypeOK, Own, Steps PROVE Own'  BY NextIsSteps
  <2>1. ASSUME NEW c \in Calls, RunMoves(c)  PROVE Own'
    <3>1. OwnRun(c)'
      BY <2>1, ControllerKeepsOwn, WorkbenchKeepsOwn DEF RunMoves, WorkbenchMoves
    <3>2. ASSUME NEW d \in Calls, d # c
          PROVE  OwnRun(d)' /\ ~Active(d)'
      <4>1. /\ ~Active(d)
            /\ dyn'[d] = dyn[d] /\ wbk'[d] = wbk[d] /\ source'[d] = source[d]
        BY <2>1, <3>2, OneMoves DEF Own
      <4>2. ~Active(d)'  BY <4>1 DEF Active, Working, Alive
      <4>3. QED
        BY <4>1, <4>2 DEF Own, OwnRun, LaunchedFirst, OwnScript, OwnFiles, ErrorStays, Active,
                          Working, Alive
    <3>3. OneActive'  BY <3>2 DEF OneActive
    <3>4. QED  BY <3>1, <3>2, <3>3 DEF Own, OwnRun
  <2>2. CASE UNCHANGED vars
    BY <2>2 DEF vars, dynVars, wbkVars, fileVars, Own, OneActive, LaunchedFirst, OwnScript,
                OwnFiles, ErrorStays, Active, Working, Alive
  <2>3. QED  BY <2>1, <2>2 DEF Steps
<1>3. QED  BY <1>1, <1>2, TypeCorrect, PTL DEF Spec

\* A quiet run prints only results and errors written in it, from its own
\* journal, for any number of runs and any faults in it or before it.
THEOREM QuietPrintsOwn ==
    ASSUME Discipline = "quiet"
    PROVE  Spec => []PrintedIsOwn
<1>1. Init => PrintedIsOwn
  BY DEF Init, DynInit, PrintedIsOwn, Said, NoReport, Report, Exists
<1>2. TypeOK /\ Own /\ PrintedIsOwn /\ [Next]_vars => PrintedIsOwn'
  <2> SUFFICES ASSUME TypeOK, Own, PrintedIsOwn, Steps,
                      NEW d \in Calls, Exists(said'[d].file)
               PROVE  said'[d].file.by = d /\ said'[d].file.of = d
    BY NextIsSteps DEF PrintedIsOwn, Exists
  <2>1. CASE said'[d] = said[d]  BY <2>1 DEF PrintedIsOwn
  <2>2. CASE said'[d].file = results /\ dyn[d] = "reading"
    BY <2>2 DEF Own, OwnFiles, Active, Working, BeforeResults, Exists
  <2>3. CASE said'[d].file = ErrorText(error) /\ dyn[d] = "readError" /\ Exists(error)
    BY <2>3 DEF Own, OwnFiles, Active, Working, BeforeResults, BeforeError, ErrorText, Report,
                Exists
  <2>4. CASE said'[d].file = Report("whole", d, d)  BY <2>4 DEF Report
  <2>5. QED  BY <2>1, <2>2, <2>3, <2>4, Printed
<1>3. QED  BY <1>1, <1>2, TypeCorrect, QuietOwn, PTL DEF Spec

\* A quiet run that reports failure has an error file to print: the
\* error file that the wait loop saw is still there when main looks for it.
THEOREM QuietFailureHasFile ==
    ASSUME Discipline = "quiet"
    PROVE  Spec => []FailureHasFile
<1>1. Init => FailureHasFile
  BY DEF Init, DynInit, FailureHasFile, Said
<1>2. TypeOK /\ Own /\ FailureHasFile /\ [Next]_vars => FailureHasFile'
  <2> SUFFICES ASSUME TypeOK, Own, FailureHasFile, Steps,
                      NEW d \in Calls, said'[d].kind = "failed"
               PROVE  Exists(said'[d].file)
    BY NextIsSteps DEF FailureHasFile, Exists
  <2>1. CASE said'[d] = said[d]  BY <2>1 DEF FailureHasFile, Exists
  <2>2. CASE dyn[d] = "failing" /\ ~Exists(error)  BY <2>2 DEF Own, ErrorStays
  <2>3. CASE said'[d].file = ErrorText(error) /\ Exists(error)
    BY <2>3 DEF ErrorText, Report, Exists
  <2>4. QED  BY <2>1, <2>2, <2>3, Printed
<1>3. QED  BY <1>1, <1>2, TypeCorrect, QuietOwn, PTL DEF Spec
(***************************************************************************)
(* Every journal on the shared path is of a checked request.               *)
(***************************************************************************)
\* What a step does that neither loads, prepares, writes, launches nor reads.
KeepsJournals ==
    /\ UNCHANGED <<script, wanted, source>>
    /\ \A d \in Calls : dyn'[d] \in Unread => dyn[d] \in Unread
    /\ \A d \in Calls :
          dyn'[d] \in PrepareStages \ {"load"} => dyn'[d] = dyn[d]
    /\ \A d \in Calls : wbk'[d] # "none" => wbk[d] # "none"

JournalStep(c) ==
    \/ LoadInput(c) /\ UNCHANGED wbkVars
    \/ Prepare(c) /\ UNCHANGED wbkVars
    \/ (OpenScript(c) \/ WriteScript(c)) /\ UNCHANGED wbkVars
    \/ ControllerLaunches(c)
    \/ ReadJournal(c, script) /\ UNCHANGED dynVars

LEMMA OtherStepsKeepJournals ==
    ASSUME TypeOK, Steps, \A c \in Calls : ~JournalStep(c)
    PROVE  KeepsJournals
<1> USE DEF TypeOK, DynTypeOK, WbkTypeOK, KeepsJournals, Unread, BeforeError, BeforeResults,
        PrepareStages, wbkVars
<1>1. ASSUME NEW c \in Calls, Start(c) \/ Removes(c) \/ ControllerStopped(c)
      PROVE  KeepsJournals
  <2>1. /\ UNCHANGED <<script, wanted, wbk, source>>
        /\ \/ dyn' = [dyn EXCEPT ![c] = "exited"]
           \/ dyn[c] = "none" /\ dyn' = [dyn EXCEPT ![c] = "unlinkResults"]
           \/ dyn[c] = "unlinkResults" /\ dyn' = [dyn EXCEPT ![c] = "unlinkStatus"]
           \/ dyn[c] = "unlinkStatus" /\ dyn' = [dyn EXCEPT ![c] = "unlinkError"]
           \/ dyn[c] = "unlinkError" /\ dyn' = [dyn EXCEPT ![c] = "load"]
    BY <1>1 DEF Start, RunStarts, Removes, ControllerUnlinks, UnlinkStep, UnlinkResults,
                UnlinkStatus, UnlinkError, UnlinkRaises, ControllerStopped, Stop, DynGo, DynEnd
  <2>2. QED  BY <2>1
<1>2. ASSUME NEW c \in Calls, ControllerWaits(c)
      PROVE  KeepsJournals
  <2>1. /\ UNCHANGED <<script, wanted, wbk, source>>
        /\ \E next \in WaitStages \union {"failing", "reading", "handling"} :
               dyn' = [dyn EXCEPT ![c] = next]
    BY <1>2 DEF ControllerWaits, WaitStep, Check, CheckError, CheckResults, CheckStatus,
                ReadStatus, CheckProcess, LastResults, LastError, WaitAgain, DynGo, WaitStages
  <2>2. QED  BY <2>1 DEF WaitStages
<1>3. ASSUME NEW c \in Calls, ControllerRuns(c)
      PROVE  KeepsJournals
  <2>1. ~(LoadInput(c) \/ Prepare(c) \/ OpenScript(c) \/ WriteScript(c))
    BY <1>3 DEF JournalStep, ControllerRuns
  <2>2. /\ UNCHANGED <<script, wanted, wbk, source>>
        /\ \E next \in {"handling", "readError", "exited"} : dyn' = [dyn EXCEPT ![c] = next]
    BY <1>3, <2>1
       DEF ControllerRuns, DynStep, PrepareRaises, TimeOut, ReportFailure, PrintError,
           PrintResults, HandlerWrites, HandlerRaises, DynGo, DynEnd
  <2>3. QED  BY <2>2
<1>4. ASSUME NEW c \in Calls, WorkbenchRuns(c) \/ WorkbenchCloses(c)
      PROVE  KeepsJournals
  <2>1. UNCHANGED <<script, wanted, dyn>>
    BY <1>4 DEF WorkbenchRuns, WorkbenchCloses, dynVars
  <2>2. /\ source' = source
        /\ wbk[c] # "none"
        /\ \A d \in Calls \ {c} : wbk'[d] = wbk[d]
    BY <1>4 DEF JournalStep, WorkbenchRuns, WbkStep, BuildProject, RefreshSetup, JournalRaises,
                ThermalSent, StructuralSent, ThermalSolves, ThermalRaises, ThermalOpensError,
                ThermalWritesError, StructuralSolves, OpenResults, WriteResults, SaveProject,
                WriteCompleted, StructuralRaises, StructuralOpensError, StructuralWritesError,
                ErrorNotWritten, WorkbenchCloses, WorkbenchEnds, Alive, WbkGo
  <2>3. QED  BY <2>1, <2>2
<1>5. CASE UNCHANGED vars  BY <1>5 DEF vars, dynVars
<1>6. QED
  BY <1>1, <1>2, <1>3, <1>4, <1>5
     DEF Steps, RunMoves, ControllerMoves, WorkbenchMoves, JournalStep

\* However runs overlap on the one journal file, the file and every Workbench
\* that has read it hold the journal of a run whose request was checked.
THEOREM OnlyCheckedJournals == Spec => []Validated
<1>1. Init => Validated
  <2> SUFFICES ASSUME Init, NEW c \in Calls
               PROVE  /\ dyn[c] = "none" /\ wbk[c] = "none" /\ wanted[c] = None
                      /\ script.by # c
                      /\ \A d \in Calls : source[d] # c
    BY DEF Validated
  <2> QED  BY CallsAssumption DEF Init, DynInit, WbkInit, Note
<1>2. TypeOK /\ Validated /\ [Next]_vars => Validated'
  <2> SUFFICES ASSUME TypeOK, Validated, Steps PROVE Validated'  BY NextIsSteps
  <2> USE CallsAssumption, EditsAssumption
      DEF TypeOK, DynTypeOK, WbkTypeOK, Validated, Unread, Checked, dynVars, wbkVars,
          BeforeError, BeforeResults
  <2>1. ASSUME NEW c \in Calls, LoadInput(c), UNCHANGED wbkVars  PROVE Validated'
    BY <2>1 DEF LoadInput
  <2>2. ASSUME NEW c \in Calls, Prepare(c), UNCHANGED wbkVars  PROVE Validated'
    BY <2>2 DEF Prepare, DynGo
  <2>3. ASSUME NEW c \in Calls, OpenScript(c) \/ WriteScript(c), UNCHANGED wbkVars
        PROVE  Validated'
    BY <2>3 DEF OpenScript, WriteScript, Note
  <2>4. ASSUME NEW c \in Calls, ControllerLaunches(c)  PROVE Validated'
    BY <2>4 DEF ControllerLaunches, Launch, DynGo, WorkbenchStarts, WbkGo
  <2>5. ASSUME NEW c \in Calls, ReadJournal(c, script), UNCHANGED dynVars  PROVE Validated'
    <3>1. /\ source' = [source EXCEPT ![c] = script.by]
          /\ wbk[c] # "none"
          /\ \A d \in Calls \ {c} : wbk'[d] = wbk[d]
          /\ UNCHANGED <<script, dyn, wanted>>
      BY <2>5 DEF ReadJournal
    <3>2. QED  BY <3>1
  <2>6. CASE \A c \in Calls : ~JournalStep(c)
    BY <2>6, OtherStepsKeepJournals DEF KeepsJournals, PrepareStages
  <2>7. QED  BY <2>1, <2>2, <2>3, <2>4, <2>5, <2>6 DEF JournalStep
<1>3. QED  BY <1>1, <1>2, TypeCorrect, PTL DEF Spec

\* Whatever the requests, the overlap and the faults, no Workbench draws or
\* meshes a size that validation should have refused, NaN apart.
THEOREM CheckedSizes == Spec => []DrawsCheckedSizes
<1>1. TypeOK /\ Validated => DrawsCheckedSizes
  BY CallsAssumption, EditsAssumption, RunsHaveSizes
     DEF TypeOK, DynTypeOK, WbkTypeOK, Writers, Validated, Checked, DrawsCheckedSizes
<1>2. QED  BY <1>1, TypeCorrect, OnlyCheckedJournals, PTL

\* Whatever the two servers write into the input file, the dynamic controller
\* does not start Workbench on it.
THEOREM ToolsNeverRun == Spec => []ToolRequestsNeverRun
<1>1. TypeOK /\ Validated => ToolRequestsNeverRun
  BY EditsAssumption, ToolRequestsDoNotRun
     DEF TypeOK, DynTypeOK, WbkTypeOK, Validated, Checked, ToolRequestsNeverRun
<1>2. QED  BY <1>1, TypeCorrect, OnlyCheckedJournals, PTL

\* What becomes of a run that stands at "prepare".
LEMMA StepsFromPrepare ==
    ASSUME TypeOK, Steps, NEW c \in Calls, dyn[c] = "prepare"
    PROVE  \/ dyn'[c] \in {"prepare", "exited"}
           \/ dyn'[c] = "openScript" /\ Runs(wanted[c])
           \/ dyn'[c] = "handling" /\ ~Runs(wanted[c])
<1> USE DEF TypeOK, DynTypeOK
<1>1. ASSUME NEW d \in Calls, Start(d) \/ Removes(d) \/ ControllerStopped(d)
      PROVE  dyn'[c] \in {"prepare", "exited"}
  BY <1>1 DEF Start, RunStarts, Removes, ControllerUnlinks, UnlinkStep, UnlinkResults,
              UnlinkStatus, UnlinkError, UnlinkRaises, ControllerStopped, Stop, DynGo, DynEnd
<1>2. ASSUME NEW d \in Calls, ControllerWaits(d) \/ ControllerLaunches(d)
      PROVE  dyn'[c] = "prepare"
  <2>1. \E stage \in WaitStages \union {"launch"}, next \in DynStages :
            dyn[d] = stage /\ dyn' = [dyn EXCEPT ![d] = next]
    BY <1>2 DEF ControllerWaits, WaitStep, Check, CheckError, CheckResults, CheckStatus,
                ReadStatus, CheckProcess, LastResults, LastError, WaitAgain, DynGo, WaitStages,
                ControllerLaunches, Launch, DynStages, TryStages
  <2>2. QED  BY <2>1 DEF WaitStages
<1>3. ASSUME NEW d \in Calls, ControllerRuns(d)
      PROVE  \/ dyn'[c] = "prepare"
             \/ dyn'[c] = "openScript" /\ Runs(wanted[c])
             \/ dyn'[c] = "handling" /\ ~Runs(wanted[c])
  <2>1. \/ \E next \in DynStages : dyn[d] # "prepare" /\ dyn' = [dyn EXCEPT ![d] = next]
        \/ Runs(wanted[d]) /\ dyn' = [dyn EXCEPT ![d] = "openScript"]
        \/ ~Runs(wanted[d]) /\ dyn' = [dyn EXCEPT ![d] = "handling"]
    BY <1>3
       DEF ControllerRuns, DynStep, LoadInput, Prepare, OpenScript, WriteScript, PrepareRaises,
           TimeOut, ReportFailure, PrintError, PrintResults, HandlerWrites, HandlerRaises, DynGo,
           DynEnd, DynStages, RemoveStages, PrepareStages, TryStages, WaitStages
  <2>2. QED  BY <2>1
<1>4. CASE UNCHANGED dyn  BY <1>4
<1>5. QED
  BY <1>1, <1>2, <1>3, <1>4
     DEF Steps, RunMoves, ControllerMoves, WorkbenchMoves, WorkbenchRuns, WorkbenchCloses, vars,
         dynVars

\* Every refusal has a reason and every gap is refused, for every request,
\* overlap and fault.
THEOREM ReasonsAreAll == Spec => RefusedWithReason
<1>1. TypeOK /\ Validated /\ [Next]_vars =>
          [\A c \in Calls : dyn[c] = "prepare" =>
              /\ dyn'[c] = "handling" => ~Accepted(wanted[c]) \/ Gap(wanted[c])
              /\ dyn'[c] = "openScript" => ~Gap(wanted[c])]_vars
  <2> SUFFICES ASSUME TypeOK, Validated, Steps, NEW c \in Calls, dyn[c] = "prepare"
               PROVE  /\ dyn'[c] = "handling" => ~Accepted(wanted[c]) \/ Gap(wanted[c])
                      /\ dyn'[c] = "openScript" => ~Gap(wanted[c])
    BY NextIsSteps
  <2>1. wanted[c] \in Requests
    BY EditsAssumption DEF TypeOK, DynTypeOK, Validated
  <2>2. QED  BY <2>1, StepsFromPrepare, GapsAreAll DEF Runs
<1>2. QED  BY <1>1, TypeCorrect, OnlyCheckedJournals, PTL DEF Spec, RefusedWithReason

(***************************************************************************)
(* Every step counts.                                                      *)
(***************************************************************************)
LeftTyped ==
    \A c \in Calls :
        /\ ControllerLeft(c) \in Nat /\ WorkbenchLeft(c) \in Nat
        /\ dyn[c] # "exited" => ControllerLeft(c) > 0
        /\ Alive(c) => WorkbenchLeft(c) > 0

LEMMA LeftTypes ==
    ASSUME TypeOK
    PROVE  LeftTyped
<1> SUFFICES ASSUME NEW c \in Calls
             PROVE  /\ ControllerLeft(c) \in Nat /\ WorkbenchLeft(c) \in Nat
                    /\ dyn[c] # "exited" => ControllerLeft(c) > 0
                    /\ Alive(c) => WorkbenchLeft(c) > 0
  BY DEF LeftTyped
<1>1. MaxWaits \in Nat /\ waits[c] \in 0 .. MaxWaits
  BY MaxWaitsAssumption DEF TypeOK, DynTypeOK
<1>2. StagesLeft(c) \in 1 .. 9  BY DEF StagesLeft
<1>3. ChecksLeft(c) \in 1 .. 8  BY DEF ChecksLeft
<1>4. 8 * MaxWaits \in Nat /\ 8 * (MaxWaits - waits[c]) \in Nat  BY <1>1
<1>5. ControllerLeft(c) \in Nat  BY <1>2, <1>3, <1>4 DEF ControllerLeft
<1>6. dyn[c] # "exited" => ControllerLeft(c) > 0
  BY <1>2, <1>3, <1>4
     DEF ControllerLeft, TypeOK, DynTypeOK, DynStages, TryStages, RemoveStages, BeforeError,
         BeforeResults
<1>7. WorkbenchLeft(c) \in Nat  BY DEF WorkbenchLeft
<1>8. Alive(c) => WorkbenchLeft(c) > 0
  BY DEF WorkbenchLeft, Alive, TypeOK, WbkTypeOK, WbkStages, ThermalStages, StructuralStages
<1>9. QED  BY <1>5, <1>6, <1>7, <1>8

\* A run ends, or goes on to a later stage; or the loop goes round once more.
LEMMA ControllerStages ==
    ASSUME TypeOK, NEW c \in Calls, Removes(c) \/ ControllerMoves(c)
    PROVE  /\ \A d \in Calls \ {c} : dyn'[d] = dyn[d] /\ waits'[d] = waits[d]
           /\ \/ dyn[c] # "exited" /\ dyn'[c] = "exited"
              \/ WaitAgain(c)
              \/ /\ waits' = waits
                 /\ <<dyn[c], dyn'[c]>> \in
                       {<<"none", "unlinkResults">>, <<"unlinkResults", "unlinkStatus">>,
                        <<"unlinkStatus", "unlinkError">>, <<"unlinkError", "load">>,
                        <<"load", "prepare">>, <<"prepare", "openScript">>,
                        <<"openScript", "writeScript">>, <<"writeScript", "launch">>,
                        <<"launch", "checkError">>, <<"load", "handling">>,
                        <<"prepare", "handling">>, <<"openScript", "handling">>,
                        <<"writeScript", "handling">>, <<"launch", "handling">>,
                        <<"checkError", "failing">>, <<"checkError", "checkResults">>,
                        <<"checkResults", "reading">>, <<"checkResults", "checkStatus">>,
                        <<"checkStatus", "readStatus">>, <<"checkStatus", "checkProcess">>,
                        <<"readStatus", "checkProcess">>, <<"readStatus", "handling">>,
                        <<"checkProcess", "lastResults">>, <<"checkProcess", "checkTime">>,
                        <<"lastResults", "reading">>, <<"lastResults", "lastError">>,
                        <<"lastError", "failing">>, <<"lastError", "checkTime">>,
                        <<"checkTime", "readError">>, <<"failing", "readError">>,
                        <<"readError", "handling">>, <<"reading", "handling">>}
<1> USE DEF TypeOK, DynTypeOK, DynGo, DynEnd
<1>1. CASE Start(c)  BY <1>1 DEF Start, RunStarts
<1>2. CASE Removes(c)
  BY <1>2 DEF Removes, ControllerUnlinks, UnlinkStep, UnlinkResults, UnlinkStatus, UnlinkError,
              UnlinkRaises
<1>3. CASE ControllerLaunches(c)  BY <1>3 DEF ControllerLaunches, Launch
<1>4. CASE ControllerStopped(c)  BY <1>4 DEF ControllerStopped, Stop, Working
<1>5. CASE ControllerWaits(c)
  BY <1>5 DEF ControllerWaits, WaitStep, Check, CheckError, CheckResults, CheckStatus, ReadStatus,
              CheckProcess, LastResults, LastError, WaitAgain
<1>6. CASE ControllerRuns(c)
  <2>1. CASE \/ LoadInput(c) \/ Prepare(c) \/ OpenScript(c)
             \/ WriteScript(c) \/ PrepareRaises(c)
    BY <2>1 DEF LoadInput, Prepare, OpenScript, WriteScript, PrepareRaises
  <2>2. CASE \/ TimeOut(c) \/ ReportFailure(c) \/ PrintError(c) \/ PrintResults(c)
             \/ HandlerWrites(c) \/ HandlerRaises(c)
    BY <2>2 DEF TimeOut, ReportFailure, PrintError, PrintResults, HandlerWrites, HandlerRaises
  <2>3. QED  BY <1>6, <2>1, <2>2 DEF ControllerRuns, DynStep
<1>7. QED  BY <1>1, <1>2, <1>3, <1>4, <1>5, <1>6 DEF ControllerMoves

LEMMA ControllerCounts ==
    ASSUME TypeOK, LeftTyped, NEW c \in Calls, Removes(c) \/ ControllerMoves(c)
    PROVE  /\ ControllerLeft(c)' < ControllerLeft(c)
           /\ \A d \in Calls \ {c} : ControllerLeft(d)' = ControllerLeft(d)
<1> USE DEF BeforeError, BeforeResults, PrepareStages, WaitStages
<1>1. /\ MaxWaits \in Nat /\ waits[c] \in 0 .. MaxWaits
      /\ 8 * MaxWaits \in Nat /\ 8 * (MaxWaits - waits[c]) \in 0 .. 8 * MaxWaits
  BY MaxWaitsAssumption DEF TypeOK, DynTypeOK
<1>2. \A d \in Calls \ {c} : ControllerLeft(d)' = ControllerLeft(d)
  BY ControllerStages DEF ControllerLeft, StagesLeft, ChecksLeft
<1>3. CASE dyn[c] # "exited" /\ dyn'[c] = "exited"
  <2>1. ControllerLeft(c)' = 0  BY <1>3 DEF ControllerLeft
  <2>2. QED  BY <1>2, <1>3, <2>1 DEF LeftTyped
<1>4. CASE WaitAgain(c)
  <2>1. dyn[c] = "checkTime" /\ dyn'[c] = "checkError" /\ waits'[c] = waits[c] + 1
    BY <1>4 DEF WaitAgain, DynGo, TypeOK, DynTypeOK
  <2>2. ControllerLeft(c) = 8 * (MaxWaits - waits[c]) + 4
    BY <1>1, <2>1 DEF ControllerLeft, ChecksLeft
  <2>3. ControllerLeft(c)' = 8 * (MaxWaits - (waits[c] + 1)) + 11
    BY <1>1, <2>1 DEF ControllerLeft, ChecksLeft
  <2>4. QED  BY <1>1, <1>2, <2>2, <2>3
<1>5. CASE waits' = waits /\ ~WaitAgain(c) /\ dyn'[c] # "exited"
  <2>1. CASE dyn[c] \in BeforeError \union PrepareStages
    <3>1. ControllerLeft(c) = 8 * MaxWaits + 11 + StagesLeft(c) /\ StagesLeft(c) \in 1 .. 9
      BY <2>1 DEF ControllerLeft, StagesLeft
    <3>2. CASE dyn'[c] \in BeforeError \union PrepareStages
      <4>1. ControllerLeft(c)' = 8 * MaxWaits + 11 + StagesLeft(c)'
        BY <3>2 DEF ControllerLeft
      <4>2. StagesLeft(c)' < StagesLeft(c) /\ StagesLeft(c)' \in 1 .. 9
        BY <1>5, <2>1, <3>2, ControllerStages DEF StagesLeft
      <4>3. QED  BY <1>1, <1>2, <3>1, <4>1, <4>2
    <3>3. CASE dyn'[c] = "checkError"
      <4>1. ControllerLeft(c)' = 8 * (MaxWaits - waits[c]) + 11
        BY <1>1, <1>5, <3>3 DEF ControllerLeft, ChecksLeft
      <4>2. QED  BY <1>1, <1>2, <3>1, <4>1
    <3>4. CASE dyn'[c] = "handling"
      BY <1>1, <1>2, <3>1, <3>4 DEF ControllerLeft
    <3>5. QED  BY <1>5, <2>1, <3>2, <3>3, <3>4, ControllerStages
  <2>2. CASE dyn[c] \in WaitStages
    <3>1. ControllerLeft(c) = 8 * (MaxWaits - waits[c]) + 3 + ChecksLeft(c)
          /\ ChecksLeft(c) \in 1 .. 8
      BY <2>2 DEF ControllerLeft, ChecksLeft
    <3>2. CASE dyn'[c] \in WaitStages
      <4>1. ControllerLeft(c)' = 8 * (MaxWaits - waits[c]) + 3 + ChecksLeft(c)'
        BY <1>5, <3>2 DEF ControllerLeft
      <4>2. ChecksLeft(c)' < ChecksLeft(c) /\ ChecksLeft(c)' \in 1 .. 8
        BY <1>5, <2>2, <3>2, ControllerStages DEF ChecksLeft
      <4>3. QED  BY <1>1, <1>2, <3>1, <4>1, <4>2
    <3>3. CASE dyn'[c] \notin WaitStages
      <4>1. ControllerLeft(c)' \in 0 .. 3
        BY <1>5, <2>2, <3>3, ControllerStages DEF ControllerLeft
      <4>2. QED  BY <1>1, <1>2, <3>1, <4>1
    <3>4. QED  BY <3>2, <3>3
  <2>3. CASE dyn[c] \in {"reading", "failing", "readError"}
    BY <1>2, <1>5, <2>3, ControllerStages DEF ControllerLeft
  <2>4. QED  BY <1>5, <2>1, <2>2, <2>3, ControllerStages
<1>6. QED  BY <1>3, <1>4, <1>5, ControllerStages

LEMMA WorkbenchCounts ==
    ASSUME TypeOK, LeftTyped, NEW c \in Calls, WorkbenchMoves(c)
    PROVE  /\ WorkbenchLeft(c)' < WorkbenchLeft(c)
           /\ \A d \in Calls \ {c} : WorkbenchLeft(d)' = WorkbenchLeft(d)
<1> USE DEF TypeOK, WbkTypeOK, WbkGo
<1>1. CASE WorkbenchCloses(c)
  <2>1. Alive(c) /\ wbk' = [wbk EXCEPT ![c] = "ended"]
    BY <1>1 DEF WorkbenchCloses, WorkbenchEnds
  <2>2. QED  BY <2>1 DEF WorkbenchLeft, LeftTyped
<1>2. CASE WorkbenchRuns(c)
  <2> USE DEF WorkbenchRuns, WbkStep, ReadJournal, BuildProject, RefreshSetup, JournalRaises,
              ThermalSent, StructuralSent, ThermalSolves, ThermalRaises, ThermalOpensError,
              ThermalWritesError, StructuralSolves, OpenResults, WriteResults, SaveProject,
              WriteCompleted, StructuralRaises, StructuralOpensError, StructuralWritesError,
              ErrorNotWritten
  <2>1. \E to \in WbkStages : wbk' = [wbk EXCEPT ![c] = to]
    BY <1>2 DEF WbkStages, ThermalStages, StructuralStages
  <2>2. \A d \in Calls \ {c} : WorkbenchLeft(d)' = WorkbenchLeft(d)
    BY <2>1 DEF WorkbenchLeft
  <2>3. WorkbenchLeft(c)' < WorkbenchLeft(c)  BY <1>2 DEF WorkbenchLeft
  <2>4. QED  BY <2>2, <2>3
<1>3. QED  BY <1>1, <1>2 DEF WorkbenchMoves

\* Whatever overlaps and whatever fails, every step uses up one run.
THEOREM StepsRunOut == Spec => EveryStepCounts
<1>1. TypeOK => LeftTyped  BY LeftTypes
<1>2. TypeOK /\ LeftTyped /\ LeftTyped' /\ [Next]_vars => [\E c \in Calls : Counts(c)]_vars
  <2> SUFFICES ASSUME TypeOK, LeftTyped, LeftTyped', Next, ~UNCHANGED vars
               PROVE  \E c \in Calls : Counts(c)
    OBVIOUS
  <2>1. PICK c \in Calls : RunMoves(c)  BY NextIsSteps DEF Steps
  <2>2. \A d \in Calls : Left(d) \in Nat /\ Left(d)' \in Nat  BY DEF Left, LeftTyped
  <2>3. CASE Removes(c) \/ ControllerMoves(c)
    <3>1. \A d \in Calls : WorkbenchLeft(d)' = WorkbenchLeft(d) \/ ControllerLaunches(c)
      BY <2>3 DEF Removes, ControllerUnlinks, ControllerMoves, Start, ControllerRuns,
                  ControllerWaits, ControllerStopped, wbkVars, WorkbenchLeft
    <3>2. CASE ControllerLaunches(c)
      <4>1. wbk[c] = "none" /\ wbk' = [wbk EXCEPT ![c] = "boot"]
        BY <3>2 DEF ControllerLaunches, WorkbenchStarts, WbkGo
      <4>2. /\ WorkbenchLeft(c)' < WorkbenchLeft(c)
            /\ \A d \in Calls \ {c} : WorkbenchLeft(d)' = WorkbenchLeft(d)
        BY <4>1 DEF WorkbenchLeft, TypeOK, WbkTypeOK
      <4>3. QED  BY <2>2, <2>3, <4>2, ControllerCounts DEF Counts, Left, LeftTyped
    <3>3. CASE ~ControllerLaunches(c)
      BY <2>2, <2>3, <3>1, <3>3, ControllerCounts DEF Counts, Left, LeftTyped
    <3>4. QED  BY <3>2, <3>3
  <2>4. CASE WorkbenchMoves(c)
    <3>1. \A d \in Calls : ControllerLeft(d)' = ControllerLeft(d)
      BY <2>4 DEF WorkbenchMoves, WorkbenchRuns, WorkbenchCloses, dynVars, ControllerLeft,
                  StagesLeft, ChecksLeft
    <3>2. QED  BY <2>2, <2>4, <3>1, WorkbenchCounts DEF Counts, Left, LeftTyped
  <2>5. QED  BY <2>1, <2>3, <2>4 DEF RunMoves
<1>3. QED  BY <1>1, <1>2, TypeCorrect, PTL DEF Spec, EveryStepCounts
=============================================================================
