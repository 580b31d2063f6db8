------------------------- MODULE DynService_proofs -------------------------
EXTENDS DynService, DynPipeline_proofs

(***************************************************************************)
(* A quiet run writes its results once, into a file it left clear.         *)
(***************************************************************************)
OrderlyRun(c) == Unwritten(c) /\ WaitsFor(c) /\ WritesOnce(c)

LEMMA ControllerKeepsOrder ==
    ASSUME TypeOK, Own, Orderly, NEW c \in Calls,
           Removes(c) \/ ControllerMoves(c)
    PROVE  OrderlyRun(c)'
<1> USE CallsAssumption
    DEF TypeOK, DynTypeOK, WbkTypeOK, DynGo, DynEnd, WbkGo, dynVars, wbkVars, fileVars,
        Orderly, OrderlyRun, Unwritten, WaitsFor, WritesOnce, Own, LaunchedFirst, Launched,
        WaitStages, Exists, Note, Report, NoReport, Missing
<1>1. CASE Start(c)  BY <1>1 DEF Start, RunStarts
<1>2. CASE Removes(c)
  <2>1. /\ dyn[c] \in RemoveStages /\ dyn'[c] \in RemoveStages \union {"load", "exited"}
        /\ wbk' = wbk /\ results' \in {results, NoReport} /\ error' \in {error, Missing}
    BY <1>2 DEF Removes, ControllerUnlinks, UnlinkStep, UnlinkResults, UnlinkStatus, UnlinkError,
                UnlinkRaises, RemoveStages
  <2>2. wbk'[c] = "none"  BY <2>1 DEF RemoveStages
  <2>3. dyn[c] \notin Launched  BY <2>1 DEF RemoveStages
  <2>4. Unwritten(c)'  BY <2>1, <2>3, CallsAssumption
  <2>5. WaitsFor(c)'  BY <2>1 DEF RemoveStages
  <2>6. WritesOnce(c)'  BY <2>2 DEF BeforeOpen, ThermalStages
  <2>7. QED  BY <2>4, <2>5, <2>6
<1>3. CASE ControllerStopped(c)
  <2>1. dyn'[c] = "exited" /\ UNCHANGED <<wbk, results, error>>
    BY <1>3 DEF ControllerStopped, Stop
  <2>2. QED  BY <2>1
<1>4. CASE ControllerLaunches(c)
  <2>1. /\ dyn[c] = "launch" /\ dyn'[c] = "checkError" /\ wbk'[c] = "boot"
        /\ UNCHANGED <<results, error>>
    BY <1>4 DEF ControllerLaunches, Launch, WorkbenchStarts
  <2>2. ~Exists(results)
    BY <2>1 DEF OwnFiles, Active, Working, BeforeResults
  <2>3. QED  BY <2>1, <2>2
<1>5. CASE ControllerWaits(c)
  <2>1. /\ dyn[c] \in WaitStages
        /\ dyn'[c] \in WaitStages \union {"failing", "reading", "handling"}
        /\ UNCHANGED <<wbk, results, error>>
    BY <1>5 DEF ControllerWaits, WaitStep, Check, CheckError, CheckResults, CheckStatus,
                ReadStatus, CheckProcess, LastResults, LastError, WaitAgain
  <2>2. QED  BY <2>1
<1>6. CASE ControllerRuns(c)
  <2> USE <1>6 DEF ControllerRuns
  <2>1. CASE LoadInput(c) \/ Prepare(c) \/ PrepareRaises(c) \/ OpenScript(c) \/ WriteScript(c)
    <3>1. /\ dyn[c] \in PrepareStages /\ dyn'[c] \in PrepareStages \union {"handling"}
          /\ UNCHANGED <<wbk, results, error>>
      BY <2>1 DEF LoadInput, Prepare, PrepareRaises, OpenScript, WriteScript, PrepareStages
    <3>2. wbk'[c] = "none"  BY <3>1 DEF PrepareStages
    <3>3. QED  BY <3>1, <3>2 DEF PrepareStages, BeforeOpen, ThermalStages
  <2>2. CASE TimeOut(c) \/ ReportFailure(c) \/ PrintError(c) \/ PrintResults(c)
    <3>1. /\ dyn[c] \in Launched /\ dyn'[c] \in {"readError", "handling", "exited"}
          /\ UNCHANGED <<wbk, results, error>>
      BY <2>2 DEF TimeOut, ReportFailure, PrintError, PrintResults
    <3>2. QED  BY <3>1
  <2>3. CASE HandlerWrites(c)
    <3>1. /\ dyn[c] = "handling" /\ dyn'[c] = "exited"
          /\ error' = Note("whole", c)
          /\ UNCHANGED <<wbk, results>>
      BY <2>3 DEF HandlerWrites
    <3>2. QED  BY <3>1
  <2>4. CASE HandlerRaises(c)
    <3>1. /\ dyn[c] = "handling" /\ dyn'[c] = "exited"
          /\ error' \in {error, Note("empty", c)}
          /\ UNCHANGED <<wbk, results>>
      BY <2>4 DEF HandlerRaises, Torn
    <3>2. QED  BY <3>1
  <2>5. QED  BY <2>1, <2>2, <2>3, <2>4 DEF DynStep
<1>7. QED  BY <1>1, <1>2, <1>3, <1>4, <1>5, <1>6 DEF ControllerMoves

LEMMA WorkbenchKeepsOrder ==
    ASSUME TypeOK, Own, Orderly, NEW c \in Calls, WorkbenchRuns(c) \/ WorkbenchCloses(c)
    PROVE  OrderlyRun(c)'
<1> USE DEF TypeOK, DynTypeOK, WbkTypeOK, WbkGo, dynVars, wbkVars, fileVars, Orderly,
        OrderlyRun, Unwritten, WaitsFor, WritesOnce, Own, LaunchedFirst, Alive, BeforeOpen,
        ThermalStages, Exists, Note, Report
<1>1. CASE WorkbenchCloses(c)  BY <1>1 DEF WorkbenchCloses, WorkbenchEnds
<1>2. CASE WorkbenchRuns(c)
  <2> USE <1>2 DEF WorkbenchRuns
  <2>1. CASE ReadJournal(c, script)  BY <2>1 DEF ReadJournal
  <2>2. CASE BuildProject(c, ReadsThermal(c)) \/ RefreshSetup(c) \/ JournalRaises(c)
    BY <2>2 DEF BuildProject, RefreshSetup, JournalRaises
  <2>3. CASE ThermalSent(c) \/ StructuralSent(c) \/ ThermalSolves(c) \/ ThermalRaises(c)
    BY <2>3 DEF ThermalSent, StructuralSent, ThermalSolves, ThermalRaises
  <2>4. CASE ThermalOpensError(c) \/ ThermalWritesError(c)
    BY <2>4 DEF ThermalOpensError, ThermalWritesError
  <2>5. CASE StructuralOpensError(c) \/ StructuralWritesError(c)
    BY <2>5 DEF StructuralOpensError, StructuralWritesError
  <2>6. CASE StructuralSolves(c) \/ SaveProject(c) \/ StructuralRaises(c)
    BY <2>6 DEF StructuralSolves, SaveProject, StructuralRaises
  <2>7. CASE ErrorNotWritten(c)  BY <2>7 DEF ErrorNotWritten
  <2>8. CASE OpenResults(c) \/ WriteResults(c)  BY <2>8 DEF OpenResults, WriteResults
  <2>9. CASE WriteCompleted(c)  BY <2>9 DEF WriteCompleted
  <2>10. QED
    BY <2>1, <2>2, <2>3, <2>4, <2>5, <2>6, <2>7, <2>8, <2>9 DEF WbkStep
<1>3. QED  BY <1>1, <1>2

\* A file is left as it was, removed, or written by the run that moves.
LEMMA OneWrites ==
    ASSUME NEW c \in Calls, RunMoves(c)
    PROVE  /\ results' \in {results, NoReport} \/ results'.by = c
           /\ error' \in {error, Missing} \/ error'.by = c
<1> USE DEF Note, Report, fileVars, dynVars, wbkVars
<1>1. CASE Start(c) \/ Removes(c) \/ ControllerStopped(c)
  BY <1>1 DEF Start, RunStarts, Removes, ControllerUnlinks, UnlinkStep, UnlinkResults,
              UnlinkStatus, UnlinkError, UnlinkRaises, ControllerStopped, Stop
<1>2. CASE ControllerWaits(c) \/ ControllerLaunches(c)
  BY <1>2 DEF ControllerWaits, WaitStep, Check, CheckError, CheckResults, CheckStatus, ReadStatus,
              CheckProcess, LastResults, LastError, WaitAgain, ControllerLaunches, Launch
<1>3. CASE ControllerRuns(c)
  <2>1. CASE HandlerWrites(c) \/ HandlerRaises(c)
    BY <2>1 DEF HandlerWrites, HandlerRaises, Torn
  <2>2. CASE LoadInput(c) \/ Prepare(c) \/ OpenScript(c) \/ WriteScript(c) \/ PrepareRaises(c)
    BY <2>2 DEF LoadInput, Prepare, OpenScript, WriteScript, PrepareRaises
  <2>3. CASE TimeOut(c) \/ ReportFailure(c) \/ PrintError(c) \/ PrintResults(c)
    <3>1. UNCHANGED fileVars
      BY <2>3 DEF TimeOut, ReportFailure, PrintError, PrintResults
    <3>2. QED  BY <3>1
  <2>4. QED  BY <1>3, <2>1, <2>2, <2>3 DEF ControllerRuns, DynStep
<1>4. CASE WorkbenchRuns(c) \/ WorkbenchCloses(c)
  BY <1>4 DEF WorkbenchRuns, WbkStep, ReadJournal, BuildProject, RefreshSetup, JournalRaises,
              ThermalSent, StructuralSent, ThermalSolves, ThermalRaises, ThermalOpensError,
              ThermalWritesError, StructuralSolves, OpenResults, WriteResults, SaveProject,
              WriteCompleted, StructuralRaises, StructuralOpensError, StructuralWritesError,
              ErrorNotWritten, WorkbenchCloses, WorkbenchEnds
<1>5. QED
  BY <1>1, <1>2, <1>3, <1>4 DEF RunMoves, ControllerMoves, WorkbenchMoves

\* A run that is not launched has written nothing; one that waits has a
\* Workbench, which opens its results once and finds them absent.
THEOREM QuietOrderly ==
    ASSUME Discipline = "quiet"
    PROVE  Spec => []Orderly
<1>1. Init => Orderly
  <2> SUFFICES ASSUME Init, NEW c \in Calls PROVE OrderlyRun(c)  BY DEF Orderly, OrderlyRun
  <2>1. results.by = None /\ error.by = None
    BY DEF Init, FilesInit, Report, Note
  <2>2. dyn[c] = "none" /\ wbk[c] = "none"  BY DEF Init, DynInit, WbkInit
  <2>3. Unwritten(c)  BY <2>1, CallsAssumption DEF Unwritten
  <2>4. WaitsFor(c)  BY <2>2 DEF WaitsFor, WaitStages
  <2>5. WritesOnce(c)  BY <2>2 DEF WritesOnce, BeforeOpen, ThermalStages
  <2>6. QED  BY <2>3, <2>4, <2>5 DEF OrderlyRun
<1>2. TypeOK /\ Own /\ Orderly /\ [Next]_vars => Orderly'
  <2> SUFFICES ASSUME TypeOK, Own, Orderly, Steps PROVE Orderly'  BY NextIsSteps
  <2>1. ASSUME NEW c \in Calls, RunMoves(c)  PROVE Orderly'
    <3>1. OrderlyRun(c)'
      BY <2>1, ControllerKeepsOrder, WorkbenchKeepsOrder DEF RunMoves, WorkbenchMoves
    <3>2. ASSUME NEW d \in Calls, d # c
          PROVE  OrderlyRun(d)'
      <4>1. /\ ~Active(d)
            /\ dyn'[d] = dyn[d] /\ wbk'[d] = wbk[d]
        BY <2>1, <3>2, OneMoves DEF Own
      <4>2. wbk[d] \in {"none", "ended"}  BY <4>1 DEF Active, Alive
      <4>3. Unwritten(d)'
        BY <2>1, <3>2, <4>1, OneWrites, CallsAssumption
           DEF Orderly, Unwritten, NoReport, Report, Missing, Note
      <4>4. WaitsFor(d)'  BY <4>1 DEF Orderly, WaitsFor
      <4>5. WritesOnce(d)'
        BY <4>1, <4>2 DEF WritesOnce, BeforeOpen, ThermalStages
      <4>6. QED  BY <4>3, <4>4, <4>5 DEF OrderlyRun
    <3>3. QED  BY <3>1, <3>2 DEF Orderly, OrderlyRun
  <2>2. CASE UNCHANGED vars
    BY <2>2 DEF vars, dynVars, wbkVars, fileVars, Orderly, Unwritten, WaitsFor, WritesOnce,
                Exists
  <2>3. QED  BY <2>1, <2>2 DEF Steps
<1>3. QED  BY <1>1, <1>2, TypeCorrect, QuietOwn, PTL DEF Spec

(***************************************************************************)
(* What is seen of a step.                                                 *)
(***************************************************************************)
Stages == [d \in Calls |-> StageOf(dyn[d])]

Benches == [d \in Calls |-> BenchOf(wbk[d])]

Tolds == [d \in Calls |-> ToldOf(said[d])]

LEMMA StageMoves ==
    ASSUME TypeOK, NEW c \in Calls, NEW to, dyn' = [dyn EXCEPT ![c] = to]
    PROVE  /\ Stages' = [Stages EXCEPT ![c] = StageOf(to)]
           /\ StageOf(dyn[c]) = StageOf(to) => Stages' = Stages
<1>1. \A d \in Calls : dyn'[d] = IF d = c THEN to ELSE dyn[d]
  BY DEF TypeOK, DynTypeOK
<1>2. \A d \in Calls : StageOf(dyn'[d]) = IF d = c THEN StageOf(to) ELSE StageOf(dyn[d])
  BY <1>1
<1>3. QED  BY <1>2 DEF Stages

LEMMA BenchMoves ==
    ASSUME TypeOK, NEW c \in Calls, NEW to, wbk' = [wbk EXCEPT ![c] = to]
    PROVE  Benches' = [Benches EXCEPT ![c] = BenchOf(to)]
<1>1. \A d \in Calls : wbk'[d] = IF d = c THEN to ELSE wbk[d]
  BY DEF TypeOK, WbkTypeOK
<1>2. \A d \in Calls : BenchOf(wbk'[d]) = IF d = c THEN BenchOf(to) ELSE BenchOf(wbk[d])
  BY <1>1
<1>3. QED  BY <1>2 DEF Benches

LEMMA ToldMoves ==
    ASSUME TypeOK, NEW c \in Calls, NEW s, said' = [said EXCEPT ![c] = s]
    PROVE  Tolds' = [Tolds EXCEPT ![c] = ToldOf(s)]
<1>1. \A d \in Calls : said'[d] = IF d = c THEN s ELSE said[d]
  BY DEF TypeOK, DynTypeOK
<1>2. \A d \in Calls : ToldOf(said'[d]) = IF d = c THEN ToldOf(s) ELSE ToldOf(said[d])
  BY <1>1
<1>3. QED  BY <1>2 DEF Tolds

\* A controller that goes on within its run, and touches neither file.
LEMMA HiddenControllerStep ==
    ASSUME TypeOK, NEW c \in Calls, NEW from, NEW to, DynGo(c, from, to),
           StageOf(from) = StageOf(to), UNCHANGED <<wbk, results, error>>
    PROVE  UNCHANGED Service!vars
<1>1. Stages' = Stages
  BY StageMoves DEF DynGo
<1>2. QED  BY <1>1 DEF DynGo, Stages, Service!vars

LEMMA HiddenWorkbenchStep ==
    ASSUME TypeOK, NEW c \in Calls, NEW to, wbk' = [wbk EXCEPT ![c] = to],
           BenchOf(wbk[c]) = BenchOf(to), UNCHANGED <<dyn, said, results, error>>
    PROVE  UNCHANGED Service!vars
<1>1. Benches' = Benches
  BY BenchMoves DEF Benches
<1>2. QED  BY <1>1 DEF Benches, Service!vars

\* A run that ends, with what it prints.
LEMMA RunEnds ==
    ASSUME TypeOK, NEW c \in Calls, NEW from, NEW kind, NEW file, DynEnd(c, from, kind, file),
           from \notin {"none", "exited"}, UNCHANGED <<wbk, results>>
    PROVE  Service!Ends(c, kind, Text(file))
<1>1. Stages[c] = "running" /\ Stages' = [Stages EXCEPT ![c] = "over"]
  BY StageMoves DEF DynEnd, Stages, StageOf
<1>2. Tolds' = [Tolds EXCEPT ![c] = Service!Told(kind, Text(file))]
  BY ToldMoves DEF DynEnd, Said, ToldOf, Service!Told
<1>3. QED  BY <1>1, <1>2 DEF Stages, Tolds, Service!Ends

(***************************************************************************)
(* Every step of a quiet run is a step of RunService or is not seen.       *)
(***************************************************************************)
LEMMA StartImplements ==
    ASSUME TypeOK, Discipline = "quiet", NEW c \in Calls, Start(c)
    PROVE  Service!Begin(c)
<1>1. Stages[c] = "idle" /\ Stages' = [Stages EXCEPT ![c] = "running"]
  <2>1. dyn[c] = "none" /\ dyn' = [dyn EXCEPT ![c] = "unlinkResults"]
    BY DEF Start, RunStarts, DynGo
  <2>2. StageOf("none") = "idle" /\ StageOf("unlinkResults") = "running"  BY DEF StageOf
  <2>3. Stages[c] = "idle"  BY <2>1, <2>2 DEF Stages
  <2>4. Stages' = [Stages EXCEPT ![c] = StageOf("unlinkResults")]  BY <2>1, StageMoves
  <2>5. QED  BY <2>2, <2>3, <2>4
<1>2. \A d \in Calls : Stages[d] # "running" /\ Benches[d] # "up"
  BY DEF Start, MayStart, Working, Alive, Stages, StageOf, Benches, BenchOf
<1>3. UNCHANGED <<wbk, results, error, said>>
  BY DEF Start, RunStarts, DynGo, wbkVars, fileVars
<1>4. QED  BY <1>1, <1>2, <1>3 DEF Stages, Benches, Service!Begin

LEMMA RemovalImplements ==
    ASSUME TypeOK, Own, Orderly, NEW c \in Calls, NEW refusals,
           UnlinkResults(c, refusals) \/ UnlinkError(c, refusals), UNCHANGED wbkVars
    PROVE  Service!Clear(c)
<1>1. PICK to \in {"unlinkStatus", "load"} :
        dyn[c] \in {"unlinkResults", "unlinkError"} /\ dyn' = [dyn EXCEPT ![c] = to]
  BY DEF UnlinkResults, UnlinkError, DynGo
<1>2. Stages[c] = "running" /\ Stages' = Stages
  <2>1. StageOf(dyn[c]) = "running" /\ StageOf(to) = "running"  BY <1>1 DEF StageOf
  <2>2. QED  BY <1>1, <2>1, StageMoves DEF Stages
<1>3. dyn[c] \notin Launched  BY <1>1 DEF Launched, WaitStages
<1>4. Benches[c] = "none"
  BY <1>3 DEF Own, LaunchedFirst, Benches, BenchOf
<1>5. results.by # c /\ error.by # c  BY <1>3 DEF Orderly, Unwritten
<1>6. UNCHANGED <<wbk, said>>  BY DEF UnlinkResults, UnlinkError, DynGo, wbkVars
<1>7. \/ Text(results)' = Service!Absent /\ UNCHANGED error
      \/ Text(error)' = Service!Absent /\ UNCHANGED results
  BY DEF UnlinkResults, UnlinkError, Text, NoReport, Report, Missing, Note, Service!Absent,
         Service!File
<1>8. QED
  BY <1>2, <1>4, <1>5, <1>6, <1>7 DEF Stages, Benches, Text, Service!Clear

LEMMA LaunchImplements ==
    ASSUME TypeOK, Own, Orderly, NEW c \in Calls, ControllerLaunches(c)
    PROVE  Service!Launch(c)
<1>1. /\ dyn[c] = "launch" /\ dyn' = [dyn EXCEPT ![c] = "checkError"]
      /\ wbk[c] = "none" /\ wbk' = [wbk EXCEPT ![c] = "boot"]
      /\ UNCHANGED <<said, results, error>>
  BY DEF ControllerLaunches, Launch, DynGo, WorkbenchStarts, WbkGo, fileVars
<1>2. Stages[c] = "running" /\ Stages' = Stages
  <2>1. StageOf("launch") = "running" /\ StageOf("checkError") = "running"  BY DEF StageOf
  <2>2. QED  BY <1>1, <2>1, StageMoves DEF Stages
<1>3. Benches[c] = "none" /\ Benches' = [Benches EXCEPT ![c] = "up"]
  <2>1. BenchOf("none") = "none" /\ BenchOf("boot") = "up"  BY DEF BenchOf
  <2>2. Benches[c] = "none"  BY <1>1, <2>1 DEF Benches
  <2>3. Benches' = [Benches EXCEPT ![c] = BenchOf("boot")]  BY <1>1, BenchMoves
  <2>4. QED  BY <2>1, <2>2, <2>3
<1>4. results.by # c /\ error.by # c
  BY <1>1 DEF Orderly, Unwritten, Launched, WaitStages
<1>5. ~Exists(results) /\ ~Exists(error)
  BY <1>1, <1>4 DEF Own, OwnFiles, Active, Working, BeforeResults, BeforeError
<1>6. QED
  BY <1>1, <1>2, <1>3, <1>5 DEF Stages, Benches, Text, Exists, Service!Launch

LEMMA EndImplements ==
    ASSUME TypeOK, Own, Orderly, NEW c \in Calls, UNCHANGED wbkVars,
           NEW ofResults, NEW ofStatus, NEW ofError,
           \/ TimeOut(c) \/ ReportFailure(c) \/ PrintError(c) \/ PrintResults(c)
           \/ HandlerWrites(c) \/ HandlerRaises(c) \/ Stop(c)
           \/ UnlinkRaises(c, ofResults, ofStatus, ofError)
    PROVE  [Service!Next]_(Service!vars)
<1> USE DEF fileVars, wbkVars
<1>1. ASSUME DynEnd(c, "readError", "failed", ErrorText(error)), Exists(error),
             UNCHANGED fileVars
      PROVE  Service!Fail(c)
  <2>1. error.by = c
    BY <1>1 DEF DynEnd, Own, OwnFiles, Active, Working, BeforeError, BeforeResults
  <2>2. Service!Ends(c, "failed", Text(error))
    BY <1>1, RunEnds DEF ErrorText, Report, Text
  <2>3. QED  BY <1>1, <2>1, <2>2 DEF Text, Service!Fail
<1>2. ASSUME NEW kind \in {"raised", "stopped"}, NEW from, DynEnd(c, from, kind, NoReport),
             from \notin {"none", "exited"}, UNCHANGED results,
             error' \in {error, Note("empty", c)}
      PROVE  Service!Leave(c)
  <2>1. Service!Ends(c, kind, Service!Absent)
    BY <1>2, RunEnds DEF NoReport, Report, Text, Service!Absent, Service!File
  <2>2. Text(error)' \in {Text(error), Service!File("empty", c)}
    BY <1>2 DEF Note, Text, Service!File
  <2>3. QED  BY <2>1, <2>2 DEF Service!Leave, Service!Ends
<1>3. CASE TimeOut(c)
  <2>1. CASE DynGo(c, "checkTime", "readError")
    BY <1>3, <2>1, HiddenControllerStep DEF TimeOut, StageOf
  <2>2. CASE ~Exists(error) /\ DynEnd(c, "checkTime", "timeout", NoReport)
    <3>1. wbk[c] # "none"
      BY <2>2 DEF DynEnd, Orderly, WaitsFor, WaitStages
    <3>2. Service!Ends(c, "timeout", Service!Absent)
      BY <1>3, <2>2, RunEnds
         DEF TimeOut, NoReport, Report, Text, Service!Absent, Service!File
    <3>3. Service!Expire(c)
      BY <1>3, <2>2, <3>1, <3>2 DEF TimeOut, BenchOf, Text, Exists, Service!Expire
    <3>4. QED  BY <3>3 DEF Service!Next
  <2>3. QED  BY <1>3, <2>1, <2>2 DEF TimeOut
<1>4. CASE ReportFailure(c)
  <2>1. DynGo(c, "failing", "readError")
    BY <1>4 DEF ReportFailure, DynEnd, Own, ErrorStays
  <2>2. QED  BY <1>4, <2>1, HiddenControllerStep DEF ReportFailure, StageOf
<1>5. CASE PrintError(c)
  <2>1. Exists(error)  BY <1>5 DEF PrintError, DynGo, Own, ErrorStays
  <2>2. QED  BY <1>1, <1>5, <2>1 DEF PrintError, Service!Next
<1>6. CASE PrintResults(c)
  <2>1. CASE DynGo(c, "reading", "handling")
    BY <1>6, <2>1, HiddenControllerStep DEF PrintResults, StageOf
  <2>2. CASE Exists(results) /\ DynEnd(c, "reading", "completed", results)
    <3>1. results.by = c
      BY <2>2 DEF DynEnd, Own, OwnFiles, Active, Working, BeforeResults
    <3>2. Service!Ends(c, "completed", Text(results))
      BY <1>6, <2>2, RunEnds DEF PrintResults
    <3>3. Service!Complete(c)
      BY <1>6, <3>1, <3>2 DEF PrintResults, Text, Service!Complete
    <3>4. QED  BY <3>3 DEF Service!Next
  <2>3. QED  BY <1>6, <2>1, <2>2 DEF PrintResults
<1>7. CASE HandlerWrites(c)
  <2>1. Service!Ends(c, "error", Service!File("whole", c))
    BY <1>7, RunEnds DEF HandlerWrites, Report, Text, Service!File
  <2>2. Service!Raise(c)
    BY <1>7, <2>1 DEF HandlerWrites, Note, Text, Service!Raise, Service!File
  <2>3. QED  BY <2>2 DEF Service!Next
<1>8. CASE HandlerRaises(c)  BY <1>2, <1>8 DEF HandlerRaises, Torn, Service!Next
<1>9. CASE Stop(c)  BY <1>2, <1>9 DEF Stop, Working, Service!Next
<1>10. CASE UnlinkRaises(c, ofResults, ofStatus, ofError)
  <2>1. PICK from \in RemoveStages : DynEnd(c, from, "raised", NoReport)
    BY <1>10 DEF UnlinkRaises, RemoveStages
  <2>2. QED  BY <1>2, <1>10, <2>1 DEF UnlinkRaises, RemoveStages, Service!Next
<1>11. QED
  BY <1>3, <1>4, <1>5, <1>6, <1>7, <1>8, <1>9, <1>10

LEMMA WriteImplements ==
    ASSUME TypeOK, Own, Orderly, NEW c \in Calls, UNCHANGED dynVars,
           \/ OpenResults(c) \/ WriteResults(c)
           \/ ThermalOpensError(c) \/ StructuralOpensError(c)
           \/ ThermalWritesError(c) \/ StructuralWritesError(c)
    PROVE  Service!WriteResults(c) \/ Service!WriteError(c)
<1>1. PICK to \in WbkStages \ {"none", "ended"} : wbk' = [wbk EXCEPT ![c] = to]
  BY DEF OpenResults, WriteResults, ThermalOpensError, StructuralOpensError, ThermalWritesError,
         StructuralWritesError, WbkGo, WbkStages, ThermalStages, StructuralStages
<1>2. Alive(c)
  BY DEF OpenResults, WriteResults, ThermalOpensError, StructuralOpensError, ThermalWritesError,
         StructuralWritesError, WbkGo, Alive
<1>3. Benches[c] = "up" /\ Benches' = Benches
  <2>1. BenchOf(wbk[c]) = "up" /\ BenchOf(to) = "up"  BY <1>1, <1>2 DEF Alive, BenchOf
  <2>2. QED  BY <1>1, <2>1, BenchMoves DEF Benches
<1>4. UNCHANGED <<dyn, said>>  BY DEF dynVars
<1>5. CASE OpenResults(c)
  <2>1. ~Exists(results)
    BY <1>5 DEF OpenResults, WbkGo, Orderly, WritesOnce, BeforeOpen
  <2>2. Service!WriteResults(c)
    BY <1>3, <1>4, <1>5, <2>1
       DEF OpenResults, Benches, Exists, Report, Text, Service!WriteResults, Service!File
  <2>3. QED  BY <2>2
<1>6. CASE WriteResults(c)
  <2>1. results.text = "empty" /\ results.by = c
    BY <1>6 DEF WriteResults, WbkGo, Orderly, WritesOnce
  <2>2. Service!WriteResults(c)
    BY <1>3, <1>4, <1>6, <2>1
       DEF WriteResults, Benches, Report, Text, Service!WriteResults, Service!File
  <2>3. QED  BY <2>2
<1>7. CASE ThermalOpensError(c) \/ StructuralOpensError(c)
  <2>1. error' = Note("empty", c) /\ UNCHANGED results
    BY <1>7 DEF ThermalOpensError, StructuralOpensError
  <2>2. Service!WriteError(c)
    BY <1>3, <1>4, <2>1 DEF Benches, Note, Text, Service!WriteError, Service!File
  <2>3. QED  BY <2>2
<1>8. CASE ThermalWritesError(c) \/ StructuralWritesError(c)
  <2>1. wbk[c] \in {"thermalTelling", "telling"} /\ error' = Note("whole", c) /\ UNCHANGED results
    BY <1>8 DEF ThermalWritesError, StructuralWritesError, WbkGo
  <2>2. Exists(error)  BY <2>1 DEF Orderly, WritesOnce
  <2>3. dyn[c] \notin BeforeError
    BY <2>1 DEF Own, LaunchedFirst, Launched, WaitStages, BeforeError, BeforeResults
  <2>4. error.by = c  BY <1>2, <2>2, <2>3 DEF Own, OwnFiles, Active
  <2>5. Service!WriteError(c)
    BY <1>3, <1>4, <2>1, <2>4 DEF Benches, Note, Text, Service!WriteError, Service!File
  <2>6. QED  BY <2>5
<1>9. QED  BY <1>5, <1>6, <1>7, <1>8

LEMMA WorkbenchImplements ==
    ASSUME TypeOK, Own, Orderly, NEW c \in Calls, WorkbenchRuns(c) \/ WorkbenchCloses(c)
    PROVE  [Service!Next]_(Service!vars)
<1>1. UNCHANGED <<dyn, said>>  BY DEF WorkbenchRuns, WorkbenchCloses, dynVars
<1>2. CASE WorkbenchCloses(c)
  <2>1. Alive(c) /\ wbk' = [wbk EXCEPT ![c] = "ended"] /\ UNCHANGED <<results, error>>
    BY <1>2 DEF WorkbenchCloses, WorkbenchEnds, WbkGo, fileVars
  <2>2. Benches[c] = "up"  BY <2>1 DEF Alive, Benches, BenchOf
  <2>3. Benches' = [Benches EXCEPT ![c] = BenchOf("ended")]  BY <2>1, BenchMoves
  <2>4. BenchOf("ended") = "gone"  BY DEF BenchOf
  <2>5. Service!Closes(c)
    BY <1>1, <2>1, <2>2, <2>3, <2>4 DEF Benches, Service!Closes
  <2>6. QED  BY <2>5 DEF Service!Next
<1>3. CASE WbkStep(c, script, ReadsThermal(c)) /\ UNCHANGED dynVars
  <2>1. CASE \/ OpenResults(c) \/ WriteResults(c)
             \/ ThermalOpensError(c) \/ StructuralOpensError(c)
             \/ ThermalWritesError(c) \/ StructuralWritesError(c)
    BY <1>3, <2>1, WriteImplements DEF Service!Next
  <2>2. CASE ~(\/ OpenResults(c) \/ WriteResults(c)
               \/ ThermalOpensError(c) \/ StructuralOpensError(c)
               \/ ThermalWritesError(c) \/ StructuralWritesError(c))
    <3>1. UNCHANGED <<results, error>>
      BY <1>3, <2>2
         DEF WbkStep, ReadJournal, BuildProject, RefreshSetup, JournalRaises, ThermalSent,
             StructuralSent, ThermalSolves, ThermalRaises, StructuralSolves, SaveProject,
             WriteCompleted, StructuralRaises, ErrorNotWritten, fileVars
    <3>2. PICK to \in WbkStages \ {"none", "ended"} : Alive(c) /\ wbk' = [wbk EXCEPT ![c] = to]
      BY <1>3, <2>2
         DEF WbkStep, ReadJournal, BuildProject, RefreshSetup, JournalRaises, ThermalSent,
             StructuralSent, ThermalSolves, ThermalRaises, StructuralSolves, SaveProject,
             WriteCompleted, StructuralRaises, ErrorNotWritten, WbkGo, Alive, WbkStages,
             ThermalStages, StructuralStages
    <3>3. BenchOf(wbk[c]) = "up" /\ BenchOf(to) = "up"  BY <3>2 DEF Alive, BenchOf
    <3>4. QED  BY <1>1, <3>1, <3>2, <3>3, HiddenWorkbenchStep
  <2>3. QED  BY <2>1, <2>2
<1>4. QED  BY <1>2, <1>3 DEF WorkbenchRuns

LEMMA HiddenPreparation ==
    ASSUME TypeOK, NEW c \in Calls, NEW refusals, UNCHANGED wbkVars,
           \/ UnlinkStatus(c, refusals) \/ LoadInput(c) \/ Prepare(c)
           \/ OpenScript(c) \/ WriteScript(c) \/ PrepareRaises(c)
           \/ WaitStep(c, wbk[c] = "ended")
    PROVE  UNCHANGED Service!vars
<1> DEFINE Inside == DynStages \ {"none", "exited"}
<1>1. UNCHANGED <<wbk, results, error, said>>
  BY DEF UnlinkStatus, LoadInput, Prepare, OpenScript, WriteScript, PrepareRaises, WaitStep, Check,
         CheckError, CheckResults, CheckStatus, ReadStatus, CheckProcess, LastResults, LastError,
         WaitAgain, DynGo, wbkVars, fileVars
<1>2. PICK to \in Inside : dyn[c] \in Inside /\ dyn' = [dyn EXCEPT ![c] = to]
  <2> USE DEF DynGo, DynStages, RemoveStages, TryStages, PrepareStages, WaitStages
  <2>1. CASE \/ UnlinkStatus(c, refusals) \/ LoadInput(c) \/ Prepare(c)
             \/ OpenScript(c) \/ WriteScript(c) \/ PrepareRaises(c)
    BY <2>1 DEF UnlinkStatus, LoadInput, Prepare, OpenScript, WriteScript, PrepareRaises
  <2>2. CASE WaitStep(c, wbk[c] = "ended")
    BY <2>2 DEF WaitStep, Check, CheckError, CheckResults, CheckStatus, ReadStatus, CheckProcess,
                LastResults, LastError, WaitAgain
  <2>3. QED  BY <2>1, <2>2
<1>3. StageOf(dyn[c]) = "running" /\ StageOf(to) = "running"  BY <1>2 DEF StageOf
<1>4. Stages' = Stages  BY <1>2, <1>3, StageMoves
<1>5. QED  BY <1>1, <1>4 DEF Stages, Service!vars

LEMMA RunImplements ==
    ASSUME TypeOK, Own, Orderly, Discipline = "quiet", NEW c \in Calls, RunMoves(c)
    PROVE  [Service!Next]_(Service!vars)
<1>1. CASE Start(c)  BY <1>1, StartImplements DEF Service!Next
<1>2. CASE ControllerRuns(c)
  <2>1. CASE \/ LoadInput(c) \/ Prepare(c) \/ OpenScript(c)
             \/ WriteScript(c) \/ PrepareRaises(c)
    BY <1>2, <2>1, HiddenPreparation DEF ControllerRuns
  <2>2. CASE \/ TimeOut(c) \/ ReportFailure(c) \/ PrintError(c) \/ PrintResults(c)
             \/ HandlerWrites(c) \/ HandlerRaises(c)
    BY <1>2, <2>2, EndImplements DEF ControllerRuns
  <2>3. QED  BY <1>2, <2>1, <2>2 DEF ControllerRuns, DynStep
<1>3. CASE Removes(c)
  <2>1. PICK ofResults, ofStatus, ofError : ControllerUnlinks(c, ofResults, ofStatus, ofError)
    BY <1>3 DEF Removes
  <2>2. CASE UnlinkResults(c, ofResults) \/ UnlinkError(c, ofError)
    BY <2>1, <2>2, RemovalImplements DEF ControllerUnlinks, Service!Next
  <2>3. CASE UnlinkStatus(c, ofStatus)
    BY <2>1, <2>3, HiddenPreparation DEF ControllerUnlinks
  <2>4. CASE UnlinkRaises(c, ofResults, ofStatus, ofError)
    BY <2>1, <2>4, EndImplements DEF ControllerUnlinks
  <2>5. QED  BY <2>1, <2>2, <2>3, <2>4 DEF ControllerUnlinks, UnlinkStep
<1>4. CASE ControllerStopped(c)  BY <1>4, EndImplements DEF ControllerStopped
<1>5. CASE ControllerLaunches(c)  BY <1>5, LaunchImplements DEF Service!Next
<1>6. CASE ControllerWaits(c)  BY <1>6, HiddenPreparation DEF ControllerWaits
<1>7. CASE WorkbenchRuns(c) \/ WorkbenchCloses(c)  BY <1>7, WorkbenchImplements
<1>8. QED
  BY <1>1, <1>2, <1>3, <1>4, <1>5, <1>6, <1>7 DEF RunMoves, ControllerMoves, WorkbenchMoves

\* Quiet runs, any number of them and with any faults, implement RunService.
THEOREM Implements ==
    ASSUME Discipline = "quiet"
    PROVE  Spec => ImplementsRuns
<1>1. Init => Service!Init
  <2> SUFFICES ASSUME Init PROVE Service!Init  OBVIOUS
  <2>1. \A d \in Calls : dyn[d] = "none" /\ wbk[d] = "none" /\ said[d] = Said("none", NoReport)
    BY DEF Init, DynInit, WbkInit
  <2>2. \A d \in Calls : StageOf(dyn[d]) = "idle" /\ BenchOf(wbk[d]) = "none"
    BY <2>1 DEF StageOf, BenchOf
  <2>3. ToldOf(Said("none", NoReport)) = Service!Told("none", Service!Absent)
    BY DEF ToldOf, Said, NoReport, Report, Text, Service!Told, Service!Absent, Service!File
  <2>4. /\ \E text \in DataTexts : Text(results) = Service!File(text, None)
        /\ \E text \in DataTexts : Text(error) = Service!File(text, None)
    BY LeftoversAssumption DEF Init, FilesInit, Report, Note, Text, Service!File
  <2>5. QED  BY <2>1, <2>2, <2>3, <2>4 DEF DataTexts, Service!Init, Service!OfBefore
<1>2. TypeOK /\ Own /\ Orderly /\ [Next]_vars => [Service!Next]_(Service!vars)
  <2> SUFFICES ASSUME TypeOK, Own, Orderly, Steps
               PROVE  [Service!Next]_(Service!vars)
    BY NextIsSteps
  <2>1. CASE \E c \in Calls : RunMoves(c)  BY <2>1, RunImplements
  <2>2. CASE UNCHANGED vars
    BY <2>2 DEF vars, fileVars, dynVars, wbkVars, Service!vars
  <2>3. QED  BY <2>1, <2>2 DEF Steps
<1>3. QED
  BY <1>1, <1>2, TypeCorrect, QuietOwn, QuietOrderly, PTL
     DEF Spec, ImplementsRuns, Service!Spec
=============================================================================
