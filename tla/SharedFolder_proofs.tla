------------------------- MODULE SharedFolder_proofs -------------------------
EXTENDS SharedFolder, BeamPipeline_proofs

(***************************************************************************)
(* A step of the folder is a step of a simulation, on which everything     *)
(* about BeamPipeline holds, or one of a run.                              *)
(***************************************************************************)
Removes(c) ==
    \E ofResults, ofStatus, ofError : Dyn!ControllerUnlinks(c, ofResults, ofStatus, ofError)

RunMoves(c) == Removes(c) \/ Dyn!ControllerMoves(c) \/ Dyn!WorkbenchMoves(c)

BeamSteps == Steps /\ UNCHANGED dynamicVars

RunSteps == (\E c \in Calls : RunMoves(c)) /\ UNCHANGED beamVars

LEMMA FolderSteps ==
    ASSUME [FolderNext]_folderVars
    PROVE  BeamSteps \/ RunSteps
<1>1. ASSUME NEW c \in Calls, BeamMoves(c)  PROVE BeamSteps
  BY <1>1 DEF BeamMoves, BeamSteps, Steps, Moves, JournalMoves
<1>2. ASSUME NEW c \in Calls, DynamicMoves(c)  PROVE RunSteps
  BY <1>2 DEF DynamicMoves, RunSteps, RunMoves, Removes
<1>3. CASE UNCHANGED folderVars
  BY <1>3 DEF folderVars, beamVars, vars, BeamSteps, Steps
<1>4. QED  BY <1>1, <1>2, <1>3 DEF FolderNext, AllDone

(***************************************************************************)
(* Type correctness.                                                       *)
(***************************************************************************)
FolderTypeOK == TypeOK /\ Dyn!TypeOK

LEMMA RunControllerTypes ==
    ASSUME Dyn!TypeOK, NEW c \in Calls,
           NEW ofResults, NEW ofStatus, NEW ofError,
           \/ Dyn!RunStarts(c) \/ Dyn!DynStep(c) \/ Dyn!Stop(c)
           \/ Dyn!UnlinkStep(c, ofResults, ofStatus, ofError)
    PROVE  Dyn!FilesTypeOK' /\ Dyn!DynTypeOK'
<1> USE CallsAssumption, MaxWaitsAssumption
    DEF Dyn!TypeOK, Dyn!FilesTypeOK, Dyn!DynTypeOK, Dyn!DynGo, Dyn!DynEnd, Dyn!Note, Dyn!Missing,
        Dyn!Report, Dyn!NoReport, Dyn!Said, Dyn!ErrorText, Dyn!Exists, Dyn!Writers, Dyn!DataTexts,
        Dyn!ScriptTexts, Dyn!StatusTexts, Dyn!Endings, Dyn!DynStages, Dyn!RemoveStages,
        Dyn!PrepareStages, Dyn!WaitStages, Dyn!TryStages, Dyn!fileVars
<1>1. CASE Dyn!RunStarts(c)  BY <1>1 DEF Dyn!RunStarts
<1>2. CASE Dyn!UnlinkResults(c, ofResults)  BY <1>2 DEF Dyn!UnlinkResults
<1>3. CASE Dyn!UnlinkStatus(c, ofStatus)  BY <1>3 DEF Dyn!UnlinkStatus
<1>4. CASE Dyn!UnlinkError(c, ofError)  BY <1>4 DEF Dyn!UnlinkError
<1>5. CASE Dyn!UnlinkRaises(c, ofResults, ofStatus, ofError)
  <2>1. PICK stage \in Dyn!RemoveStages : Dyn!DynEnd(c, stage, "raised", Dyn!NoReport)
    BY <1>5 DEF Dyn!UnlinkRaises
  <2>2. UNCHANGED Dyn!fileVars  BY <1>5 DEF Dyn!UnlinkRaises
  <2>3. QED  BY <2>1, <2>2
<1>6. CASE Dyn!LoadInput(c) \/ Dyn!Prepare(c)  BY <1>6 DEF Dyn!LoadInput, Dyn!Prepare
<1>7. CASE Dyn!OpenScript(c) \/ Dyn!WriteScript(c)  BY <1>7 DEF Dyn!OpenScript, Dyn!WriteScript
<1>8. CASE Dyn!PrepareRaises(c)
  <2>1. /\ dyn' = [dyn EXCEPT ![c] = "handling"]
        /\ UNCHANGED <<script, wanted, said, waits, input, results, status, error>>
    BY <1>8 DEF Dyn!PrepareRaises
  <2>2. QED  BY <2>1
<1>9. CASE Dyn!TimeOut(c) \/ Dyn!ReportFailure(c)  BY <1>9 DEF Dyn!TimeOut, Dyn!ReportFailure
<1>10. CASE Dyn!PrintError(c)
  <2>1. CASE Dyn!DynEnd(c, "readError", "failed", Dyn!ErrorText(error))
    BY <1>10, <2>1 DEF Dyn!PrintError
  <2>2. CASE Dyn!DynGo(c, "readError", "handling") /\ UNCHANGED waits
    BY <1>10, <2>2 DEF Dyn!PrintError
  <2>3. QED  BY <1>10, <2>1, <2>2 DEF Dyn!PrintError
<1>11. CASE Dyn!PrintResults(c)
  <2>1. CASE Dyn!DynEnd(c, "reading", "completed", results)  BY <1>11, <2>1 DEF Dyn!PrintResults
  <2>2. CASE Dyn!DynGo(c, "reading", "handling") /\ UNCHANGED waits
    BY <1>11, <2>2 DEF Dyn!PrintResults
  <2>3. QED  BY <1>11, <2>1, <2>2 DEF Dyn!PrintResults
<1>12. CASE Dyn!HandlerWrites(c)  BY <1>12 DEF Dyn!HandlerWrites
<1>13. CASE Dyn!HandlerRaises(c)
  <2>1. error' \in {error, Dyn!Note("empty", c)}  BY <1>13 DEF Dyn!HandlerRaises, Dyn!Torn
  <2>2. QED  BY <1>13, <2>1 DEF Dyn!HandlerRaises
<1>14. CASE Dyn!Stop(c)  BY <1>14 DEF Dyn!Stop
<1>15. QED
  BY <1>1, <1>2, <1>3, <1>4, <1>5, <1>6, <1>7, <1>8, <1>9, <1>10, <1>11, <1>12, <1>13, <1>14
     DEF Dyn!DynStep, Dyn!UnlinkStep

LEMMA RunWaitTypes ==
    ASSUME Dyn!TypeOK, NEW c \in Calls, Dyn!WaitStep(c, wbk[c] = "ended")
    PROVE  Dyn!FilesTypeOK' /\ Dyn!DynTypeOK'
<1> USE MaxWaitsAssumption
    DEF Dyn!TypeOK, Dyn!FilesTypeOK, Dyn!DynTypeOK, Dyn!DynGo, Dyn!DynStages, Dyn!RemoveStages,
        Dyn!PrepareStages, Dyn!WaitStages, Dyn!TryStages, Dyn!fileVars
<1>1. CASE Dyn!WaitAgain(c)
  <2>1. waits[c] + 1 \in 0 .. MaxWaits  BY <1>1 DEF Dyn!WaitAgain
  <2>2. QED  BY <1>1, <2>1 DEF Dyn!WaitAgain
<1>2. CASE ~Dyn!WaitAgain(c)
  <2>1. \E stage, to \in Dyn!DynStages :
            Dyn!DynGo(c, stage, to) /\ UNCHANGED <<waits, Dyn!fileVars>>
    BY <1>2 DEF Dyn!WaitStep, Dyn!Check, Dyn!CheckError, Dyn!CheckResults, Dyn!CheckStatus,
                Dyn!ReadStatus, Dyn!CheckProcess, Dyn!LastResults, Dyn!LastError
  <2>2. QED  BY <2>1
<1>3. QED  BY <1>1, <1>2

LEMMA RunWorkbenchTypes ==
    ASSUME Dyn!TypeOK, NEW c \in Calls,
           Dyn!WbkStep(c, script, Dyn!ReadsThermal(c)) \/ Dyn!WorkbenchEnds(c)
    PROVE  Dyn!FilesTypeOK' /\ Dyn!WbkTypeOK'
<1> USE CallsAssumption
    DEF Dyn!TypeOK, Dyn!FilesTypeOK, Dyn!WbkTypeOK, Dyn!WbkGo, Dyn!Note, Dyn!Report, Dyn!Writers,
        Dyn!DataTexts, Dyn!StatusTexts, Dyn!WbkStages, Dyn!ThermalStages, Dyn!StructuralStages,
        Dyn!Alive, Dyn!fileVars
<1>1. CASE Dyn!ReadJournal(c, script)  BY <1>1 DEF Dyn!ReadJournal, Dyn!DynTypeOK
<1>2. CASE Dyn!BuildProject(c, Dyn!ReadsThermal(c)) \/ Dyn!RefreshSetup(c) \/ Dyn!JournalRaises(c)
  BY <1>2 DEF Dyn!BuildProject, Dyn!RefreshSetup, Dyn!JournalRaises
<1>3. CASE \/ Dyn!ThermalSent(c) \/ Dyn!StructuralSent(c)
            \/ Dyn!ThermalSolves(c) \/ Dyn!ThermalRaises(c)
  BY <1>3 DEF Dyn!ThermalSent, Dyn!StructuralSent, Dyn!ThermalSolves, Dyn!ThermalRaises
<1>4. CASE \/ Dyn!ThermalOpensError(c) \/ Dyn!ThermalWritesError(c)
            \/ Dyn!StructuralOpensError(c) \/ Dyn!StructuralWritesError(c)
  BY <1>4 DEF Dyn!ThermalOpensError, Dyn!ThermalWritesError, Dyn!StructuralOpensError,
              Dyn!StructuralWritesError
<1>5. CASE \/ Dyn!StructuralSolves(c) \/ Dyn!SaveProject(c)
            \/ Dyn!StructuralRaises(c) \/ Dyn!ErrorNotWritten(c)
  <2>1. status' \in {status, Dyn!Note("empty", c)} /\ UNCHANGED <<input, results, error>>
    BY <1>5 DEF Dyn!StructuralSolves, Dyn!SaveProject, Dyn!StructuralRaises, Dyn!ErrorNotWritten,
                Dyn!Torn
  <2>2. \E stage \in Dyn!WbkStages : Dyn!WbkGo(c, wbk[c], stage)
    BY <1>5 DEF Dyn!StructuralSolves, Dyn!SaveProject, Dyn!StructuralRaises, Dyn!ErrorNotWritten
  <2>3. QED  BY <2>1, <2>2
<1>6. CASE Dyn!OpenResults(c) \/ Dyn!WriteResults(c)
  BY <1>6 DEF Dyn!OpenResults, Dyn!WriteResults
<1>7. CASE Dyn!WriteCompleted(c)  BY <1>7 DEF Dyn!WriteCompleted
<1>8. CASE Dyn!WorkbenchEnds(c)  BY <1>8 DEF Dyn!WorkbenchEnds
<1>9. QED  BY <1>1, <1>2, <1>3, <1>4, <1>5, <1>6, <1>7, <1>8 DEF Dyn!WbkStep

LEMMA SameFileTypes ==
    /\ FilesTypeOK <=> Dyn!FilesTypeOK
    /\ FilesTypeOK' <=> Dyn!FilesTypeOK'
BY DEF FilesTypeOK, Writers, DataTexts, StatusTexts, Dyn!FilesTypeOK, Dyn!Writers,
       Dyn!DataTexts, Dyn!StatusTexts

LEMMA RunTypes ==
    ASSUME Dyn!TypeOK, NEW c \in Calls, RunMoves(c)
    PROVE  Dyn!TypeOK'
<1> USE DEF Dyn!TypeOK, Dyn!dynVars, Dyn!wbkVars
<1>1. CASE \/ Dyn!Start(c) \/ Dyn!ControllerRuns(c) \/ Removes(c) \/ Dyn!ControllerStopped(c)
  BY <1>1, RunControllerTypes
     DEF Dyn!Start, Dyn!ControllerRuns, Removes, Dyn!ControllerUnlinks, Dyn!ControllerStopped,
         Dyn!WbkTypeOK
<1>2. CASE Dyn!ControllerWaits(c)  BY <1>2, RunWaitTypes DEF Dyn!ControllerWaits, Dyn!WbkTypeOK
<1>3. CASE Dyn!ControllerLaunches(c)
  BY <1>3 DEF Dyn!ControllerLaunches, Dyn!Launch, Dyn!DynGo, Dyn!WorkbenchStarts, Dyn!WbkGo,
              Dyn!FilesTypeOK, Dyn!DynTypeOK, Dyn!WbkTypeOK, Dyn!DynStages, Dyn!TryStages,
              Dyn!WaitStages, Dyn!WbkStages, Dyn!fileVars
<1>4. CASE Dyn!WorkbenchRuns(c) \/ Dyn!WorkbenchCloses(c)
  BY <1>4, RunWorkbenchTypes DEF Dyn!WorkbenchRuns, Dyn!WorkbenchCloses, Dyn!DynTypeOK
<1>5. QED  BY <1>1, <1>2, <1>3, <1>4 DEF RunMoves, Dyn!ControllerMoves, Dyn!WorkbenchMoves

LEMMA RunsTypesInit ==
    ASSUME FolderInit
    PROVE  Dyn!DynTypeOK /\ Dyn!WbkTypeOK
BY CallsAssumption, MaxWaitsAssumption
   DEF FolderInit, Dyn!Init, Dyn!DynInit, Dyn!WbkInit, Dyn!DynTypeOK, Dyn!WbkTypeOK, Dyn!Said,
       Dyn!NoReport, Dyn!Report, Dyn!Note, Dyn!Writers, Dyn!DataTexts, Dyn!ScriptTexts,
       Dyn!Endings, Dyn!DynStages, Dyn!WbkStages

\* Both pipelines together keep every file, program counter, answer and ending
\* in its type, whatever tools and runs overlap.
THEOREM FolderTypes == FolderSpec => []FolderTypeOK
<1>1. FolderInit => FolderTypeOK
  BY TypeInit, RunsTypesInit, SameFileTypes DEF FolderInit, FolderTypeOK, TypeOK, Dyn!TypeOK
<1>2. FolderTypeOK /\ [FolderNext]_folderVars => FolderTypeOK'
  <2> SUFFICES ASSUME FolderTypeOK, [FolderNext]_folderVars PROVE FolderTypeOK'  OBVIOUS
  <2> USE DEF FolderTypeOK
  <2>1. CASE BeamSteps
    <3>1. TypeOK'  BY <2>1, TypeStep DEF BeamSteps
    <3>2. Dyn!DynTypeOK' /\ Dyn!WbkTypeOK'
      BY <2>1 DEF BeamSteps, dynamicVars, Dyn!TypeOK, Dyn!DynTypeOK, Dyn!WbkTypeOK
    <3>3. QED  BY <3>1, <3>2, SameFileTypes DEF TypeOK, Dyn!TypeOK
  <2>2. CASE RunSteps
    <3>1. Dyn!TypeOK'  BY <2>2, RunTypes DEF RunSteps
    <3>2. ToolTypeOK' /\ CtlTypeOK' /\ WorkbenchTypeOK'
      BY <2>2 DEF RunSteps, beamVars, toolVars, ctlVars, wbVars, TypeOK, ToolTypeOK, CtlTypeOK,
                  WorkbenchTypeOK
    <3>3. QED  BY <3>1, <3>2, SameFileTypes DEF TypeOK, Dyn!TypeOK
  <2>3. QED  BY <2>1, <2>2, FolderSteps
<1>3. QED  BY <1>1, <1>2, PTL DEF FolderSpec

(***************************************************************************)
(* What a run does to the files and says of them.                          *)
(***************************************************************************)
ControllerPasses(c) ==
    \/ Dyn!Start(c) \/ Dyn!ControllerStopped(c)
    \/ Dyn!ControllerWaits(c) \/ Dyn!ControllerLaunches(c)

LEMMA RunCases ==
    ASSUME NEW c \in Calls, RunMoves(c)
    PROVE  \/ Removes(c) \/ ControllerPasses(c) \/ Dyn!ControllerRuns(c)
           \/ Dyn!WorkbenchRuns(c) \/ Dyn!WorkbenchCloses(c)
BY DEF RunMoves, ControllerPasses, Dyn!ControllerMoves, Dyn!WorkbenchMoves

LEMMA RunWrites ==
    ASSUME NEW c \in Calls, RunMoves(c)
    PROVE  /\ \/ results' = results
              \/ Removes(c) /\ dyn[c] = "unlinkResults" /\ results' = NoReport
              \/ \E text \in {"empty", "whole"} : results' = Report(text, c, source[c])
           /\ error' \in {error, Missing, Note("empty", c), Note("whole", c)}
<1> USE DEF Note, Missing, Report, NoReport, Dyn!Note, Dyn!Missing, Dyn!Report, Dyn!NoReport,
            Dyn!fileVars
<1>1. CASE ControllerPasses(c)
  <2>1. UNCHANGED <<results, error>>
    BY <1>1
       DEF ControllerPasses, Dyn!Start, Dyn!RunStarts, Dyn!ControllerStopped, Dyn!Stop,
           Dyn!ControllerWaits, Dyn!WaitStep, Dyn!Check, Dyn!CheckError, Dyn!CheckResults,
           Dyn!CheckStatus, Dyn!ReadStatus, Dyn!CheckProcess, Dyn!LastResults, Dyn!LastError,
           Dyn!WaitAgain, Dyn!ControllerLaunches, Dyn!Launch
  <2>2. QED  BY <2>1
<1>2. CASE Dyn!ControllerRuns(c)
  <2>1. results' = results /\ error' \in {error, Note("empty", c), Note("whole", c)}
    BY <1>2
       DEF Dyn!ControllerRuns, Dyn!DynStep, Dyn!LoadInput, Dyn!Prepare, Dyn!OpenScript,
           Dyn!WriteScript, Dyn!PrepareRaises, Dyn!TimeOut, Dyn!ReportFailure, Dyn!PrintError,
           Dyn!PrintResults, Dyn!HandlerWrites, Dyn!HandlerRaises, Dyn!Torn
  <2>2. QED  BY <2>1
<1>3. CASE Dyn!WorkbenchRuns(c) \/ Dyn!WorkbenchCloses(c)
  <2>1. /\ \/ results' = results
           \/ \E text \in {"empty", "whole"} : results' = Report(text, c, source[c])
        /\ error' \in {error, Note("empty", c), Note("whole", c)}
    BY <1>3
       DEF Dyn!WorkbenchRuns, Dyn!WbkStep, Dyn!ReadJournal, Dyn!BuildProject, Dyn!RefreshSetup,
           Dyn!JournalRaises, Dyn!ThermalSent, Dyn!StructuralSent, Dyn!ThermalSolves,
           Dyn!ThermalRaises, Dyn!ThermalOpensError, Dyn!ThermalWritesError,
           Dyn!StructuralSolves, Dyn!OpenResults, Dyn!WriteResults, Dyn!SaveProject,
           Dyn!WriteCompleted, Dyn!StructuralRaises, Dyn!StructuralOpensError,
           Dyn!StructuralWritesError, Dyn!ErrorNotWritten, Dyn!WorkbenchCloses,
           Dyn!WorkbenchEnds
  <2>2. QED  BY <2>1
<1>4. CASE Removes(c)
  <2>1. /\ results' = results \/ (dyn[c] = "unlinkResults" /\ results' = NoReport)
        /\ error' \in {error, Missing}
    BY <1>4
       DEF Removes, Dyn!ControllerUnlinks, Dyn!UnlinkStep, Dyn!UnlinkResults, Dyn!UnlinkStatus,
           Dyn!UnlinkError, Dyn!UnlinkRaises, Dyn!DynGo
  <2>2. QED  BY <1>4, <2>1
<1>5. QED  BY <1>1, <1>2, <1>3, <1>4, RunCases

BeforeResults == {"none", "unlinkResults"}

BeforeError == BeforeResults \union {"unlinkStatus", "unlinkError"}

\* A run leaves its removals with the file removed, or it ends; and it does not
\* come back to them.
LEMMA RunProgress ==
    ASSUME Dyn!TypeOK, NEW c \in Calls, RunMoves(c), NEW d \in Calls
    PROVE  /\ dyn[d] \notin BeforeResults => dyn'[d] \notin BeforeResults
           /\ dyn[d] \notin BeforeError => dyn'[d] \notin BeforeError
           /\ Removes(c) /\ dyn[c] = "unlinkResults" => dyn'[c] \notin BeforeResults
           /\ dyn'[d] \notin BeforeResults \union {"exited"} /\ dyn[d] \in BeforeResults =>
                 results' = NoReport
           /\ dyn'[d] \notin BeforeError \union {"exited"} /\ dyn[d] \in BeforeError =>
                 error' = Missing
           /\ dyn[d] = "exited" => dyn'[d] = "exited"
<1> USE DEF Dyn!TypeOK, Dyn!DynTypeOK, Dyn!DynGo, Dyn!DynEnd, Dyn!dynVars, BeforeResults,
            BeforeError
<1> DEFINE Stays == /\ dyn[d] \in BeforeResults <=> dyn'[d] \in BeforeResults
                    /\ dyn[d] \in BeforeError <=> dyn'[d] \in BeforeError
           Ends  == dyn'[d] = "exited"
<1>1. CASE ControllerPasses(c)
  <2>1. (Stays \/ Ends) /\ (dyn[d] = "exited" => Ends)
    BY <1>1
       DEF ControllerPasses, Dyn!Start, Dyn!RunStarts, Dyn!ControllerStopped, Dyn!Stop,
           Dyn!Working, Dyn!ControllerWaits, Dyn!WaitStep, Dyn!Check, Dyn!CheckError,
           Dyn!CheckResults, Dyn!CheckStatus, Dyn!ReadStatus, Dyn!CheckProcess,
           Dyn!LastResults, Dyn!LastError, Dyn!WaitAgain, Dyn!ControllerLaunches, Dyn!Launch
  <2>2. ~Removes(c) \/ dyn[c] # "unlinkResults" \/ dyn'[c] \notin BeforeResults
    BY DEF Removes, Dyn!ControllerUnlinks, Dyn!UnlinkStep, Dyn!UnlinkResults,
           Dyn!UnlinkStatus, Dyn!UnlinkError, Dyn!UnlinkRaises
  <2>3. QED  BY <2>1, <2>2
<1>2. CASE Dyn!ControllerRuns(c)
  <2>1. (Stays \/ Ends) /\ (dyn[d] = "exited" => Ends) /\ dyn[c] # "unlinkResults"
    BY <1>2
       DEF Dyn!ControllerRuns, Dyn!DynStep, Dyn!LoadInput, Dyn!Prepare, Dyn!OpenScript,
           Dyn!WriteScript, Dyn!PrepareRaises, Dyn!TimeOut, Dyn!ReportFailure, Dyn!PrintError,
           Dyn!PrintResults, Dyn!HandlerWrites, Dyn!HandlerRaises
  <2>2. QED  BY <2>1
<1>3. CASE Dyn!WorkbenchRuns(c) \/ Dyn!WorkbenchCloses(c)
  <2>1. dyn' = dyn  BY <1>3 DEF Dyn!WorkbenchRuns, Dyn!WorkbenchCloses
  <2>2. ~Removes(c) \/ dyn[c] # "unlinkResults" \/ dyn'[c] \notin BeforeResults
    BY DEF Removes, Dyn!ControllerUnlinks, Dyn!UnlinkStep, Dyn!UnlinkResults,
           Dyn!UnlinkStatus, Dyn!UnlinkError, Dyn!UnlinkRaises
  <2>3. QED  BY <2>1, <2>2
<1>4. CASE Removes(c)
  BY <1>4
     DEF Removes, Dyn!ControllerUnlinks, Dyn!UnlinkStep, Dyn!UnlinkResults, Dyn!UnlinkStatus,
         Dyn!UnlinkError, Dyn!UnlinkRaises, Dyn!NoReport, Dyn!Report, Dyn!Missing, Dyn!Note,
         NoReport, Report, Missing, Note
<1>5. QED  BY <1>1, <1>2, <1>3, <1>4, RunCases

\* What is printed is the results file, the error file or the run's own error.
LEMMA RunPrints ==
    ASSUME Dyn!TypeOK, NEW c \in Calls, RunMoves(c), NEW d \in Calls, said'[d] # said[d]
    PROVE  \/ ~Exists(said'[d].file)
           \/ said'[d].file = results /\ dyn[d] = "reading"
           \/ said'[d].file.by = error.by /\ dyn[d] = "readError" /\ Exists(error)
           \/ said'[d].file.by = d
<1> USE DEF Dyn!TypeOK, Dyn!DynTypeOK, Dyn!DynGo, Dyn!DynEnd, Dyn!Said, Dyn!NoReport,
            Dyn!Report, Dyn!Exists, Dyn!dynVars, Exists
<1>1. CASE Removes(c) \/ Dyn!ControllerStopped(c)
  <2>1. \/ UNCHANGED said
        \/ \E ending \in {"raised", "stopped"} :
              said' = [said EXCEPT ![c] = Dyn!Said(ending, Dyn!NoReport)]
    BY <1>1
       DEF Removes, Dyn!ControllerUnlinks, Dyn!UnlinkStep, Dyn!UnlinkResults,
           Dyn!UnlinkStatus, Dyn!UnlinkError, Dyn!UnlinkRaises, Dyn!ControllerStopped, Dyn!Stop
  <2>2. QED  BY <2>1
<1>2. CASE Dyn!Start(c) \/ Dyn!ControllerWaits(c) \/ Dyn!ControllerLaunches(c)
  BY <1>2
     DEF Dyn!Start, Dyn!RunStarts, Dyn!ControllerWaits, Dyn!WaitStep, Dyn!Check,
         Dyn!CheckError, Dyn!CheckResults, Dyn!CheckStatus, Dyn!ReadStatus, Dyn!CheckProcess,
         Dyn!LastResults, Dyn!LastError, Dyn!WaitAgain, Dyn!ControllerLaunches, Dyn!Launch
<1>3. CASE Dyn!ControllerRuns(c)
  <2>1. /\ c = d
        /\ \/ Dyn!TimeOut(d) \/ Dyn!ReportFailure(d) \/ Dyn!PrintError(d)
           \/ Dyn!PrintResults(d) \/ Dyn!HandlerWrites(d) \/ Dyn!HandlerRaises(d)
    BY <1>3
       DEF Dyn!ControllerRuns, Dyn!DynStep, Dyn!LoadInput, Dyn!Prepare, Dyn!OpenScript,
           Dyn!WriteScript, Dyn!PrepareRaises, Dyn!TimeOut, Dyn!ReportFailure, Dyn!PrintError,
           Dyn!PrintResults, Dyn!HandlerWrites, Dyn!HandlerRaises
  <2>2. CASE Dyn!TimeOut(d) \/ Dyn!ReportFailure(d)
    BY <2>2 DEF Dyn!TimeOut, Dyn!ReportFailure
  <2>3. CASE Dyn!PrintError(d)  BY <2>3 DEF Dyn!PrintError, Dyn!ErrorText
  <2>4. CASE Dyn!PrintResults(d)  BY <2>4 DEF Dyn!PrintResults
  <2>5. CASE Dyn!HandlerWrites(d) \/ Dyn!HandlerRaises(d)
    BY <2>5 DEF Dyn!HandlerWrites, Dyn!HandlerRaises
  <2>6. QED  BY <2>1, <2>2, <2>3, <2>4, <2>5
<1>4. CASE Dyn!WorkbenchRuns(c) \/ Dyn!WorkbenchCloses(c)
  BY <1>4 DEF Dyn!WorkbenchRuns, Dyn!WorkbenchCloses
<1>5. QED  BY <1>1, <1>2, <1>3, <1>4, RunCases DEF ControllerPasses

\* What a simulation does to them.
LEMMA BeamWrites ==
    ASSUME Steps
    PROVE  /\ results' = results \/ \E c \in Calls : results'.by = c /\ Exists(results')
           /\ error' \in {error, Missing} \/ \E c \in Calls : error'.by = c
<1>1. results' = results \/ \E c \in Calls : results'.by = c /\ Exists(results')
  BY ResultsWriters DEF MechOpensResults, MechWritesResults, Report, Exists
<1>2. error' \in {error, Missing} \/ \E c \in Calls : error'.by = c
  <2> USE DEF Note, Torn, fileVars
  <2>1. ASSUME NEW c \in Calls, ToolMoves(c)  PROVE UNCHANGED error
    BY <2>1
       DEF ToolMoves, Call, CallRun, CallGet, ToolRuns, ToolStep, RejectRun, OpenInput,
           CloseInput, InputRaises, SpawnFails, ResultsMissing, ResultsFound, ReadResults,
           GetNothing, GetFound, GetResults, ToolSpawns, Spawn, ToolReturns, ReportFailure,
           ControllerReturned
  <2>2. ASSUME NEW c \in Calls, ControllerMoves(c)  PROVE error' = error \/ error'.by = c
    BY <2>2
       DEF ControllerMoves, ControllerRuns, CtlStep, WriteStarting, LoadInput, LoadRaises,
           PopenRaises, WriteRunning, StatusWriteRaises, HandlerWritesError,
           HandlerWritesFailed, HandlerRaises, ControllerPopens, Popen, WorkbenchStarts,
           ControllerEnds, PollSeesEnd, ControllerStopped, CtlAccident, Interrupt, Kill
  <2>3. ASSUME NEW c \in Calls, JournalMoves(c)  PROVE error' \in {error, Missing}
    BY <2>3
       DEF JournalMoves, JournalClears, JournalClearsStatus, JournalClearsError, JournalWaits,
           JournalWaitStep, JournalSeesVerdict, JournalPollsAgain, JournalTimesOut,
           JournalSaves, JnlGo
  <2>4. ASSUME NEW c \in Calls, WorkbenchMoves(c)  PROVE error' = error \/ error'.by = c
    BY <2>4
       DEF WorkbenchMoves, JournalBuildsModel, JournalBuilds, JournalAborts,
           JournalSendsScript, JournalSends, JournalSent, JournalSendRaises, JnlGo,
           MechanicalRuns, MechStep, MechSolves, MechOpensResults, MechWritesResults,
           MechWritesSuccess, MechSaves, MechRaises, MechWriteRaises, MechWritesError,
           MechWritesFailed, MechHandlerPasses, UserClosesWorkbench, UserCloses
  <2>5. CASE UNCHANGED vars  BY <2>5 DEF vars
  <2>6. QED  BY <2>1, <2>2, <2>3, <2>4, <2>5 DEF Steps, Moves
<1>3. QED  BY <1>1, <1>2

(***************************************************************************)
(* The tool, the controller and the Workbench of a simulation stay linked. *)
(***************************************************************************)
THEOREM FolderChain == FolderSpec => []Chain
<1>1. FolderInit => Chain  BY ChainInit DEF FolderInit
<1>2. FolderTypeOK /\ Chain /\ [FolderNext]_folderVars => Chain'
  <2> SUFFICES ASSUME FolderTypeOK, Chain, [FolderNext]_folderVars PROVE Chain'  OBVIOUS
  <2>1. CASE BeamSteps  BY <2>1, ChainStep DEF BeamSteps, FolderTypeOK
  <2>2. CASE RunSteps
    <3>1. \A d \in Calls : SameCall(d)
      BY <2>2 DEF RunSteps, beamVars, toolVars, ctlVars, wbVars, SameCall
    <3>2. QED
      BY <3>1, SameLinked DEF Chain, Attended, MayFailToReport, MayBeInterrupted
  <2>3. QED  BY <2>1, <2>2, FolderSteps
<1>3. QED  BY <1>1, <1>2, FolderTypes, PTL DEF FolderSpec

\* Runs that come and go on the same files leave every attended Workbench with a
\* controller that polls it and a tool that waits.
THEOREM FolderWatched == FolderSpec => []WorkbenchIsWatched
<1>1. Chain => WorkbenchIsWatched  BY ChainWatches
<1>2. QED  BY <1>1, FolderChain, PTL

(***************************************************************************)
(* Who takes the results away.                                             *)
(***************************************************************************)
LEMMA RemovedStays ==
    ASSUME FolderTypeOK, [FolderNext]_folderVars, SomeRunRemoved
    PROVE  SomeRunRemoved'
<1>1. CASE BeamSteps  BY <1>1 DEF BeamSteps, dynamicVars, SomeRunRemoved
<1>2. CASE RunSteps
  BY <1>2, RunProgress DEF RunSteps, SomeRunRemoved, FolderTypeOK, BeforeResults
<1>3. QED  BY <1>1, <1>2, FolderSteps

LEMMA ResultsGo ==
    ASSUME FolderTypeOK, [FolderNext]_folderVars, Exists(results), ~Exists(results)'
    PROVE  SomeRunRemoved'
<1>1. CASE BeamSteps  BY <1>1, ResultsStay DEF BeamSteps
<1>2. CASE RunSteps
  <2>1. PICK c \in Calls : RunMoves(c)  BY <1>2 DEF RunSteps
  <2>2. Removes(c) /\ dyn[c] = "unlinkResults"
    BY <2>1, RunWrites DEF Report, Exists
  <2>3. QED  BY <2>1, <2>2, RunProgress DEF FolderTypeOK, SomeRunRemoved, BeforeResults
<1>3. QED  BY <1>1, <1>2, FolderSteps

\* However tools, controllers, Workbenches and runs overlap, what get_results or
\* run_simulation has seen is gone before it is read only if a run removed it.
THEOREM OnlyRuns == FolderSpec => []OnlyRunsRemove
<1>1. FolderInit => OnlyRunsRemove
  BY DEF FolderInit, Init, ToolInit, OnlyRunsRemove, ToolHoldsResults
<1>2. FolderTypeOK /\ OnlyRunsRemove /\ [FolderNext]_folderVars => OnlyRunsRemove'
  <2> SUFFICES ASSUME FolderTypeOK, OnlyRunsRemove, [FolderNext]_folderVars,
                      NEW d \in Calls, ToolHoldsResults(d)', ~Exists(results)'
               PROVE  SomeRunRemoved'
    BY DEF OnlyRunsRemove
  <2>1. CASE ToolHoldsResults(d) /\ ~Exists(results)
    BY <2>1, RemovedStays DEF OnlyRunsRemove
  <2>2. CASE Exists(results)  BY <2>2, ResultsGo
  <2>3. CASE ~ToolHoldsResults(d) /\ BeamSteps
    <3>1. Exists(results) /\ UNCHANGED results
      BY <2>3, SeenBeforeRead DEF BeamSteps, FolderTypeOK
    <3>2. QED  BY <3>1
  <2>4. CASE ~ToolHoldsResults(d) /\ RunSteps
    BY <2>4 DEF RunSteps, beamVars, toolVars, ToolHoldsResults
  <2>5. QED  BY <2>1, <2>2, <2>3, <2>4, FolderSteps
<1>3. QED  BY <1>1, <1>2, FolderTypes, PTL DEF FolderSpec

(***************************************************************************)
(* What a solved simulation is answered with.                              *)
(***************************************************************************)
\* From the first solved simulation on, the results are of this session or a
\* run took them.
SolvedIsThere ==
    \A c \in Calls :
        solved[c] => IF Exists(results) THEN results.by # None ELSE SomeRunRemoved

THEOREM SolvedThere == FolderSpec => []SolvedIsThere
<1>1. FolderInit => SolvedIsThere
  BY DEF FolderInit, Init, WorkbenchInit, SolvedIsThere
<1>2. FolderTypeOK /\ SolvedIsThere /\ [FolderNext]_folderVars => SolvedIsThere'
  <2> SUFFICES ASSUME FolderTypeOK, SolvedIsThere, [FolderNext]_folderVars,
                      NEW d \in Calls, solved'[d]
               PROVE  IF Exists(results)' THEN results'.by # None ELSE SomeRunRemoved'
    BY DEF SolvedIsThere
  <2>1. CASE results' = results /\ solved[d]
    BY <2>1, RemovedStays DEF SolvedIsThere, Exists
  <2>2. CASE BeamSteps /\ ~(results' = results /\ solved[d])
    <3>1. PICK c \in Calls : MechOpensResults(c) \/ MechWritesResults(c)
      BY <2>2, ResultsWriters DEF BeamSteps
    <3>2. QED
      BY <3>1, CallsAssumption DEF MechOpensResults, MechWritesResults, Report, Exists
  <2>3. CASE RunSteps /\ ~(results' = results /\ solved[d])
    <3>1. solved' = solved  BY <2>3 DEF RunSteps, beamVars, wbVars
    <3>2. PICK c \in Calls : RunMoves(c)  BY <2>3 DEF RunSteps
    <3>3. CASE \E text \in {"empty", "whole"} : results' = Report(text, c, source[c])
      BY <3>3, CallsAssumption DEF Report, Exists
    <3>4. CASE Removes(c) /\ dyn[c] = "unlinkResults" /\ results' = NoReport
      <4>1. dyn'[c] \notin BeforeResults  BY <3>2, <3>4, RunProgress DEF FolderTypeOK
      <4>2. QED  BY <3>4, <4>1 DEF SomeRunRemoved, BeforeResults, NoReport, Report, Exists
    <3>5. QED  BY <2>3, <3>1, <3>2, <3>3, <3>4, RunWrites
  <2>4. QED  BY <2>1, <2>2, <2>3, FolderSteps
<1>3. QED  BY <1>1, <1>2, FolderTypes, PTL DEF FolderSpec

\* The answer to a solved simulation is the text that is there when it is read.
LEMMA SolvedAnswers ==
    ASSUME TypeOK, Steps, NEW d \in Calls, Linked(d), solved[d],
           tool[d] # "answered", tool'[d] = "answered"
    PROVE  \/ Exists(results) /\ answer'[d] = Answer("results", results)
           \/ ~Exists(results) /\ answer'[d].kind \in {"noResults", "raised"}
<1> USE DEF TypeOK, ToolTypeOK, Return, Go, toolVars
<1>1. /\ tool[d] \in {"waiting", "returned", "found"} /\ code[d] \in {0, None}
      /\ ctl[d] = "exited" => code[d] = 0
  BY DEF Linked, ToolHasController, ControllerHasWorkbench, WorkbenchRunsOnce, ToolStages,
         RunStages, GetStages
<1>2. ASSUME NEW c \in Calls, Call(c) \/ ToolSpawns(c) \/ ToolReturns(c)
      PROVE  FALSE
  BY <1>1, <1>2 DEF Call, CallRun, CallGet, ToolSpawns, Spawn, ToolReturns, ReportFailure,
                    ControllerReturned
<1>3. PICK c \in Calls : ToolRuns(c)  BY <1>2, ToolSteps
<1>4. c = d /\ (ReadResults(c) \/ ResultsMissing(c))
  BY <1>1, <1>3
     DEF ToolRuns, ToolStep, RejectRun, OpenInput, CloseInput, InputRaises, SpawnFails,
         ResultsMissing, ResultsFound, ReadResults, GetNothing, GetFound, GetResults
<1>5. CASE ReadResults(c)  BY <1>4, <1>5 DEF ReadResults, Answer
<1>6. CASE ResultsMissing(c)  BY <1>4, <1>6 DEF ResultsMissing, Answer
<1>7. QED  BY <1>4, <1>5, <1>6

\* A simulation that solved is answered with results of this session or, where a
\* run has removed them since, with their absence.
THEOREM SolvedNotOld == FolderSpec => []SolvedIsNotOld
<1>1. FolderInit => SolvedIsNotOld
  BY DEF FolderInit, Init, WorkbenchInit, SolvedIsNotOld
<1>2. /\ FolderTypeOK /\ Chain /\ SolvedIsThere /\ SolvedIsNotOld
      /\ [FolderNext]_folderVars
      => SolvedIsNotOld'
  <2> SUFFICES ASSUME FolderTypeOK, Chain, SolvedIsThere, SolvedIsNotOld,
                      [FolderNext]_folderVars,
                      NEW d \in Calls, Attended(d), solved'[d], tool'[d] = "answered"
               PROVE  \/ answer'[d].kind = "results" /\ answer'[d].file.by # None
                      \/ answer'[d].kind \in {"noResults", "raised"} /\ SomeRunRemoved'
    BY DEF SolvedIsNotOld, Attended, MayFailToReport, MayBeInterrupted
  <2> Linked(d)  BY DEF Chain
  <2>1. CASE solved[d] /\ tool[d] = "answered"
    <3>1. answer'[d] = answer[d]
      <4>1. CASE BeamSteps  BY <2>1, <4>1, AnswersStay DEF BeamSteps, FolderTypeOK
      <4>2. CASE RunSteps  BY <4>2 DEF RunSteps, beamVars, toolVars
      <4>3. QED  BY <4>1, <4>2, FolderSteps
    <3>2. QED  BY <2>1, <3>1, RemovedStays DEF SolvedIsNotOld
  <2>2. CASE ~(solved[d] /\ tool[d] = "answered")
    <3>1. BeamSteps
      BY <2>2, FolderSteps DEF RunSteps, beamVars, toolVars, wbVars
    <3>2. TypeOK /\ Steps  BY <3>1 DEF BeamSteps, FolderTypeOK
    <3>3. CASE ~solved[d]
      <4>1. PICK c \in Calls : MechanicalRuns(c) /\ MechWritesResults(c)
        BY <3>2, <3>3, ResultsWriters DEF MechOpensResults
      <4>2. c = d /\ Up(d) /\ tool[d] = "answered"
        BY <3>2, <3>3, <4>1
           DEF MechanicalRuns, MechWritesResults, MechGo, toolVars, TypeOK, WorkbenchTypeOK
      <4>3. QED  BY <4>2 DEF Linked, ControllerHasWorkbench, ToolHasController
    <3>4. CASE solved[d] /\ tool[d] # "answered"
      <4>1. CASE Exists(results) /\ answer'[d] = Answer("results", results)
        BY <3>4, <4>1 DEF SolvedIsThere, Answer
      <4>2. CASE ~Exists(results) /\ answer'[d].kind \in {"noResults", "raised"}
        BY <3>4, <4>2, RemovedStays DEF SolvedIsThere
      <4>3. QED  BY <3>2, <3>4, <4>1, <4>2, SolvedAnswers
    <3>5. QED  BY <2>2, <3>3, <3>4
  <2>3. QED  BY <2>1, <2>2
<1>3. QED  BY <1>1, <1>2, FolderTypes, FolderChain, SolvedThere, PTL DEF FolderSpec

(***************************************************************************)
(* Nothing of an earlier session is printed.                               *)
(***************************************************************************)
OfThisSession(file) == Exists(file) => file.by # None

NoOldText ==
    \A c \in Calls :
        /\ dyn[c] \notin BeforeResults \union {"exited"} => OfThisSession(results)
        /\ dyn[c] \notin BeforeError \union {"exited"} => OfThisSession(error)

LEMMA ThisSessionStays ==
    ASSUME [FolderNext]_folderVars
    PROVE  /\ OfThisSession(results) => OfThisSession(results)'
           /\ OfThisSession(error) => OfThisSession(error)'
<1> USE CallsAssumption DEF OfThisSession, Exists, Note, Missing, Report, NoReport
<1>1. CASE BeamSteps  BY <1>1, BeamWrites DEF BeamSteps
<1>2. CASE RunSteps  BY <1>2, RunWrites DEF RunSteps
<1>3. QED  BY <1>1, <1>2, FolderSteps

\* What a run prints is not what an earlier session left, even while simulations
\* write the same files between its removals and its reads.
THEOREM PrintedNotOld == FolderSpec => []PrintedIsNotOld
<1> DEFINE Inv == NoOldText /\ PrintedIsNotOld
<1> USE DEF PrintedIsNotOld
<1>1. FolderInit => Inv
  BY DEF FolderInit, Dyn!Init, Dyn!DynInit, NoOldText, BeforeResults, BeforeError, Dyn!Said,
         Dyn!NoReport, Dyn!Report, Exists
<1>2. FolderTypeOK /\ Inv /\ [FolderNext]_folderVars => Inv'
  <2> SUFFICES ASSUME FolderTypeOK, Inv, [FolderNext]_folderVars PROVE Inv'  OBVIOUS
  <2>1. CASE BeamSteps
    <3>1. dyn' = dyn /\ said' = said  BY <2>1 DEF BeamSteps, dynamicVars
    <3>2. NoOldText'  BY <3>1, ThisSessionStays DEF NoOldText
    <3>3. QED  BY <3>1, <3>2
  <2>2. CASE RunSteps
    <3>1. PICK c \in Calls : RunMoves(c)  BY <2>2 DEF RunSteps
    <3>2. NoOldText'
      <4> SUFFICES ASSUME NEW d \in Calls, dyn'[d] # "exited"
                   PROVE  /\ dyn'[d] \notin BeforeResults => OfThisSession(results)'
                          /\ dyn'[d] \notin BeforeError => OfThisSession(error)'
        BY DEF NoOldText
      <4>1. dyn[d] # "exited"  BY <3>1, RunProgress DEF FolderTypeOK
      <4>2. ASSUME dyn'[d] \notin BeforeResults  PROVE OfThisSession(results)'
        <5>1. CASE dyn[d] \in BeforeResults
          BY <3>1, <4>2, <5>1, RunProgress
             DEF FolderTypeOK, OfThisSession, NoReport, Report, Exists
        <5>2. CASE dyn[d] \notin BeforeResults
          BY <4>1, <5>2, ThisSessionStays DEF NoOldText
        <5>3. QED  BY <5>1, <5>2
      <4>3. ASSUME dyn'[d] \notin BeforeError  PROVE OfThisSession(error)'
        <5>1. CASE dyn[d] \in BeforeError
          BY <3>1, <4>3, <5>1, RunProgress
             DEF FolderTypeOK, OfThisSession, Missing, Note, Exists
        <5>2. CASE dyn[d] \notin BeforeError
          BY <4>1, <5>2, ThisSessionStays DEF NoOldText
        <5>3. QED  BY <5>1, <5>2
      <4>4. QED  BY <4>2, <4>3
    <3>3. ASSUME NEW d \in Calls, Exists(said'[d].file)  PROVE said'[d].file.by # None
      <4>1. CASE said'[d] = said[d]  BY <3>3, <4>1 DEF Exists
      <4>2. CASE said'[d].file = results /\ dyn[d] = "reading"
        BY <3>3, <4>2 DEF NoOldText, OfThisSession, Exists, BeforeResults
      <4>3. CASE said'[d].file.by = error.by /\ dyn[d] = "readError" /\ Exists(error)
        BY <4>3 DEF NoOldText, OfThisSession, BeforeResults, BeforeError
      <4>4. CASE said'[d].file.by = d  BY <4>4, CallsAssumption
      <4>5. QED  BY <3>1, <3>3, <4>1, <4>2, <4>3, <4>4, RunPrints DEF FolderTypeOK
    <3>4. QED  BY <3>2, <3>3 DEF Exists
  <2>3. QED  BY <2>1, <2>2, FolderSteps
<1>3. QED  BY <1>1, <1>2, FolderTypes, PTL DEF FolderSpec
=============================================================================
