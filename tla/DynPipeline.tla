---------------------------- MODULE DynPipeline ----------------------------
(***************************************************************************)
(* Runs of the dynamic controller with their Workbenches, over the shared  *)
(* files and the one journal file.  Discipline is what the user keeps to:  *)
(* "quiet", a run is started when no controller works and no Workbench is  *)
(* there; "serial", when no controller works; "free", at any time.         *)
(***************************************************************************)
EXTENDS DynController, DynWorkbench

CONSTANT Discipline

ASSUME DisciplineAssumption == Discipline \in {"quiet", "serial", "free"}

vars == <<fileVars, dynVars, wbkVars>>

Init == FilesInit /\ DynInit /\ WbkInit

TypeOK == FilesTypeOK /\ DynTypeOK /\ WbkTypeOK

MayStart ==
    /\ Discipline # "free" => \A d \in Calls : ~Working(d)
    /\ Discipline = "quiet" => \A d \in Calls : ~Alive(d)

\* What the files answer to the removals of c.  A Workbench has its file open
\* from one stage to the next, a controller opens and closes within a stage.
ResultsRefusals(c) ==
    Refusals(\E d \in Calls : WbkHoldsResults(d),
             \E d \in Calls \ {c} : DynHoldsResults(d))

StatusRefusals(c) ==
    Refusals(FALSE, \E d \in Calls : WbkHoldsStatus(d) \/ (d # c /\ DynHoldsStatus(d)))

ErrorRefusals(c) ==
    Refusals(\E d \in Calls : WbkHoldsError(d),
             \E d \in Calls \ {c} : DynHoldsError(d))

\* The journal that Workbench c has read was generated from a thermal request.
ReadsThermal(c) == source[c] # None /\ IsThermal(wanted[source[c]])

-----------------------------------------------------------------------------
Start(c) == MayStart /\ RunStarts(c) /\ UNCHANGED wbkVars

ControllerRuns(c) == DynStep(c) /\ UNCHANGED wbkVars

ControllerUnlinks(c, ofResults, ofStatus, ofError) ==
    UnlinkStep(c, ofResults, ofStatus, ofError) /\ UNCHANGED wbkVars

ControllerLaunches(c) == Launch(c) /\ WorkbenchStarts(c)

ControllerWaits(c) == WaitStep(c, wbk[c] = "ended") /\ UNCHANGED wbkVars

ControllerStopped(c) == Stop(c) /\ UNCHANGED wbkVars

WorkbenchRuns(c) == WbkStep(c, script, ReadsThermal(c)) /\ UNCHANGED dynVars

WorkbenchCloses(c) == WorkbenchEnds(c) /\ UNCHANGED dynVars

ControllerMoves(c) ==
    \/ Start(c) \/ ControllerRuns(c) \/ ControllerLaunches(c)
    \/ ControllerWaits(c) \/ ControllerStopped(c)

WorkbenchMoves(c) == WorkbenchRuns(c) \/ WorkbenchCloses(c)

AllOver ==
    /\ \A c \in Calls : dyn[c] = "exited" /\ ~Alive(c)
    /\ UNCHANGED vars

Next ==
    \/ \E c \in Calls :
        \/ ControllerUnlinks(c, ResultsRefusals(c), StatusRefusals(c), ErrorRefusals(c))
        \/ ControllerMoves(c) \/ WorkbenchMoves(c)
    \/ AllOver

\* The controller keeps running; nothing is assumed of Workbench or its user.
Fairness ==
    \A c \in Calls :
        WF_vars(\/ ControllerUnlinks(c, ResultsRefusals(c), StatusRefusals(c), ErrorRefusals(c))
                \/ ControllerRuns(c) \/ ControllerLaunches(c) \/ ControllerWaits(c))

Spec == Init /\ [][Next]_vars

FairSpec == Spec /\ Fairness

-----------------------------------------------------------------------------
(* Properties *)

\* What a run prints as its results, or as its error, was written in that run
\* and from its own journal, whatever failed in it or in the runs before it.
\* (Quiet.)
PrintedIsOwn ==
    \A c \in Calls :
        Exists(said[c].file) => said[c].file.by = c /\ said[c].file.of = c

\* A run that reports failure has an error file to print, though its text may
\* still be on the way: what the wait loop saw does not go away before main
\* reads it.  (Quiet.)
FailureHasFile ==
    \A c \in Calls : said[c].kind = "failed" => Exists(said[c].file)

\* Every Workbench, whichever run's journal it reads off the shared path, draws
\* and meshes sizes that are positive or NaN.
DrawsCheckedSizes ==
    \A c \in Calls : source[c] # None => SizesTaken(wanted[source[c]])

\* No request that a tool of either server writes gets as far as Workbench:
\* validation or a generator asks for a key that both leave out.
ToolRequestsNeverRun ==
    \A c \in Calls : wanted[c] # None /\ FromTool(wanted[c]) => wbk[c] = "none"

\* A run is turned away for what validation asks, or for one of the five keys
\* it does not ask about and a generator converts, and for nothing else; and
\* none that has such a key goes on to its journal.
RefusedWithReason ==
    [][\A c \in Calls : dyn[c] = "prepare" =>
          /\ dyn'[c] = "handling" => ~Accepted(wanted[c]) \/ Gap(wanted[c])
          /\ dyn'[c] = "openScript" => ~Gap(wanted[c])]_vars

\* The controller ends, whatever Workbench does or fails to do.
ControllerEnds == \A c \in Calls : Working(c) ~> dyn[c] = "exited"

-----------------------------------------------------------------------------
(* What the source says of itself and the code does not do *)

\* "ANSYS SIMULATION COMPLETED", followed by the results file: the results
\* are there in full.
CompletedIsWhole ==
    \A c \in Calls : said[c].kind = "completed" => said[c].file.text = "whole"

\* The same words: the simulation completed is the one that was started.
CompletedIsOwn ==
    \A c \in Calls : said[c].kind = "completed" => said[c].file.of = c
=============================================================================
