---------------------------- MODULE BeamPipeline ----------------------------
(***************************************************************************)
(* The live system: tool -> controller -> Workbench, per call, over the    *)
(* shared files.  Steps of different calls and of the processes of one     *)
(* call interleave freely.                                                 *)
(***************************************************************************)
EXTENDS ToolServer, Controller, BeamWorkbench

vars == <<fileVars, toolVars, ctlVars, wbVars>>

Init == FilesInit /\ ToolInit /\ CtlInit /\ WorkbenchInit

TypeOK == FilesTypeOK /\ ToolTypeOK /\ CtlTypeOK /\ WorkbenchTypeOK

\* Whether a process other than the journal of c has the file open.  A reader
\* stops a removal, only a writer leaves the text empty for a moment.
StatusWritten ==
    \E d \in Calls : CtlHoldsStatus(d) \/ MechHoldsStatus(d)

StatusOpen(c) ==
    StatusWritten \/ \E d \in Calls \ {c} : JournalReads(d)

ErrorOpen == \E d \in Calls : CtlHoldsError(d) \/ MechHoldsError(d)

-----------------------------------------------------------------------------
Call(c) ==
    /\ CallRun(c) \/ CallGet(c)
    /\ UNCHANGED <<ctlVars, wbVars>>

ToolRuns(c) == ToolStep(c) /\ UNCHANGED <<ctlVars, wbVars>>

ToolSpawns(c) == Spawn(c) /\ CtlStart(c) /\ UNCHANGED wbVars

ToolReturns(c) ==
    /\ ctl[c] = "exited"
    /\ ReportFailure(c, code[c]) \/ ControllerReturned(c, code[c])
    /\ UNCHANGED <<ctlVars, wbVars>>

ControllerRuns(c) == CtlStep(c) /\ UNCHANGED <<toolVars, wbVars>>

ControllerPopens(c) == Popen(c) /\ WorkbenchStarts(c) /\ UNCHANGED toolVars

ControllerEnds(c) ==
    PollSeesEnd(c, wb[c] = "ended") /\ UNCHANGED <<toolVars, wbVars>>

ControllerStopped(c) == CtlAccident(c) /\ UNCHANGED <<toolVars, wbVars>>

JournalClears(c, statusRefusals, errorRefusals) ==
    /\ JournalClearsStatus(c, statusRefusals) \/ JournalClearsError(c, errorRefusals)
    /\ UNCHANGED <<toolVars, ctlVars>>

JournalBuildsModel(c) ==
    /\ JournalBuilds(c) \/ JournalAborts(c)
    /\ UNCHANGED <<toolVars, ctlVars>>

JournalSendsScript(c) ==
    /\ JournalSends(c) \/ JournalSent(c) \/ JournalSendRaises(c)
    /\ UNCHANGED <<toolVars, ctlVars>>

JournalWaits(c, held) == JournalWaitStep(c, held) /\ UNCHANGED <<toolVars, ctlVars>>

MechanicalRuns(c) == MechStep(c) /\ UNCHANGED <<toolVars, ctlVars>>

UserClosesWorkbench(c) == UserCloses(c) /\ UNCHANGED <<toolVars, ctlVars>>

ToolMoves(c) == Call(c) \/ ToolRuns(c) \/ ToolSpawns(c) \/ ToolReturns(c)

ControllerMoves(c) ==
    ControllerRuns(c) \/ ControllerPopens(c) \/ ControllerEnds(c) \/ ControllerStopped(c)

WorkbenchMoves(c) ==
    \/ JournalBuildsModel(c) \/ JournalSendsScript(c)
    \/ MechanicalRuns(c) \/ UserClosesWorkbench(c)

\* Every call is answered and no process is left.
AllOver ==
    /\ \A c \in Calls : tool[c] = "answered" /\ ctl[c] \in {"none", "exited"} /\ ~Up(c)
    /\ UNCHANGED vars

\* What the files show the journal of c depends on all who have them open.
Next ==
    \/ \E c \in Calls :
        \/ ToolMoves(c) \/ ControllerMoves(c) \/ WorkbenchMoves(c)
        \/ JournalClears(c, Refusals(FALSE, StatusOpen(c)), Refusals(FALSE, ErrorOpen))
        \/ JournalWaits(c, StatusWritten)
    \/ AllOver

\* The Python processes and the journal's wait loop keep running.  Nothing is
\* assumed of the user, of Mechanical or of SendCommand.
Fairness ==
    \A c \in Calls :
        /\ WF_vars(ToolRuns(c) \/ ToolSpawns(c) \/ ToolReturns(c))
        /\ WF_vars(ControllerRuns(c) \/ ControllerPopens(c) \/ ControllerEnds(c))
        /\ WF_vars(JournalWaits(c, StatusWritten))

Spec == Init /\ [][Next]_vars

FairSpec == Spec /\ Fairness

-----------------------------------------------------------------------------
(* Properties *)

\* A simulation whose Mechanical script got as far as closing its results
\* file is answered with exactly that text: not an earlier run's, not a
\* message, not an empty file.  (Serial calls, all attended.)
FreshWhenSolved ==
    \A c \in Calls :
        solved[c] /\ tool[c] = "answered" =>
            answer[c] = Answer("results", Report("whole", c, Fixed))

\* Two Workbenches are never up side by side: they would run their journals
\* and scripts on the same four files and the same project.  (Serial calls,
\* all attended.)
OneWorkbench == \A c, d \in Calls : Up(c) /\ Up(d) => c = d

\* What a journal takes for the outcome of its run was written by its own
\* run, although the status file outlives runs and the controller may write
\* it after the journal has cleared it.  (Serial calls, all attended.)
VerdictIsOwn == \A c \in Calls : verdict[c] # Missing => verdict[c].by = c

\* A status FAILED of a call whose writes succeed always comes with that call's
\* error text, over two files and two programs that write them, whatever writes
\* of the other calls raise.  (Serial calls, all attended.)
FailureExplained ==
    status.text = "FAILED" /\ status.by # None /\ ~MayFailToWrite(status.by) =>
        error = Note("whole", status.by)

\* Unless its controller is interrupted, killed or fails to write, a Workbench
\* has a controller that will notice its end and a tool call that waits for it,
\* whatever befalls the script of this call and all processes of the others.
WorkbenchIsWatched ==
    \A c \in Calls :
        Attended(c) /\ Up(c) =>
            ctl[c] \in {"launched", "polling"} /\ tool[c] = "waiting"

\* The journal's wait loop ends, with or without a verdict, unless Workbench
\* is closed first.
JournalWaitEnds ==
    \A c \in Calls : jnl[c] = "waiting" ~> (jnl[c] = "finished" \/ ~Up(c))

\* Once Workbench is gone its call is answered, whatever raised before.
AnsweredOnceClosed ==
    \A c \in Calls : wb[c] = "ended" ~> tool[c] = "answered"

-----------------------------------------------------------------------------
(* What the source says of itself and the code does not do *)

\* "Create and run an ANSYS simulation": the results returned are those of the
\* run.  The tool looks at the exit code, which is 0 for a failed run too, and
\* at a results file that no run of this pipeline removes.
ResultsAreOfThisRun ==
    \A c \in Calls :
        tool[c] = "answered" /\ ctl[c] # "none" /\ answer[c].kind = "results" =>
            answer[c].file.by = c

\* "SIMULATION COMPLETED": a run announced as completed is not FAILED later.
CompletedIsFinal ==
    \A c \in Calls :
        verdict[c] = Note("SUCCESS", c) => status # Note("FAILED", c)

\* "DO NOT CLOSE ANSYS": a call whose simulation is solved is answered.
SolvedIsAnswered ==
    \A c \in Calls : solved[c] ~> tool[c] = "answered"
=============================================================================
