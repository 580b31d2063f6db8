---------------------------- MODULE BeamWorkbench ----------------------------
(***************************************************************************)
(* The Workbench process of a call: the journal cantilever_beam.wbjn that  *)
(* it runs and, in Mechanical, the script cantilever_mechanical.py that    *)
(* the journal sends.  The two meet only in the status file.  Workbench is *)
(* started interactively: it ends when the user closes it (or it crashes), *)
(* which stops both programs wherever they are.                            *)
(***************************************************************************)
EXTENDS AnsysFiles, Naturals

CONSTANT MaxPolls   \* iterations of the journal's wait loop (300 s / 2 s)

ASSUME MaxPollsAssumption == MaxPolls \in Nat \ {0}

VARIABLES
    wb,         \* wb[c]: the Workbench process of call c
    jnl,        \* jnl[c]: where its journal stands
    polls,      \* polls[c]: the journal's elapsed / 2, 0 outside its loop
    verdict,    \* verdict[c]: the status text the journal announced
    mech,       \* mech[c]: where its Mechanical script stands
    solved      \* solved[c]: history, the script has closed its results file

wbVars == <<wb, jnl, polls, verdict, mech, solved>>

JournalStages == {"none", "clearStatus", "clearError", "build", "send", "sending",
                  "waiting", "saving", "finished", "aborted"}

MechStages == {"none", "solve", "open", "write", "succeed", "save", "finished",
               "failing", "failed", "raised"}

WorkbenchTypeOK ==
    /\ wb \in [Calls -> {"none", "up", "ended"}]
    /\ jnl \in [Calls -> JournalStages]
    /\ polls \in [Calls -> 0 .. MaxPolls]
    /\ verdict \in [Calls -> [text : StatusTexts, by : Writers]]
    /\ mech \in [Calls -> MechStages]
    /\ solved \in [Calls -> BOOLEAN]

WorkbenchInit ==
    /\ wb = [c \in Calls |-> "none"]
    /\ jnl = [c \in Calls |-> "none"]
    /\ polls = [c \in Calls |-> 0]
    /\ verdict = [c \in Calls |-> Missing]
    /\ mech = [c \in Calls |-> "none"]
    /\ solved = [c \in Calls |-> FALSE]

Up(c) == wb[c] = "up"

\* RunWB2 -I -R cantilever_beam.wbjn
WorkbenchStarts(c) ==
    /\ wb' = [wb EXCEPT ![c] = "up"]
    /\ jnl' = [jnl EXCEPT ![c] = "clearStatus"]
    /\ UNCHANGED <<polls, verdict, mech, solved>>

\* The journal and the script are gone, and with them where they stood.
UserCloses(c) ==
    /\ Up(c)
    /\ wb' = [wb EXCEPT ![c] = "ended"]
    /\ jnl' = [jnl EXCEPT ![c] = "none"]
    /\ polls' = [polls EXCEPT ![c] = 0]
    /\ mech' = [mech EXCEPT ![c] = "none"]
    /\ UNCHANGED <<verdict, solved, fileVars>>

-----------------------------------------------------------------------------
(* cantilever_beam.wbjn *)

JnlGo(c, from, to) ==
    /\ Up(c)
    /\ jnl[c] = from
    /\ jnl' = [jnl EXCEPT ![c] = to]
    /\ UNCHANGED <<wb, solved>>

\* Windows does not remove a file that another process has open; the bare
\* except passes over that as over a file that is not there.
JournalClearsStatus(c, refusals) ==
    /\ JnlGo(c, "clearStatus", "clearError")
    /\ \E refused \in refusals : status' = IF refused THEN status ELSE Missing
    /\ UNCHANGED <<polls, verdict, mech, input, results, error>>

\* Mutant: the journal clears the old results too.
JournalClearsResults(c, refusals) ==
    /\ JnlGo(c, "clearError", "build")
    /\ error' = Missing /\ results' = NoReport
    /\ UNCHANGED <<polls, verdict, mech, input, status>>

JournalClearsError(c, refusals) ==
    /\ JnlGo(c, "clearError", "build")
    /\ \E refused \in refusals : error' = IF refused THEN error ELSE Missing
    /\ UNCHANGED <<polls, verdict, mech, input, results, status>>

\* Reset, system, SpaceClaim geometry, Refresh, model.Edit.
JournalBuilds(c) ==
    /\ JnlGo(c, "build", "send")
    /\ UNCHANGED <<polls, verdict, mech, fileVars>>

\* Any of those calls raises: the journal stops, Workbench stays up.
JournalAborts(c) ==
    /\ JnlGo(c, "build", "aborted")
    /\ UNCHANGED <<polls, verdict, mech, fileVars>>

JournalSends(c) ==
    /\ JnlGo(c, "send", "sending")
    /\ mech' = [mech EXCEPT ![c] = "solve"]
    /\ UNCHANGED <<polls, verdict, fileVars>>

\* Whether SendCommand waits for the script is Workbench's affair: it may
\* return at any time, and a script that raised may make it raise.
JournalSent(c) ==
    /\ JnlGo(c, "sending", "waiting")
    /\ UNCHANGED <<polls, verdict, mech, fileVars>>

JournalSendRaises(c) ==
    /\ mech[c] = "raised"
    /\ JnlGo(c, "sending", "aborted")
    /\ UNCHANGED <<polls, verdict, mech, fileVars>>

\* What a read of the status file shows: its text, or nothing while another
\* process is between truncating and writing it.
Seen(held) == {status} \union (IF held THEN {Missing} ELSE {})

Terminal(seen) == seen.text \in {"SUCCESS", "FAILED"}

JournalSeesVerdict(c, held) ==
    /\ polls[c] < MaxPolls
    /\ \E seen \in Seen(held) :
          /\ Terminal(seen)
          /\ verdict' = [verdict EXCEPT ![c] = seen]
    /\ polls' = [polls EXCEPT ![c] = 0]
    /\ JnlGo(c, "waiting", "saving")
    /\ UNCHANGED <<mech, fileVars>>

\* Mutant: the loop has no bound.
JournalPollsForever(c, held) ==
    /\ \E seen \in Seen(held) : ~Terminal(seen)
    /\ polls' = [polls EXCEPT ![c] = @ + 1]
    /\ JnlGo(c, "waiting", "waiting")
    /\ UNCHANGED <<verdict, mech, fileVars>>

\* Mutant: an iteration forgets elapsed += 2.
JournalForgetsElapsed(c, held) ==
    /\ \E seen \in Seen(held) : ~Terminal(seen)
    /\ JnlGo(c, "waiting", "waiting")
    /\ UNCHANGED <<polls, verdict, mech, fileVars>>

\* Mutant: a Workbench that is seen to run is waited for from the start.
JournalWaitsAnew(c, held) ==
    /\ polls[c] < MaxPolls
    /\ \E seen \in Seen(held) :
          /\ ~Terminal(seen)
          /\ polls' = [polls EXCEPT ![c] = IF seen.text = "WORKBENCH_RUNNING" THEN 0 ELSE @ + 1]
    /\ JnlGo(c, "waiting", "waiting")
    /\ UNCHANGED <<verdict, mech, fileVars>>

JournalPollsAgain(c, held) ==
    /\ polls[c] < MaxPolls
    /\ \E seen \in Seen(held) : ~Terminal(seen)
    /\ polls' = [polls EXCEPT ![c] = @ + 1]
    /\ JnlGo(c, "waiting", "waiting")
    /\ UNCHANGED <<verdict, mech, fileVars>>

JournalTimesOut(c) ==
    /\ polls[c] = MaxPolls
    /\ polls' = [polls EXCEPT ![c] = 0]
    /\ JnlGo(c, "waiting", "saving")
    /\ UNCHANGED <<verdict, mech, fileVars>>

\* Save is in a try: the journal finishes whether it raises or not, and on
\* every way out of the loop.
JournalSaves(c) ==
    /\ JnlGo(c, "saving", "finished")
    /\ UNCHANGED <<polls, verdict, mech, fileVars>>

JournalWaitStep(c, held) ==
    \/ JournalSeesVerdict(c, held) \/ JournalPollsAgain(c, held)
    \/ JournalTimesOut(c) \/ JournalSaves(c)

-----------------------------------------------------------------------------
(* cantilever_mechanical.py *)

MechGo(c, from, to) ==
    /\ Up(c)
    /\ mech[c] = from
    /\ mech' = [mech EXCEPT ![c] = to]
    /\ UNCHANGED <<wb, jnl, polls, verdict>>

\* Model, faces, support, force, mesh, solve and evaluation.
MechSolves(c) ==
    /\ MechGo(c, "solve", "open")
    /\ UNCHANGED <<solved, fileVars>>

MechOpensResults(c) ==
    /\ MechGo(c, "open", "write")
    /\ results' = Report("empty", c, Fixed)
    /\ UNCHANGED <<solved, input, status, error>>

\* The setup reported is the one written in the script.
MechWritesResults(c) ==
    /\ MechGo(c, "write", "succeed")
    /\ results' = Report("whole", c, Fixed)
    /\ solved' = [solved EXCEPT ![c] = TRUE]
    /\ UNCHANGED <<input, status, error>>

MechWritesSuccess(c) ==
    /\ MechGo(c, "succeed", "save")
    /\ status' = Note("SUCCESS", c)
    /\ UNCHANGED <<solved, input, results, error>>

MechSaves(c) ==
    /\ MechGo(c, "save", "finished")
    /\ UNCHANGED <<solved, fileVars>>

\* Mutant: the handler starts with the status file.
MechRaisesSilently(c) ==
    /\ \E stage \in {"solve", "save"} : MechGo(c, stage, "failed")
    /\ UNCHANGED <<solved, fileVars>>

\* A call to Mechanical raises: in the setup or the solve, or in the Save
\* that follows SUCCESS.
MechRaises(c) ==
    /\ \E stage \in {"solve", "save"} : MechGo(c, stage, "failing")
    /\ UNCHANGED <<solved, fileVars>>

\* A write of the results or of SUCCESS raises.
MechWriteRaises(c) ==
    /\ MayFailToWrite(c)
    /\ \/ \E stage \in {"open", "write"} : MechGo(c, stage, "failing") /\ UNCHANGED status
       \/ MechGo(c, "succeed", "failing") /\ status' \in Torn(status, c)
    /\ UNCHANGED <<solved, input, results, error>>

MechWritesError(c) ==
    /\ MechGo(c, "failing", "failed")
    /\ error' = Note("whole", c)
    /\ UNCHANGED <<solved, input, results, status>>

MechWritesFailed(c) ==
    /\ MechGo(c, "failed", "raised")
    /\ status' = Note("FAILED", c)
    /\ UNCHANGED <<solved, input, results, error>>

\* Each of the handler's two writes has an except of its own that passes.
MechHandlerPasses(c) ==
    /\ MayFailToWrite(c)
    /\ \/ MechGo(c, "failing", "failed") /\ error' \in Torn(error, c) /\ UNCHANGED status
       \/ MechGo(c, "failed", "raised") /\ status' \in Torn(status, c) /\ UNCHANGED error
    /\ UNCHANGED <<solved, input, results>>

MechStep(c) ==
    \/ MechSolves(c) \/ MechOpensResults(c) \/ MechWritesResults(c)
    \/ MechWritesSuccess(c) \/ MechSaves(c) \/ MechRaises(c) \/ MechWriteRaises(c)
    \/ MechWritesError(c) \/ MechWritesFailed(c) \/ MechHandlerPasses(c)

-----------------------------------------------------------------------------
\* The script has the status, or the error, file open at some moment of this
\* stage; a journal that polls has the status open to read.
MechHoldsStatus(c) == Up(c) /\ mech[c] \in {"succeed", "failed"}

MechHoldsError(c) == Up(c) /\ mech[c] = "failing"

\* From its opening to its closing, that is, throughout this stage.
MechHoldsResults(c) == Up(c) /\ mech[c] = "write"

JournalReads(c) == Up(c) /\ jnl[c] = "waiting"
=============================================================================
