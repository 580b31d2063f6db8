--------------------------- MODULE DynController ---------------------------
(***************************************************************************)
(* scripts/create_ansys_project_backup.py, the controller that builds a    *)
(* simulation from the input: it removes the three files of the last run,  *)
(* validates the input, writes the journal, starts Workbench on it and     *)
(* polls for an error or a results file, 1800 s at most.  It does not wait *)
(* for Workbench to end.  A call is here one start of this script.         *)
(***************************************************************************)
EXTENDS AnsysFiles, InputValidation, Naturals

CONSTANTS
    MaxWaits,   \* iterations of the wait loop before the timeout
    Edits       \* the requests the input file may hold when it is loaded

ASSUME MaxWaitsAssumption == MaxWaits \in Nat

ASSUME EditsAssumption == Edits \subseteq Requests /\ None \notin Requests

VARIABLES
    script,     \* scripts/dynamic_simulation.wbjn, one path for every run
    dyn,        \* dyn[c]: where the controller of run c stands
    wanted,     \* wanted[c]: the request it loaded, None before
    waits,      \* waits[c]: iterations of its wait loop
    said        \* said[c]: how it ended, and the file it printed

dynVars == <<script, dyn, wanted, waits, said>>

ScriptTexts == DataTexts

RemoveStages == {"unlinkResults", "unlinkStatus", "unlinkError"}

PrepareStages == {"load", "prepare", "openScript", "writeScript", "launch"}

WaitStages == {"checkError", "checkResults", "checkStatus", "readStatus",
               "checkProcess", "lastResults", "lastError", "checkTime"}

\* Inside the try of main; "handling" is its except block.
TryStages == PrepareStages \union WaitStages \union {"reading", "failing", "readError"}

DynStages == {"none", "handling", "exited"} \union RemoveStages \union TryStages

\* "raised" and "stopped" end with an exit code other than 0.
Endings == {"none", "completed", "failed", "timeout", "error", "raised", "stopped"}

Said(kind, file) == [kind |-> kind, file |-> file]

\* What was printed of the error file, in the shape of a results text.
ErrorText(file) == Report(file.text, file.by, file.by)

DynTypeOK ==
    /\ script \in [text : ScriptTexts, by : Writers]
    /\ dyn \in [Calls -> DynStages]
    /\ wanted \in [Calls -> Edits \union {None}]
    /\ waits \in [Calls -> 0 .. MaxWaits]
    /\ said \in [Calls -> [kind : Endings,
                           file : [text : DataTexts, by : Writers,
                                   of : Writers \union {Fixed}]]]

DynInit ==
    /\ script = Note("whole", None)
    /\ dyn = [c \in Calls |-> "none"]
    /\ wanted = [c \in Calls |-> None]
    /\ waits = [c \in Calls |-> 0]
    /\ said = [c \in Calls |-> Said("none", NoReport)]

Working(c) == dyn[c] \notin {"none", "exited"}

DynGo(c, from, to) ==
    /\ dyn[c] = from
    /\ dyn' = [dyn EXCEPT ![c] = to]
    /\ UNCHANGED <<script, wanted, said>>

DynEnd(c, from, ending, file) ==
    /\ dyn[c] = from
    /\ dyn' = [dyn EXCEPT ![c] = "exited"]
    /\ said' = [said EXCEPT ![c] = Said(ending, file)]
    /\ UNCHANGED <<script, wanted, waits>>

-----------------------------------------------------------------------------
(* Before the try *)

RunStarts(c) == DynGo(c, "none", "unlinkResults") /\ UNCHANGED <<waits, fileVars>>

\* A removal that the system refuses raises, outside the try.
Unlinks(file, refusals) == Exists(file) => FALSE \in refusals

\* Mutant: the results of the last run stay.
UnlinkNothing(c, refusals) ==
    /\ DynGo(c, "unlinkResults", "unlinkStatus")
    /\ UNCHANGED <<waits, fileVars>>

UnlinkResults(c, refusals) ==
    /\ DynGo(c, "unlinkResults", "unlinkStatus")
    /\ Unlinks(results, refusals)
    /\ results' = NoReport
    /\ UNCHANGED <<waits, input, status, error>>

UnlinkStatus(c, refusals) ==
    /\ DynGo(c, "unlinkStatus", "unlinkError")
    /\ Unlinks(status, refusals)
    /\ status' = Missing
    /\ UNCHANGED <<waits, input, results, error>>

\* Mutant: only the results and the status are removed.
UnlinkTwo(c, refusals) ==
    /\ DynGo(c, "unlinkError", "load")
    /\ UNCHANGED <<waits, fileVars>>

UnlinkError(c, refusals) ==
    /\ DynGo(c, "unlinkError", "load")
    /\ Unlinks(error, refusals)
    /\ error' = Missing
    /\ UNCHANGED <<waits, input, results, status>>

\* The exception ends the script, and no file says so.
UnlinkRaises(c, ofResults, ofStatus, ofError) ==
    /\ \/ /\ DynEnd(c, "unlinkResults", "raised", NoReport)
          /\ Exists(results) /\ TRUE \in ofResults
       \/ /\ DynEnd(c, "unlinkStatus", "raised", NoReport)
          /\ Exists(status) /\ TRUE \in ofStatus
       \/ /\ DynEnd(c, "unlinkError", "raised", NoReport)
          /\ Exists(error) /\ TRUE \in ofError
    /\ UNCHANGED fileVars

UnlinkStep(c, ofResults, ofStatus, ofError) ==
    \/ UnlinkResults(c, ofResults) \/ UnlinkStatus(c, ofStatus) \/ UnlinkError(c, ofError)
    \/ UnlinkRaises(c, ofResults, ofStatus, ofError)

-----------------------------------------------------------------------------
(* Preparing the run *)

\* The file is edited by hand, or by a tool of a server, between the runs.
LoadInput(c) ==
    /\ input.text = "whole"
    /\ dyn[c] = "load"
    /\ dyn' = [dyn EXCEPT ![c] = "prepare"]
    /\ \E r \in Edits : wanted' = [wanted EXCEPT ![c] = r]
    /\ UNCHANGED <<script, waits, said, fileVars>>

\* Mutant: a conversion that raises in a generator is passed over.
PrepareAccepted(c) ==
    /\ DynGo(c, "prepare", "openScript")
    /\ Accepted(wanted[c])
    /\ UNCHANGED <<waits, fileVars>>

\* validate_input and create_workbench_script return.
Prepare(c) ==
    /\ DynGo(c, "prepare", "openScript")
    /\ Runs(wanted[c])
    /\ UNCHANGED <<waits, fileVars>>

OpenScript(c) ==
    /\ dyn[c] = "openScript"
    /\ dyn' = [dyn EXCEPT ![c] = "writeScript"]
    /\ script' = Note("empty", c)
    /\ UNCHANGED <<wanted, waits, said, fileVars>>

WriteScript(c) ==
    /\ dyn[c] = "writeScript"
    /\ dyn' = [dyn EXCEPT ![c] = "launch"]
    /\ script' = Note("whole", c)
    /\ UNCHANGED <<wanted, waits, said, fileVars>>

\* The joint step with the start of Workbench.
Launch(c) == DynGo(c, "launch", "checkError") /\ UNCHANGED <<waits, fileVars>>

\* No input or a half written one; a request that validation or a generator
\* does not take; a write of the journal that fails; no Workbench.
PrepareRaises(c) ==
    /\ \/ input.text # "whole" /\ DynGo(c, "load", "handling")
       \/ DynGo(c, "prepare", "handling") /\ ~Runs(wanted[c])
       \/ /\ MayFailToWrite(c)
          /\ \E stage \in {"openScript", "writeScript"} : DynGo(c, stage, "handling")
       \/ DynGo(c, "launch", "handling")
    /\ UNCHANGED <<waits, fileVars>>

-----------------------------------------------------------------------------
(* wait_for_result *)

\* A check is one step and what it leads to another's guard: files come and
\* go between two checks.
Check(c, stage, holds, ifSo, ifNot) ==
    /\ DynGo(c, stage, IF holds THEN ifSo ELSE ifNot)
    /\ UNCHANGED <<waits, fileVars>>

CheckError(c) == Check(c, "checkError", Exists(error), "failing", "checkResults")

CheckResults(c) == Check(c, "checkResults", Exists(results), "reading", "checkStatus")

CheckStatus(c) == Check(c, "checkStatus", Exists(status), "readStatus", "checkProcess")

\* read_text() raises if the file went since exists().
ReadStatus(c) == Check(c, "readStatus", Exists(status), "checkProcess", "handling")

\* A process that ended without either file is waited for all the same.
CheckProcess(c, ended) == Check(c, "checkProcess", ended, "lastResults", "checkTime")

LastResults(c) == Check(c, "lastResults", Exists(results), "reading", "lastError")

\* Mutant: a process that ended without results has failed.
EndedIsFailed(c) == Check(c, "lastError", TRUE, "failing", "checkTime")

LastError(c) == Check(c, "lastError", Exists(error), "failing", "checkTime")

\* Mutant: the start time is taken in the loop.
WaitForgetsTime(c) ==
    DynGo(c, "checkTime", "checkError") /\ UNCHANGED <<waits, fileVars>>

\* Mutant: the elapsed time is never looked at.
WaitForever(c) ==
    /\ waits' = [waits EXCEPT ![c] = @ + 1]
    /\ DynGo(c, "checkTime", "checkError")
    /\ UNCHANGED fileVars

WaitAgain(c) ==
    /\ waits[c] < MaxWaits
    /\ waits' = [waits EXCEPT ![c] = @ + 1]
    /\ DynGo(c, "checkTime", "checkError")
    /\ UNCHANGED fileVars

WaitStep(c, ended) ==
    \/ CheckError(c) \/ CheckResults(c) \/ CheckStatus(c) \/ ReadStatus(c)
    \/ CheckProcess(c, ended) \/ LastResults(c) \/ LastError(c) \/ WaitAgain(c)

-----------------------------------------------------------------------------
(* The end of main *)

\* After the timeout main prints the error file if there is one.
TimeOut(c) ==
    /\ waits[c] = MaxWaits
    /\ \/ ~Exists(error) /\ DynEnd(c, "checkTime", "timeout", NoReport)
       \/ Exists(error) /\ DynGo(c, "checkTime", "readError") /\ UNCHANGED waits
    /\ UNCHANGED fileVars

\* wait_for_result saw the error file; main looks for it once more.
ReportFailure(c) ==
    /\ \/ ~Exists(error) /\ DynEnd(c, "failing", "failed", NoReport)
       \/ Exists(error) /\ DynGo(c, "failing", "readError") /\ UNCHANGED waits
    /\ UNCHANGED fileVars

PrintError(c) ==
    /\ \/ Exists(error) /\ DynEnd(c, "readError", "failed", ErrorText(error))
       \/ ~Exists(error) /\ DynGo(c, "readError", "handling") /\ UNCHANGED waits
    /\ UNCHANGED fileVars

PrintResults(c) ==
    /\ \/ Exists(results) /\ DynEnd(c, "reading", "completed", results)
       \/ ~Exists(results) /\ DynGo(c, "reading", "handling") /\ UNCHANGED waits
    /\ UNCHANGED fileVars

\* except Exception: exit code 0.
HandlerWrites(c) ==
    /\ error' = Note("whole", c)
    /\ DynEnd(c, "handling", "error", Report("whole", c, c))
    /\ UNCHANGED <<input, results, status>>

HandlerRaises(c) ==
    /\ MayFailToWrite(c)
    /\ DynEnd(c, "handling", "raised", NoReport)
    /\ error' \in Torn(error, c)
    /\ UNCHANGED <<input, results, status>>

\* Ctrl-C, which the except clause does not take, or a kill: Workbench stays.
Stop(c) ==
    /\ MayBeInterrupted(c)
    /\ Working(c)
    /\ DynEnd(c, dyn[c], "stopped", NoReport)
    /\ UNCHANGED fileVars

DynStep(c) ==
    \/ LoadInput(c) \/ Prepare(c) \/ OpenScript(c) \/ WriteScript(c)
    \/ PrepareRaises(c)
    \/ TimeOut(c) \/ ReportFailure(c) \/ PrintError(c) \/ PrintResults(c)
    \/ HandlerWrites(c) \/ HandlerRaises(c)

\* The controller has the file open at some moment of this stage.
DynHoldsResults(c) == dyn[c] = "reading"

DynHoldsStatus(c) == dyn[c] = "readStatus"

DynHoldsError(c) == dyn[c] \in {"readError", "handling"}
=============================================================================
