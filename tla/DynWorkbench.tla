---------------------------- MODULE DynWorkbench ----------------------------
(***************************************************************************)
(* The Workbench process of a dynamic run, with the journal and the two    *)
(* Mechanical scripts that create_ansys_project_backup.py generates.  The  *)
(* journal sends the thermal script and then the structural one and waits  *)
(* for neither by a file: a script is taken to have ended when SendCommand *)
(* returns, so that one place says where the process stands.               *)
(***************************************************************************)
EXTENDS AnsysFiles

VARIABLES
    wbk,        \* wbk[c]: where the Workbench of run c stands
    source      \* source[c]: the run whose journal it read

wbkVars == <<wbk, source>>

\* "refresh" is the journal between the two scripts.
ThermalStages == {"thermal", "thermalFailing", "thermalTelling", "thermalRaised", "refresh"}

StructuralStages == {"structural", "open", "write", "save", "complete", "failing",
                     "telling", "raised"}

\* "idle": the journal is over, Workbench is still there.
WbkStages == {"none", "boot", "build", "idle", "ended"}
                \union ThermalStages \union StructuralStages

WbkTypeOK ==
    /\ wbk \in [Calls -> WbkStages]
    /\ source \in [Calls -> Writers]

WbkInit ==
    /\ wbk = [c \in Calls |-> "none"]
    /\ source = [c \in Calls |-> None]

Alive(c) == wbk[c] \notin {"none", "ended"}

WbkGo(c, from, to) ==
    /\ wbk[c] = from
    /\ wbk' = [wbk EXCEPT ![c] = to]
    /\ UNCHANGED source

WorkbenchStarts(c) == WbkGo(c, "none", "boot")

\* Closed by the user, or a crash.
WorkbenchEnds(c) ==
    /\ Alive(c)
    /\ WbkGo(c, wbk[c], "ended")
    /\ UNCHANGED fileVars

-----------------------------------------------------------------------------
(* The journal *)

\* Workbench reads the journal some time after it was started.  A journal cut
\* off by another run's write does nothing.
ReadJournal(c, script) ==
    /\ wbk[c] = "boot"
    /\ wbk' = [wbk EXCEPT ![c] = IF script.text = "whole" THEN "build" ELSE "idle"]
    /\ source' = [source EXCEPT ![c] = script.by]
    /\ UNCHANGED fileVars

\* thermal: the journal read has a thermal system, and sends its script first.
BuildProject(c, thermal) ==
    /\ WbkGo(c, "build", IF thermal THEN "thermal" ELSE "structural")
    /\ UNCHANGED fileVars

RefreshSetup(c) == WbkGo(c, "refresh", "structural") /\ UNCHANGED fileVars

\* A Workbench call raises: no file says so.
JournalRaises(c) ==
    /\ \E stage \in {"build", "refresh"} : WbkGo(c, stage, "idle")
    /\ UNCHANGED fileVars

\* A SendCommand whose script raised may raise itself, or return.
ThermalSent(c) ==
    /\ \E next \in {"refresh", "idle"} : WbkGo(c, "thermalRaised", next)
    /\ UNCHANGED fileVars

StructuralSent(c) == WbkGo(c, "raised", "idle") /\ UNCHANGED fileVars

-----------------------------------------------------------------------------
(* The thermal script *)

\* thermal_status.txt is written and read by nobody.
ThermalSolves(c) == WbkGo(c, "thermal", "refresh") /\ UNCHANGED fileVars

ThermalRaises(c) == WbkGo(c, "thermal", "thermalFailing") /\ UNCHANGED fileVars

ThermalOpensError(c) ==
    /\ WbkGo(c, "thermalFailing", "thermalTelling")
    /\ error' = Note("empty", c)
    /\ UNCHANGED <<input, results, status>>

ThermalWritesError(c) ==
    /\ WbkGo(c, "thermalTelling", "thermalRaised")
    /\ error' = Note("whole", c)
    /\ UNCHANGED <<input, results, status>>

-----------------------------------------------------------------------------
(* The structural script *)

StructuralSolves(c) == WbkGo(c, "structural", "open") /\ UNCHANGED fileVars

OpenResults(c) ==
    /\ WbkGo(c, "open", "write")
    /\ results' = Report("empty", c, source[c])
    /\ UNCHANGED <<input, status, error>>

WriteResults(c) ==
    /\ WbkGo(c, "write", "save")
    /\ results' = Report("whole", c, source[c])
    /\ UNCHANGED <<input, status, error>>

SaveProject(c) == WbkGo(c, "save", "complete") /\ UNCHANGED fileVars

WriteCompleted(c) ==
    /\ WbkGo(c, "complete", "idle")
    /\ status' = Note("COMPLETED", c)
    /\ UNCHANGED <<input, results, error>>

\* The solve or the save raises, or a write of one of the two files.
StructuralRaises(c) ==
    /\ \/ \E stage \in {"structural", "save"} : WbkGo(c, stage, "failing") /\ UNCHANGED status
       \/ /\ MayFailToWrite(c)
          /\ \E stage \in {"open", "write"} : WbkGo(c, stage, "failing")
          /\ UNCHANGED status
       \/ /\ MayFailToWrite(c)
          /\ WbkGo(c, "complete", "failing")
          /\ status' \in Torn(status, c)
    /\ UNCHANGED <<input, results, error>>

StructuralOpensError(c) ==
    /\ WbkGo(c, "failing", "telling")
    /\ error' = Note("empty", c)
    /\ UNCHANGED <<input, results, status>>

StructuralWritesError(c) ==
    /\ WbkGo(c, "telling", "raised")
    /\ error' = Note("whole", c)
    /\ UNCHANGED <<input, results, status>>

\* The write in either handler is unprotected: the script raises all the same.
ErrorNotWritten(c) ==
    /\ MayFailToWrite(c)
    /\ \/ \E stage \in {"thermalFailing", "thermalTelling"} : WbkGo(c, stage, "thermalRaised")
       \/ \E stage \in {"failing", "telling"} : WbkGo(c, stage, "raised")
    /\ UNCHANGED fileVars

WbkStep(c, script, thermal) ==
    \/ ReadJournal(c, script) \/ BuildProject(c, thermal) \/ RefreshSetup(c)
    \/ JournalRaises(c)
    \/ ThermalSent(c) \/ StructuralSent(c)
    \/ ThermalSolves(c) \/ ThermalRaises(c)
    \/ ThermalOpensError(c) \/ ThermalWritesError(c)
    \/ StructuralSolves(c) \/ OpenResults(c) \/ WriteResults(c) \/ SaveProject(c)
    \/ WriteCompleted(c) \/ StructuralRaises(c)
    \/ StructuralOpensError(c) \/ StructuralWritesError(c)
    \/ ErrorNotWritten(c)

-----------------------------------------------------------------------------
\* The process has the results, or the error, open throughout this stage, and the
\* status at some moment of it.
WbkHoldsResults(c) == wbk[c] = "write"

WbkHoldsError(c) == wbk[c] \in {"thermalTelling", "telling"}

WbkHoldsStatus(c) == wbk[c] = "complete"
=============================================================================
