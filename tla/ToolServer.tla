----------------------------- MODULE ToolServer -----------------------------
(***************************************************************************)
(* The tools of the two MCP servers: mcp_server/server.py and the packaged *)
(* ansys-mcpb/server.py (the calls in Packaged).  Both run a synchronous   *)
(* tool in a worker thread, so the calls of one server, and those of the   *)
(* two servers, run side by side; a request that its client abandons keeps *)
(* running.  tool[c] is where call c stands, answer[c] what it returned.   *)
(***************************************************************************)
EXTENDS AnsysFiles

CONSTANTS
    Packaged,   \* calls served by ansys-mcpb/server.py
    Serial      \* TRUE: clients start a simulation only when none is running

VARIABLES tool, answer

toolVars == <<tool, answer>>

ASSUME ServerAssumption == Packaged \subseteq Calls /\ Serial \in BOOLEAN

RunStages == {"called", "writing", "ready", "waiting", "returned", "found"}

GetStages == {"getting", "getFound"}

ToolStages == {"idle", "answered"} \union RunStages \union GetStages

AnswerKinds == {"none", "rejected", "startError", "failed", "noResults",
                "results", "readError", "raised"}

Answer(kind, file) == [kind |-> kind, file |-> file]

Silent == Answer("none", NoReport)

ToolTypeOK ==
    /\ tool \in [Calls -> ToolStages]
    /\ answer \in [Calls -> [kind : AnswerKinds,
                             file : [text : DataTexts, by : Writers,
                                     of : Writers \union {Fixed}]]]

ToolInit ==
    /\ tool = [c \in Calls |-> "idle"]
    /\ answer = [c \in Calls |-> Silent]

Running(c) == tool[c] \in RunStages

Go(c, from, to) == tool[c] = from /\ tool' = [tool EXCEPT ![c] = to]

Return(c, from, kind, file) ==
    /\ Go(c, from, "answered")
    /\ answer' = [answer EXCEPT ![c] = Answer(kind, file)]

-----------------------------------------------------------------------------
(* run_ansys_simulation *)

CallRun(c) ==
    /\ Serial => \A d \in Calls : ~Running(d)
    /\ Go(c, "idle", "called")
    /\ UNCHANGED <<answer, fileVars>>

\* The packaged server alone answers at once when the shape is blank, the
\* controller script is missing or Workbench is not installed.
RejectRun(c) ==
    /\ c \in Packaged
    /\ Return(c, "called", "rejected", NoReport)
    /\ UNCHANGED fileVars

OpenInput(c) ==
    /\ Go(c, "called", "writing")
    /\ input' = Note("empty", c)
    /\ UNCHANGED <<answer, results, status, error>>

CloseInput(c) ==
    /\ Go(c, "writing", "ready")
    /\ input' = Note("whole", c)
    /\ UNCHANGED <<answer, results, status, error>>

\* Neither server writes the input inside a try: the exception becomes an
\* error result of the call.
InputRaises(c) ==
    /\ MayFailToWrite(c)
    /\ \E stage \in {"called", "writing"} : Return(c, stage, "raised", NoReport)
    /\ UNCHANGED fileVars

Spawn(c) ==
    /\ Go(c, "ready", "waiting")
    /\ UNCHANGED <<answer, fileVars>>

SpawnFails(c) ==
    /\ Return(c, "ready", IF c \in Packaged THEN "startError" ELSE "raised", NoReport)
    /\ UNCHANGED fileVars

\* subprocess.run has returned: the controller's exit code is all the tool
\* learns of the run.
ReportFailure(c, exitCode) ==
    /\ exitCode # 0
    /\ Return(c, "waiting", "failed", NoReport)
    /\ UNCHANGED fileVars

ControllerReturned(c, exitCode) ==
    /\ exitCode = 0
    /\ Go(c, "waiting", "returned")
    /\ UNCHANGED <<answer, fileVars>>

ResultsMissing(c) ==
    /\ ~Exists(results)
    /\ Return(c, "returned", "noResults", NoReport)
    /\ UNCHANGED fileVars

ResultsFound(c) ==
    /\ Exists(results)
    /\ Go(c, "returned", "found")
    /\ UNCHANGED <<answer, fileVars>>

\* The file may have gone since exists(): read_text() then raises.
ReadResults(c) ==
    /\ Return(c, "found", IF Exists(results) THEN "results" ELSE "raised", results)
    /\ UNCHANGED fileVars

-----------------------------------------------------------------------------
(* get_ansys_results *)

CallGet(c) ==
    /\ Go(c, "idle", "getting")
    /\ UNCHANGED <<answer, fileVars>>

GetNothing(c) ==
    /\ ~Exists(results)
    /\ Return(c, "getting", "noResults", NoReport)
    /\ UNCHANGED fileVars

GetFound(c) ==
    /\ Exists(results)
    /\ Go(c, "getting", "getFound")
    /\ UNCHANGED <<answer, fileVars>>

\* The packaged server has a try around the read, the other has none.
Unreadable(c) == IF c \in Packaged THEN "readError" ELSE "raised"

GetResults(c) ==
    /\ Return(c, "getFound", IF Exists(results) THEN "results" ELSE Unreadable(c), results)
    /\ UNCHANGED fileVars

\* The tool has the results file open at some moment of this stage.
ToolHoldsResults(c) == tool[c] \in {"found", "getFound"}

-----------------------------------------------------------------------------
\* The steps a tool takes by itself once called.
ToolStep(c) ==
    \/ RejectRun(c) \/ OpenInput(c) \/ CloseInput(c) \/ InputRaises(c)
    \/ SpawnFails(c)
    \/ ResultsMissing(c) \/ ResultsFound(c) \/ ReadResults(c)
    \/ GetNothing(c) \/ GetFound(c) \/ GetResults(c)
=============================================================================
