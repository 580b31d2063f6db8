----------------------------- MODULE Controller -----------------------------
(***************************************************************************)
(* scripts/create_ansys_project.py, the process a tool runs and waits for: *)
(* it writes STARTING, reads the input, starts Workbench on the beam       *)
(* journal, writes WORKBENCH_RUNNING and polls until that process is gone. *)
(* Whatever goes wrong inside main is written to the error and status      *)
(* files, and the process still exits with code 0.                         *)
(***************************************************************************)
EXTENDS AnsysFiles

VARIABLES
    ctl,        \* ctl[c]: where the controller of call c stands
    code        \* code[c]: its exit code, None while it runs

ctlVars == <<ctl, code>>

\* "handling" and "handled" are the except block before and after its write
\* of the error file.
CtlStages == {"none", "begin", "loading", "starting", "launched", "polling",
              "handling", "handled", "exited"}

\* Inside the try of main.
Trying(c) == ctl[c] \in {"begin", "loading", "starting", "launched", "polling"}

CtlTypeOK ==
    /\ ctl \in [Calls -> CtlStages]
    /\ code \in [Calls -> {None, 0, 1}]

CtlInit ==
    /\ ctl = [c \in Calls |-> "none"]
    /\ code = [c \in Calls |-> None]

CtlGo(c, from, to) == ctl[c] = from /\ ctl' = [ctl EXCEPT ![c] = to]

CtlExit(c, from, exitCode) ==
    /\ CtlGo(c, from, "exited")
    /\ code' = [code EXCEPT ![c] = exitCode]

\* The tool spawned "python create_ansys_project.py".
CtlStart(c) == CtlGo(c, "none", "begin") /\ UNCHANGED code

\* Mutant: the first status write is left out.
SkipStarting(c) == CtlGo(c, "begin", "loading") /\ UNCHANGED <<code, fileVars>>

WriteStarting(c) ==
    /\ CtlGo(c, "begin", "loading")
    /\ status' = Note("STARTING", c)
    /\ UNCHANGED <<code, input, results, error>>

\* The loaded data is printed and never used again.
LoadInput(c) ==
    /\ input.text = "whole"
    /\ CtlGo(c, "loading", "starting")
    /\ UNCHANGED <<code, fileVars>>

\* No file, or a file another call has just truncated: json.load raises.
LoadRaises(c) ==
    /\ input.text # "whole"
    /\ CtlGo(c, "loading", "handling")
    /\ UNCHANGED <<code, fileVars>>

\* Mutant: the controller leaves once Workbench is started.
PopenAndLeave(c) == CtlExit(c, "starting", 0) /\ UNCHANGED fileVars

\* Popen; the Workbench process starts in the same step.
Popen(c) == CtlGo(c, "starting", "launched") /\ UNCHANGED <<code, fileVars>>

PopenRaises(c) == CtlGo(c, "starting", "handling") /\ UNCHANGED <<code, fileVars>>

WriteRunning(c) ==
    /\ CtlGo(c, "launched", "polling")
    /\ status' = Note("WORKBENCH_RUNNING", c)
    /\ UNCHANGED <<code, input, results, error>>

\* A status write inside the try raises, after Popen too: the handler does
\* not stop the Workbench that was started.
StatusWriteRaises(c) ==
    /\ MayFailToReport(c)
    /\ \E stage \in {"begin", "launched"} : CtlGo(c, stage, "handling")
    /\ status' \in Torn(status, c)
    /\ UNCHANGED <<code, input, results, error>>

\* Mutant: process.poll() is not looked at.
PollEndsAtOnce(c, ended) == CtlExit(c, "polling", 0) /\ UNCHANGED fileVars

\* Mutant: the loop also waits for a verdict in the status file.
PollWantsSuccess(c, ended) ==
    /\ ended /\ status.text = "SUCCESS"
    /\ CtlExit(c, "polling", 0)
    /\ UNCHANGED fileVars

\* ended: process.poll() is not None.  There is no other way out of the loop.
PollSeesEnd(c, ended) ==
    /\ ended
    /\ CtlExit(c, "polling", 0)
    /\ UNCHANGED fileVars

\* except KeyboardInterrupt: print and leave, exit code 0, Workbench stays up.
Interrupt(c) ==
    /\ MayBeInterrupted(c)
    /\ Trying(c)
    /\ CtlExit(c, ctl[c], 0)
    /\ UNCHANGED fileVars

\* The process is killed: a code that is not 0, Workbench stays up.
Kill(c) ==
    /\ MayBeInterrupted(c)
    /\ ctl[c] \notin {"none", "exited"}
    /\ CtlExit(c, ctl[c], 1)
    /\ UNCHANGED fileVars

HandlerWritesError(c) ==
    /\ CtlGo(c, "handling", "handled")
    /\ error' = Note("whole", c)
    /\ UNCHANGED <<code, input, results, status>>

HandlerWritesFailed(c) ==
    /\ CtlExit(c, "handled", 0)
    /\ status' = Note("FAILED", c)
    /\ UNCHANGED <<input, results, error>>

\* The handler itself is unprotected.
HandlerRaises(c) ==
    /\ MayFailToReport(c)
    /\ \/ CtlExit(c, "handling", 1) /\ error' \in Torn(error, c) /\ UNCHANGED status
       \/ CtlExit(c, "handled", 1) /\ status' \in Torn(status, c) /\ UNCHANGED error
    /\ UNCHANGED <<input, results>>

\* The steps a running controller takes by itself, PollSeesEnd and Popen apart.
CtlStep(c) ==
    \/ WriteStarting(c) \/ LoadInput(c) \/ LoadRaises(c) \/ PopenRaises(c)
    \/ WriteRunning(c) \/ StatusWriteRaises(c)
    \/ HandlerWritesError(c) \/ HandlerWritesFailed(c) \/ HandlerRaises(c)

CtlAccident(c) == Interrupt(c) \/ Kill(c)

\* Nothing stops the controller of c but the end of its main.
Attended(c) == ~MayFailToReport(c) /\ ~MayBeInterrupted(c)

AllAttended == \A c \in Calls : Attended(c)

\* The controller holds the status, or the error, file open for writing at
\* some moment of this stage.
CtlHoldsStatus(c) == ctl[c] \in {"begin", "launched", "handled"}

CtlHoldsError(c) == ctl[c] = "handling"
=============================================================================
