----------------------------- MODULE AnsysFiles -----------------------------
(***************************************************************************)
(* The files every part of the system talks through: simulation_input.json *)
(* and, under results, analysis_results.txt, simulation_status.txt and     *)
(* simulation_error.txt.  No lock protects them and every call of a tool   *)
(* uses the same four paths, so a text keeps the call that wrote it.       *)
(***************************************************************************)
CONSTANTS
    Calls,      \* tool calls, over all clients and both MCP servers
    None,       \* "no call": what is left from before the first call
    Fixed,      \* the beam written in the source, which no call asked for
    Faults,     \* which rare failures may befall which call's processes
    Leftovers   \* the texts that earlier sessions may have left on disk

VARIABLES
    input,      \* simulation_input.json
    results,    \* results/analysis_results.txt
    status,     \* results/simulation_status.txt
    error       \* results/simulation_error.txt

fileVars == <<input, results, status, error>>

ASSUME CallsAssumption == None \notin Calls /\ Fixed \notin Calls /\ None # Fixed

\* Opening or writing a file raises (disk full, sharing violation): "report"
\* in the beam controller, "write" in every other program.  "interrupt": Ctrl-C
\* or a kill reaches the controller process.
ASSUME FaultsAssumption == Faults \subseteq {"write", "report", "interrupt"} \X Calls

Writers == Calls \union {None}

\* An open(..., "w") truncates before the text arrives: a reader in between
\* finds the file there and "empty".
DataTexts == {"absent", "empty", "whole"}

\* COMPLETED is the dynamic pipeline's word for SUCCESS.
StatusTexts == {"absent", "empty", "STARTING", "WORKBENCH_RUNNING", "SUCCESS", "FAILED",
                "COMPLETED"}

ASSUME LeftoversAssumption ==
    Leftovers \subseteq
        [input : DataTexts, results : DataTexts, status : StatusTexts, error : DataTexts]

Note(text, c) == [text |-> text, by |-> c]

Missing == Note("absent", None)

\* A results text says by which run it was written and whose request it is of.
Report(text, c, request) == [text |-> text, by |-> c, of |-> request]

NoReport == Report("absent", None, None)

Exists(file) == file.text # "absent"

FilesTypeOK ==
    /\ input \in [text : DataTexts, by : Writers]
    /\ results \in [text : DataTexts, by : Writers, of : Writers \union {Fixed}]
    /\ status \in [text : StatusTexts, by : Writers]
    /\ error \in [text : DataTexts, by : Writers]

\* Nothing clears the directory between sessions, and a session may have been
\* cut off at any point.
FilesInit ==
    \E left \in Leftovers :
        /\ input = Note(left.input, None)
        /\ results = Report(left.results, None, None)
        /\ status = Note(left.status, None)
        /\ error = Note(left.error, None)

\* What a write that raised leaves of a file: it may have truncated it.
Torn(file, c) == {file, Note("empty", c)}

\* The answers the system may give to the removal of a file, TRUE a refusal: a
\* file that another process has open is not removed, one that it opens and
\* closes within the stage it is in may not be.
Refusals(open, opened) == IF open THEN {TRUE} ELSE IF opened THEN BOOLEAN ELSE {FALSE}

MayFailToWrite(c) == <<"write", c>> \in Faults

MayFailToReport(c) == <<"report", c>> \in Faults

MayBeInterrupted(c) == <<"interrupt", c>> \in Faults
=============================================================================
