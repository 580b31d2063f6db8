---------------------------- MODULE BeamInvariant ----------------------------
(***************************************************************************)
(* The inductive invariants behind the safety properties of BeamPipeline.  *)
(* Chain is about the calls whose controller nothing stops; Alone needs    *)
(* that this holds for all of them and that calls come one at a time.      *)
(***************************************************************************)
EXTENDS BeamPipeline

\* Before its controller is spawned a run has no controller, while it waits
\* it has one, and a controller that runs has its tool waiting.
ToolHasController(c) ==
    /\ tool[c] \in {"idle", "called", "writing", "ready", "getting", "getFound"} =>
          ctl[c] = "none"
    /\ tool[c] \in {"waiting", "returned", "found"} => ctl[c] # "none"
    /\ ctl[c] \notin {"none", "exited"} => tool[c] = "waiting"
    /\ code[c] = IF ctl[c] = "exited" THEN 0 ELSE None

\* A Workbench is started by a controller that then watches it to its end.
ControllerHasWorkbench(c) ==
    /\ ctl[c] \in {"none", "begin", "loading", "starting", "handling", "handled"} =>
          wb[c] = "none"
    /\ ctl[c] \in {"launched", "polling"} => wb[c] # "none"
    /\ Up(c) => ctl[c] \in {"launched", "polling"}

\* The journal sends the script once, and the script closes its results once.
WorkbenchRunsOnce(c) ==
    /\ wb[c] = "none" => ~solved[c] /\ verdict[c] = Missing
    /\ ~Up(c) => jnl[c] = "none" /\ mech[c] = "none"
    /\ jnl[c] \in {"clearStatus", "clearError", "build", "send"} => mech[c] = "none"
    /\ Up(c) /\ mech[c] \in {"none", "solve", "open", "write"} => ~solved[c]

Linked(c) == ToolHasController(c) /\ ControllerHasWorkbench(c) /\ WorkbenchRunsOnce(c)

Chain == \A c \in Calls : Attended(c) => Linked(c)

\* The beam programs alone never take the results away.
SeenIsThere == \A c \in Calls : ToolHoldsResults(c) => Exists(results)

OneRun == \A c, d \in Calls : Running(c) /\ Running(d) => c = d

\* The results on disk are those of the run in progress as soon as it solved.
OwnResultsOnDisk ==
    \A c \in Calls : solved[c] /\ Running(c) => results = Report("whole", c, Fixed)

\* While a controller works, the status is its run's or gone.
OwnStatus ==
    \A c \in Calls :
        /\ ctl[c] \in {"loading", "starting", "handling", "handled"} =>
              status = Note("STARTING", c)
        /\ ctl[c] \in {"launched", "polling"} => status = Missing \/ status.by = c
        /\ Up(c) /\ status.text = "FAILED" => mech[c] = "raised"

\* Both handlers write the error before they write FAILED.
ErrorFirst ==
    \A c \in Calls :
        ctl[c] = "handled" \/ (mech[c] = "failed" /\ ~MayFailToWrite(c)) =>
            error = Note("whole", c)

\* A run opens its results once, and what it opened stays torn until it has
\* written it.
Unopened(c) == wb[c] = "none" \/ (Up(c) /\ mech[c] \in {"none", "solve", "open"})

WrittenOnce ==
    \A c \in Calls :
        /\ Unopened(c) => results.by # c
        /\ Up(c) /\ mech[c] = "write" => results = Report("empty", c, Fixed)

Alone ==
    /\ OneRun
    /\ OwnResultsOnDisk /\ FreshWhenSolved
    /\ OwnStatus /\ VerdictIsOwn
    /\ ErrorFirst /\ FailureExplained

-----------------------------------------------------------------------------
(* How much of a call is left *)

ToolLeft(c) ==
    CASE tool[c] = "idle" -> 7
      [] tool[c] = "called" -> 6
      [] tool[c] = "writing" -> 5
      [] tool[c] = "ready" -> 4
      [] tool[c] = "waiting" -> 3
      [] tool[c] \in {"returned", "getting"} -> 2
      [] tool[c] \in {"found", "getFound"} -> 1
      [] OTHER -> 0

\* Before the script is sent the journal counts for both.
JournalLeft(c) ==
    CASE jnl[c] = "clearStatus" -> MaxPolls + 14
      [] jnl[c] = "clearError" -> MaxPolls + 13
      [] jnl[c] = "build" -> MaxPolls + 12
      [] jnl[c] = "send" -> MaxPolls + 11
      [] jnl[c] = "sending" -> MaxPolls + 3
      [] jnl[c] = "waiting" -> MaxPolls - polls[c] + 2
      [] jnl[c] = "saving" -> 1
      [] OTHER -> 0

MechLeft(c) ==
    CASE mech[c] = "solve" -> 7
      [] mech[c] = "open" -> 6
      [] mech[c] = "write" -> 5
      [] mech[c] = "succeed" -> 4
      [] mech[c] = "save" -> 3
      [] mech[c] = "failing" -> 2
      [] mech[c] = "failed" -> 1
      [] OTHER -> 0

WorkbenchLeft(c) == IF Up(c) THEN 1 + JournalLeft(c) + MechLeft(c) ELSE 0

\* Before Popen the controller counts for its Workbench too.
ControllerLeft(c) ==
    CASE ctl[c] = "none" -> MaxPolls + 30
      [] ctl[c] = "begin" -> MaxPolls + 29
      [] ctl[c] = "loading" -> MaxPolls + 28
      [] ctl[c] = "starting" -> MaxPolls + 27
      [] ctl[c] = "launched" -> 4
      [] ctl[c] = "polling" -> 3
      [] ctl[c] = "handling" -> 2
      [] ctl[c] = "handled" -> 1
      [] OTHER -> 0

Left(c) == ToolLeft(c) + ControllerLeft(c) + WorkbenchLeft(c)

Counts(c) ==
    /\ Left(c)' \in 0 .. Left(c) - 1
    /\ \A d \in Calls \ {c} : Left(d)' = Left(d)

\* No process goes round in circles: whatever calls overlap, whatever fails and
\* whenever Workbench is closed, every step of the system brings one call nearer
\* its end and takes no other back.  The journal's loop is the one there is.
EveryStepCounts == [][\E c \in Calls : Counts(c)]_vars
=============================================================================
