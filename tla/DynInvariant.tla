---------------------------- MODULE DynInvariant ----------------------------
(***************************************************************************)
(* The inductive invariants behind the safety properties of DynPipeline:   *)
(* Validated for every discipline, Own for quiet runs.                     *)
(***************************************************************************)
EXTENDS DynPipeline

BeforeResults == {"none", "unlinkResults"}

BeforeError == BeforeResults \union {"unlinkStatus", "unlinkError"}

Launched == WaitStages \union {"reading", "failing", "readError", "handling", "exited"}

Unread == BeforeError \union {"load"}

Checked(c) == wanted[c] # None /\ Runs(wanted[c])

\* A journal is only generated from a checked request, and the request of a
\* run does not change after that: every journal on the shared path that this
\* session wrote, and every journal a Workbench has read, is of such a run.
Validated ==
    \A c \in Calls :
        /\ dyn[c] \in Unread => wanted[c] = None
        /\ dyn[c] = "prepare" => wanted[c] # None
        /\ dyn[c] \in {"openScript", "writeScript", "launch"} => Checked(c)
        /\ script.by = c \/ wbk[c] # "none" => Checked(c)
        /\ \A d \in Calls : source[d] = c => Checked(c)

Active(c) == Working(c) \/ Alive(c)

OneActive == \A c, d \in Calls : Active(c) /\ Active(d) => c = d

\* A Workbench is there only after its controller launched it.
LaunchedFirst(c) == wbk[c] # "none" => dyn[c] \in Launched

OwnScript(c) ==
    /\ dyn[c] = "launch" \/ wbk[c] = "boot" => script = Note("whole", c)
    /\ Alive(c) /\ wbk[c] # "boot" => source[c] = c

\* Past its removals, what the active run finds is its own.
OwnFiles(c) ==
    Active(c) =>
        /\ dyn[c] \notin BeforeResults /\ Exists(results) => results.by = c /\ results.of = c
        /\ dyn[c] \notin BeforeError /\ Exists(error) => error.by = c

\* An error file that was seen stays.
ErrorStays(c) == dyn[c] \in {"failing", "readError"} => Exists(error)

Own ==
    /\ OneActive
    /\ \A c \in Calls : LaunchedFirst(c) /\ OwnScript(c) /\ OwnFiles(c) /\ ErrorStays(c)

-----------------------------------------------------------------------------
(* How much of a run is left *)

\* The checks that are left of an iteration of the wait loop.
ChecksLeft(c) ==
    CASE dyn[c] = "checkError" -> 8
      [] dyn[c] = "checkResults" -> 7
      [] dyn[c] = "checkStatus" -> 6
      [] dyn[c] = "readStatus" -> 5
      [] dyn[c] = "checkProcess" -> 4
      [] dyn[c] = "lastResults" -> 3
      [] dyn[c] = "lastError" -> 2
      [] OTHER -> 1

StagesLeft(c) ==
    CASE dyn[c] = "none" -> 9
      [] dyn[c] = "unlinkResults" -> 8
      [] dyn[c] = "unlinkStatus" -> 7
      [] dyn[c] = "unlinkError" -> 6
      [] dyn[c] = "load" -> 5
      [] dyn[c] = "prepare" -> 4
      [] dyn[c] = "openScript" -> 3
      [] dyn[c] = "writeScript" -> 2
      [] OTHER -> 1

\* Before the loop, in it and after it.
ControllerLeft(c) ==
    CASE dyn[c] \in BeforeError \union PrepareStages -> 8 * MaxWaits + 11 + StagesLeft(c)
      [] dyn[c] \in WaitStages -> 8 * (MaxWaits - waits[c]) + 3 + ChecksLeft(c)
      [] dyn[c] = "failing" -> 3
      [] dyn[c] \in {"reading", "readError"} -> 2
      [] dyn[c] = "handling" -> 1
      [] OTHER -> 0

WorkbenchLeft(c) ==
    CASE wbk[c] = "none" -> 17
      [] wbk[c] = "boot" -> 16
      [] wbk[c] = "build" -> 15
      [] wbk[c] = "thermal" -> 14
      [] wbk[c] = "thermalFailing" -> 13
      [] wbk[c] = "thermalTelling" -> 12
      [] wbk[c] = "thermalRaised" -> 11
      [] wbk[c] = "refresh" -> 10
      [] wbk[c] = "structural" -> 9
      [] wbk[c] = "open" -> 8
      [] wbk[c] = "write" -> 7
      [] wbk[c] = "save" -> 6
      [] wbk[c] = "complete" -> 5
      [] wbk[c] = "failing" -> 4
      [] wbk[c] = "telling" -> 3
      [] wbk[c] = "raised" -> 2
      [] wbk[c] = "idle" -> 1
      [] OTHER -> 0

Left(c) == ControllerLeft(c) + WorkbenchLeft(c)

Counts(c) ==
    /\ Left(c)' \in 0 .. Left(c) - 1
    /\ \A d \in Calls \ {c} : Left(d)' = Left(d)

\* However runs overlap and whatever fails, every step brings one run nearer its
\* end and takes no other back: no file that comes and goes under the checks of
\* wait_for_result keeps it beyond its time.
EveryStepCounts == [][\E c \in Calls : Counts(c)]_vars
=============================================================================
