---------------------------- MODULE SharedFolder ----------------------------
(***************************************************************************)
(* Both pipelines over the same four files.  A call is a simulation or a   *)
(* look at the results through a tool, or a start of the dynamic           *)
(* controller by hand, at any time: neither side knows of the other, and   *)
(* meets it only in the texts it finds and in the removals it is refused.  *)
(***************************************************************************)
EXTENDS BeamPipeline

CONSTANTS MaxWaits, Edits   \* of the dynamic pipeline

VARIABLES script, dyn, wanted, waits, said, wbk, source

Dyn == INSTANCE DynPipeline WITH Discipline <- "free"

ASSUME MaxWaitsAssumption == MaxWaits \in Nat

ASSUME EditsAssumption == Edits \subseteq Dyn!Requests /\ None \notin Dyn!Requests

dynamicVars == <<script, dyn, wanted, waits, said, wbk, source>>

beamVars == <<toolVars, ctlVars, wbVars>>

folderVars == <<fileVars, beamVars, dynamicVars>>

FolderInit == Init /\ Dyn!Init

-----------------------------------------------------------------------------
(* Who has a file open when c, a run or the journal of a call, removes it *)

ResultsRefusals(c) ==
    Refusals(\E d \in Calls : MechHoldsResults(d) \/ Dyn!WbkHoldsResults(d),
             \E d \in Calls : ToolHoldsResults(d) \/ (d # c /\ Dyn!DynHoldsResults(d)))

SomeStatusWritten == StatusWritten \/ \E d \in Calls : Dyn!WbkHoldsStatus(d)

StatusRefusals(c) ==
    Refusals(FALSE, \/ StatusOpen(c)
                    \/ \E d \in Calls : Dyn!WbkHoldsStatus(d) \/ (d # c /\ Dyn!DynHoldsStatus(d)))

ErrorRefusals(c) ==
    Refusals(\E d \in Calls : Dyn!WbkHoldsError(d),
             ErrorOpen \/ \E d \in Calls \ {c} : Dyn!DynHoldsError(d))

-----------------------------------------------------------------------------
BeamMoves(c) ==
    /\ dyn[c] = "none"
    /\ \/ ToolMoves(c) \/ ControllerMoves(c) \/ WorkbenchMoves(c)
       \/ JournalClears(c, StatusRefusals(c), ErrorRefusals(c))
       \/ JournalWaits(c, SomeStatusWritten)
    /\ UNCHANGED dynamicVars

DynamicMoves(c) ==
    /\ tool[c] = "idle"
    /\ \/ Dyn!ControllerMoves(c) \/ Dyn!WorkbenchMoves(c)
       \/ Dyn!ControllerUnlinks(c, ResultsRefusals(c), StatusRefusals(c), ErrorRefusals(c))
    /\ UNCHANGED beamVars

NothingLeft(c) ==
    \/ tool[c] = "answered" /\ ctl[c] \in {"none", "exited"} /\ ~Up(c)
    \/ dyn[c] = "exited" /\ ~Dyn!Alive(c)

AllDone == (\A c \in Calls : NothingLeft(c)) /\ UNCHANGED folderVars

FolderNext == (\E c \in Calls : BeamMoves(c) \/ DynamicMoves(c)) \/ AllDone

FolderSpec == FolderInit /\ [][FolderNext]_folderVars

-----------------------------------------------------------------------------
(* Properties *)

\* Some run is past the removal of the results, which no other step takes away, or
\* has ended at it.
SomeRunRemoved == \E d \in Calls : dyn[d] \notin {"none", "unlinkResults"}

\* Whatever overlaps, a simulation that solved is answered with results of this
\* session, unless a run has removed them since: never with what an earlier
\* session left, and never with the message of a failure.
SolvedIsNotOld ==
    \A c \in Calls :
        Attended(c) /\ solved[c] /\ tool[c] = "answered" =>
            \/ answer[c].kind = "results" /\ answer[c].file.by # None
            \/ answer[c].kind \in {"noResults", "raised"} /\ SomeRunRemoved

\* Whatever tools and runs overlap, nothing that an earlier session left is
\* printed by a run.
PrintedIsNotOld == \A c \in Calls : Exists(said[c].file) => said[c].file.by # None

\* Results that a tool has seen are not there any more when it reads them only
\* if a run has come to the end of its first removal: no step of a tool, a controller or
\* a journal takes them away.
OnlyRunsRemove ==
    \A c \in Calls : ToolHoldsResults(c) /\ ~Exists(results) => SomeRunRemoved

-----------------------------------------------------------------------------
(* What the source says of itself and the code does not do *)

\* "Read the latest ANSYS simulation results.": get_ansys_results has seen that
\* the file exists, and reads it without a try.
GetNeverRaises ==
    \A c \in Calls : tool[c] = "getFound" => Exists(results)
=============================================================================
