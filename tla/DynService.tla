----------------------------- MODULE DynService -----------------------------
(***************************************************************************)
(* DynPipeline implements RunService when runs are quiet: the stages of    *)
(* two programs, the journal and the status file are not seen.             *)
(***************************************************************************)
EXTENDS DynInvariant

StageOf(place) ==
    CASE place = "none" -> "idle"
      [] place = "exited" -> "over"
      [] OTHER -> "running"

BenchOf(place) ==
    CASE place = "none" -> "none"
      [] place = "ended" -> "gone"
      [] OTHER -> "up"

Text(file) == [text |-> file.text, by |-> file.by]

ToldOf(s) == [kind |-> s.kind, file |-> Text(s.file)]

Service ==
    INSTANCE RunService
        WITH stage <- [c \in Calls |-> StageOf(dyn[c])],
             bench <- [c \in Calls |-> BenchOf(wbk[c])],
             results <- Text(results),
             error <- Text(error),
             told <- [c \in Calls |-> ToldOf(said[c])]

\* Whatever fails in a run and wherever it is stopped, its Workbench finds no
\* file of an earlier run and only it and its controller write the files, the
\* results once; and the run ends once with what one of the files holds just
\* then, or with nothing.  (Quiet.)
ImplementsRuns == Service!Spec

-----------------------------------------------------------------------------
\* A run that was not launched has written nothing.
Unwritten(c) == dyn[c] \notin Launched => results.by # c /\ error.by # c

\* Nobody waits for a Workbench that was not started.
WaitsFor(c) == dyn[c] \in WaitStages => wbk[c] # "none"

BeforeOpen == {"boot", "build", "structural", "open"} \union ThermalStages

\* The script writes its results once, and what it opened stays.
WritesOnce(c) ==
    /\ wbk[c] \in BeforeOpen => ~Exists(results)
    /\ wbk[c] = "write" => results.text = "empty" /\ results.by = c
    /\ wbk[c] \in {"thermalTelling", "telling"} => Exists(error)

Orderly == \A c \in Calls : Unwritten(c) /\ WaitsFor(c) /\ WritesOnce(c)
=============================================================================
