----------------------------- MODULE BeamService -----------------------------
(***************************************************************************)
(* BeamPipeline implements SimulationService when simulations come one at  *)
(* a time and no controller is stopped: three processes per call and four  *)
(* files are seen as one store.                                            *)
(***************************************************************************)
EXTENDS BeamInvariant

PhaseOf(stage) ==
    IF stage \in RunStages THEN "running"
    ELSE IF stage \in GetStages THEN "reading"
    ELSE IF stage = "answered" THEN "done" ELSE "idle"

Text(file) == [text |-> file.text, by |-> file.by]

ReplyOf(a) ==
    [kind |-> CASE a.kind = "none" -> "none"
                [] a.kind = "results" -> "results"
                [] OTHER -> "message",
     file |-> IF a.kind = "results" THEN Text(a.file) ELSE Text(NoReport)]

Service ==
    INSTANCE SimulationService
        WITH phase <- [c \in Calls |-> PhaseOf(tool[c])],
             store <- Text(results),
             reply <- [c \in Calls |-> ReplyOf(answer[c])]

\* Seen from the clients the servers, controllers, Workbenches and files of
\* all calls are one store of results: it is changed by the simulation in
\* progress and by nothing that is left of an earlier one, and each answer is
\* what it holds at that moment.  (Serial calls, all attended.)
ImplementsService == Service!Spec
=============================================================================
