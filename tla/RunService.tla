----------------------------- MODULE RunService -----------------------------
(***************************************************************************)
(* What the dynamic controller amounts to for a user who starts a run only *)
(* when nothing of the last one is left: a run that clears two files, may  *)
(* have a Workbench that fills them, and ends once, printing the one or    *)
(* the other as it stands at that moment.  Its Workbench may outlive it.   *)
(***************************************************************************)
CONSTANTS
    Calls,
    None        \* by whom the files were written in an earlier session

VARIABLES
    stage,      \* stage[c]: "idle", "running" or "over"
    bench,      \* bench[c]: its Workbench is "none" yet, "up" or "gone"
    results,    \* the text on disk, and by which run it is
    error,
    told        \* told[c]: how the run ended, and what it printed

vars == <<stage, bench, results, error, told>>

File(text, c) == [text |-> text, by |-> c]

Absent == File("absent", None)

OfBefore == {File(text, None) : text \in {"absent", "empty", "whole"}}

Told(kind, file) == [kind |-> kind, file |-> file]

Init ==
    /\ stage = [c \in Calls |-> "idle"]
    /\ bench = [c \in Calls |-> "none"]
    /\ results \in OfBefore
    /\ error \in OfBefore
    /\ told = [c \in Calls |-> Told("none", Absent)]

Begin(c) ==
    /\ \A d \in Calls : stage[d] # "running" /\ bench[d] # "up"
    /\ stage[c] = "idle"
    /\ stage' = [stage EXCEPT ![c] = "running"]
    /\ UNCHANGED <<bench, results, error, told>>

\* Of what is not its own.
Clear(c) ==
    /\ stage[c] = "running" /\ bench[c] = "none"
    /\ \/ results.by # c /\ results' = Absent /\ UNCHANGED error
       \/ error.by # c /\ error' = Absent /\ UNCHANGED results
    /\ UNCHANGED <<stage, bench, told>>

\* Its Workbench finds the files clear.
Launch(c) ==
    /\ stage[c] = "running" /\ bench[c] = "none"
    /\ results.text = "absent" /\ error.text = "absent"
    /\ bench' = [bench EXCEPT ![c] = "up"]
    /\ UNCHANGED <<stage, results, error, told>>

Closes(c) ==
    /\ bench[c] = "up"
    /\ bench' = [bench EXCEPT ![c] = "gone"]
    /\ UNCHANGED <<stage, results, error, told>>

\* Results are written once.
WriteResults(c) ==
    /\ bench[c] = "up"
    /\ \/ results.text = "absent" /\ results' = File("empty", c)
       \/ results = File("empty", c) /\ results' = File("whole", c)
    /\ UNCHANGED <<stage, bench, error, told>>

WriteError(c) ==
    /\ bench[c] = "up"
    /\ \/ error' = File("empty", c)
       \/ error.by = c /\ error' = File("whole", c)
    /\ UNCHANGED <<stage, bench, results, told>>

Ends(c, kind, file) ==
    /\ stage[c] = "running"
    /\ stage' = [stage EXCEPT ![c] = "over"]
    /\ told' = [told EXCEPT ![c] = Told(kind, file)]
    /\ UNCHANGED <<bench, results>>

Complete(c) == results.by = c /\ Ends(c, "completed", results) /\ UNCHANGED error

Fail(c) == error.by = c /\ Ends(c, "failed", error) /\ UNCHANGED error

Expire(c) ==
    /\ bench[c] # "none" /\ error.text = "absent"
    /\ Ends(c, "timeout", Absent)
    /\ UNCHANGED error

Raise(c) == error' = File("whole", c) /\ Ends(c, "error", File("whole", c))

\* Without a word: what it would have said may leave the file torn.
Leave(c) ==
    /\ \E kind \in {"raised", "stopped"} : Ends(c, kind, Absent)
    /\ error' \in {error, File("empty", c)}

Next ==
    \E c \in Calls :
        \/ Begin(c) \/ Clear(c) \/ Launch(c) \/ Closes(c)
        \/ WriteResults(c) \/ WriteError(c)
        \/ Complete(c) \/ Fail(c) \/ Expire(c) \/ Raise(c) \/ Leave(c)

Spec == Init /\ [][Next]_vars
=============================================================================
