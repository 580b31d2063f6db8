-------------------------- MODULE SimulationService --------------------------
(***************************************************************************)
(* What the tools of both servers amount to for clients that start one     *)
(* simulation at a time: one store of results that only the simulation in  *)
(* progress changes, first torn and then whole, and calls that are         *)
(* answered once, from the store as it is at that moment.  A simulation    *)
(* that has put its results in the store is answered with them; one that   *)
(* has not is answered with a message or, the tools being what they are,   *)
(* with what the store holds.                                              *)
(***************************************************************************)
CONSTANTS
    Calls,
    None        \* by whom the store was filled in an earlier session

VARIABLES
    phase,      \* phase[c]: "idle", "running", "reading" or "done"
    store,      \* the results and by which call they are
    reply       \* reply[c]: what call c was answered

vars == <<phase, store, reply>>

Results(text, c) == [text |-> text, by |-> c]

Empty == Results("absent", None)

Said(kind, file) == [kind |-> kind, file |-> file]

Nothing == Said("none", Empty)

Message == Said("message", Empty)

Held == Said("results", store)

Init ==
    /\ phase = [c \in Calls |-> "idle"]
    /\ store \in {Results(text, None) : text \in {"absent", "empty", "whole"}}
    /\ reply = [c \in Calls |-> Nothing]

Move(c, from, to) == phase[c] = from /\ phase' = [phase EXCEPT ![c] = to]

Run(c) ==
    /\ \A d \in Calls : phase[d] # "running"
    /\ Move(c, "idle", "running")
    /\ UNCHANGED <<store, reply>>

Get(c) == Move(c, "idle", "reading") /\ UNCHANGED <<store, reply>>

Tear(c) ==
    /\ phase[c] = "running"
    /\ store.by # c
    /\ store' = Results("empty", c)
    /\ UNCHANGED <<phase, reply>>

Publish(c) ==
    /\ phase[c] = "running"
    /\ store = Results("empty", c)
    /\ store' = Results("whole", c)
    /\ UNCHANGED <<phase, reply>>

AnswerRun(c) ==
    /\ Move(c, "running", "done")
    /\ \/ store.text # "absent" /\ reply' = [reply EXCEPT ![c] = Held]
       \/ store # Results("whole", c) /\ reply' = [reply EXCEPT ![c] = Message]
    /\ UNCHANGED store

AnswerGet(c) ==
    /\ Move(c, "reading", "done")
    /\ reply' = [reply EXCEPT ![c] = IF store.text = "absent" THEN Message ELSE Held]
    /\ UNCHANGED store

Next ==
    \E c \in Calls :
        Run(c) \/ Get(c) \/ Tear(c) \/ Publish(c) \/ AnswerRun(c) \/ AnswerGet(c)

Spec == Init /\ [][Next]_vars
=============================================================================
