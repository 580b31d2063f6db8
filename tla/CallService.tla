---------------------------- MODULE CallService ----------------------------
(***************************************************************************)
(* What a connection amounts to for callers and tools, without pipes,      *)
(* tables and tasks: calls that are open one per id, requests that are     *)
(* begun and answered once at most, answers that are handed out once, and  *)
(* revocations that hit nothing a caller waits for.  Whether and when any  *)
(* of it happens is left open, as either process may go away.              *)
(***************************************************************************)
CONSTANTS
    Calls,
    None,       \* nobody's answer
    IdOf        \* the id of a call, by which alone it is known

VARIABLES
    stage,      \* stage[c]: "idle", "open", "leaving" (given up) or "closed"
    work,       \* work[c]: "none", "begun" or "answered"
    revoked,    \* revoked[c]: a cancellation has reached the work
    got         \* got[c]: whose answer the caller was handed

vars == <<stage, work, revoked, got>>

Init ==
    /\ stage = [c \in Calls |-> "idle"]
    /\ work = [c \in Calls |-> "none"]
    /\ revoked = [c \in Calls |-> FALSE]
    /\ got = [c \in Calls |-> None]

Moves(c, from, to) == stage[c] = from /\ stage' = [stage EXCEPT ![c] = to]

\* No other call is under way with its id.
Open(c) ==
    /\ \A d \in Calls : IdOf[d] = IdOf[c] => stage[d] \notin {"open", "leaving"}
    /\ Moves(c, "idle", "open")
    /\ UNCHANGED <<work, revoked, got>>

Refuse(c) == Moves(c, "idle", "closed") /\ UNCHANGED <<work, revoked, got>>

GiveUp(c) == Moves(c, "open", "leaving") /\ UNCHANGED <<work, revoked, got>>

Begin(c) ==
    /\ stage[c] # "idle" /\ work[c] = "none"
    /\ work' = [work EXCEPT ![c] = "begun"]
    /\ UNCHANGED <<stage, revoked, got>>

Answer(c) ==
    /\ work[c] = "begun" /\ ~revoked[c]
    /\ work' = [work EXCEPT ![c] = "answered"]
    /\ UNCHANGED <<stage, revoked, got>>

\* By a caller that had its id and left.
Revoke(c) ==
    /\ stage[c] # "open" /\ work[c] = "begun"
    /\ \E d \in Calls : IdOf[d] = IdOf[c] /\ stage[d] = "closed"
    /\ revoked' = [revoked EXCEPT ![c] = TRUE]
    /\ UNCHANGED <<stage, work, got>>

CloseWithout(c) ==
    /\ Moves(c, "open", "closed") \/ Moves(c, "leaving", "closed")
    /\ UNCHANGED <<work, revoked, got>>

\* An answer nobody was handed yet: its own, or that of a call with its id
\* that closed without.
Fits(c, d) ==
    /\ work[d] = "answered" /\ \A e \in Calls : got[e] # d
    /\ d = c \/ (IdOf[d] = IdOf[c] /\ stage[d] = "closed")

CloseWith(c, d) ==
    /\ Fits(c, d)
    /\ Moves(c, "open", "closed")
    /\ got' = [got EXCEPT ![c] = d]
    /\ UNCHANGED <<work, revoked>>

Next ==
    \E c \in Calls :
        \/ Open(c) \/ Refuse(c) \/ GiveUp(c) \/ CloseWithout(c)
        \/ Begin(c) \/ Answer(c) \/ Revoke(c)
        \/ \E d \in Calls : CloseWith(c, d)

Spec == Init /\ [][Next]_vars
=============================================================================
