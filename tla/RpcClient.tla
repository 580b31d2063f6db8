----------------------------- MODULE RpcClient -----------------------------
(***************************************************************************)
(* The outbound half of JSONRPCDispatcher, as a client of the servers uses *)
(* it: send_raw_request registers a waiter under the request's id, writes, *)
(* and waits for one outcome; a timeout or a cancelled caller withdraws    *)
(* the request; the end of the connection wakes every waiter.              *)
(***************************************************************************)
EXTENDS RpcWire

CONSTANT Timed      \* calls made with a timeout

ASSUME TimedAssumption == Timed \subseteq Calls

VARIABLES
    client,     \* "up", or "gone" once the dispatcher's run() has ended
    pending,    \* pending[id]: _pending, the call that waits under an id
    caller,     \* caller[c]: where send_raw_request stands
    mailbox,    \* mailbox[c]: the waiter's stream, which holds one outcome
    outcome     \* outcome[c]: what the caller got, and whose answer it was

clientVars == <<client, pending, caller, mailbox, outcome>>

CallerStages == {"idle", "writing", "waiting", "timedOut", "cancelled", "done"}

Outcome(kind, c) == [kind |-> kind, by |-> c]

NoOutcome == Outcome("none", None)

Closed == Outcome("closed", None)

Outcomes == [kind : {"none", "answer", "closed", "refused", "timedOut", "cancelled"},
             by : Calls \union {None}]

ClientTypeOK ==
    /\ client \in {"up", "gone"}
    /\ pending \in [Ids -> Calls \union {None}]
    /\ caller \in [Calls -> CallerStages]
    /\ mailbox \in [Calls -> Outcomes]
    /\ outcome \in [Calls -> Outcomes]

ClientInit ==
    /\ client = "up"
    /\ pending = [id \in Ids |-> None]
    /\ caller = [c \in Calls |-> "idle"]
    /\ mailbox = [c \in Calls |-> NoOutcome]
    /\ outcome = [c \in Calls |-> NoOutcome]

Goes(c, from, to) == caller[c] = from /\ caller' = [caller EXCEPT ![c] = to]

\* The waiter is removed on every way out.
Returns(c, from, got) ==
    /\ Goes(c, from, "done")
    /\ outcome' = [outcome EXCEPT ![c] = got]
    /\ pending' = [pending EXCEPT ![IdOf[c]] = None]
    /\ UNCHANGED <<client, mailbox>>

\* Its request is out, or on its way, and may still be answered.
Waits(c) == caller[c] \in {"writing", "waiting"}

-----------------------------------------------------------------------------
\* Mutant: an id that is already in flight is taken.
IssueUnchecked(c) ==
    /\ client = "up"
    /\ Goes(c, "idle", "writing")
    /\ pending' = [pending EXCEPT ![IdOf[c]] = c]
    /\ UNCHANGED <<client, mailbox, outcome, wireVars>>

Issue(c) ==
    /\ client = "up"
    /\ pending[IdOf[c]] = None
    /\ Goes(c, "idle", "writing")
    /\ pending' = [pending EXCEPT ![IdOf[c]] = c]
    /\ UNCHANGED <<client, mailbox, outcome, wireVars>>

\* ValueError for an id in flight; CONNECTION_CLOSED after the end.
Refuse(c) ==
    /\ Goes(c, "idle", "done")
    /\ \/ client = "gone" /\ outcome' = [outcome EXCEPT ![c] = Closed]
       \/ /\ client = "up" /\ pending[IdOf[c]] # None
          /\ outcome' = [outcome EXCEPT ![c] = Outcome("refused", None)]
    /\ UNCHANGED <<client, pending, mailbox, wireVars>>

\* Mutant: the writer does not wait for room.
WriteAtOnce(c, broken) ==
    /\ ~broken
    /\ Goes(c, "writing", "waiting")
    /\ toServer' = Append(toServer, Frame("request", c))
    /\ UNCHANGED <<client, pending, mailbox, outcome, toClient>>

\* broken: the pipe is closed at one of its ends.  That the client's run() has
\* ended does not wake a blocked writer, whose request may still go out.
WriteRequest(c, broken) ==
    /\ ~broken
    /\ ServerHasRoom
    /\ Goes(c, "writing", "waiting")
    /\ toServer' = Append(toServer, Frame("request", c))
    /\ UNCHANGED <<client, pending, mailbox, outcome, toClient>>

WriteFails(c, broken) ==
    /\ client = "gone" \/ broken
    /\ Returns(c, "writing", Closed)
    /\ UNCHANGED wireVars

Wakes(c) ==
    /\ mailbox[c] # NoOutcome
    /\ Returns(c, "waiting", mailbox[c])
    /\ UNCHANGED wireVars

\* Mutant: the waiter is removed before the courtesy cancel is written.
TimesOutAndForgets(c) ==
    /\ c \in Timed
    /\ Goes(c, "waiting", "timedOut")
    /\ pending' = [pending EXCEPT ![IdOf[c]] = None]
    /\ UNCHANGED <<client, mailbox, outcome, wireVars>>

\* The timeout is armed after the write, and an answer may be there already.
TimesOut(c) ==
    /\ c \in Timed
    /\ Goes(c, "waiting", "timedOut")
    /\ UNCHANGED <<client, pending, mailbox, outcome, wireVars>>

\* A caller that is cancelled before the write began never sent anything; a
\* write that was interrupted counts as sent.
CallerCancels(c) ==
    \/ /\ \E stage \in {"writing", "waiting"} : Goes(c, stage, "cancelled")
       /\ UNCHANGED <<client, pending, mailbox, outcome, wireVars>>
    \/ Returns(c, "writing", Outcome("cancelled", None)) /\ UNCHANGED wireVars

\* The courtesy notifications/cancelled.  Nobody cancels an initialize, and a
\* closed connection drops the notification.
Withdraw(c, broken) ==
    /\ \E stage \in {"timedOut", "cancelled"} : Returns(c, stage, Outcome(stage, None))
    /\ IF c \in Inline \/ client = "gone" \/ broken
       THEN UNCHANGED toServer
       ELSE ServerHasRoom /\ toServer' = Append(toServer, Frame("cancelled", c))
    /\ UNCHANGED toClient

\* The write is blocked for _ABANDON_WRITE_TIMEOUT; or a caller cancelled
\* while it withdraws a request that timed out.
WithdrawGivesUp(c) ==
    /\ \/ \E stage \in {"timedOut", "cancelled"} :
             ~ServerHasRoom /\ Returns(c, stage, Outcome(stage, None))
       \/ Returns(c, "timedOut", Outcome("cancelled", None))
    /\ UNCHANGED wireVars

CallerSteps(c, broken) ==
    \/ WriteRequest(c, broken) \/ WriteFails(c, broken) \/ Wakes(c) \/ TimesOut(c)
    \/ Withdraw(c, broken) \/ WithdrawGivesUp(c)

-----------------------------------------------------------------------------
(* The read loop *)

\* _resolve_pending: an unknown id, or a waiter that has its outcome, drops
\* the answer.
ClientReads ==
    /\ client = "up" /\ toClient # <<>>
    /\ LET frame == Head(toClient)
           c == pending[IdOf[frame.of]]
       IN mailbox' = IF c # None /\ mailbox[c] = NoOutcome
                     THEN [mailbox EXCEPT ![c] = Outcome(frame.kind, frame.of)]
                     ELSE mailbox
    /\ toClient' = Tail(toClient)
    /\ UNCHANGED <<client, pending, caller, outcome, toServer>>

\* run() ends: _fan_out_closed.
ClientEnds ==
    /\ client = "up"
    /\ client' = "gone"
    /\ mailbox' = [c \in Calls |-> IF pending[IdOf[c]] = c /\ mailbox[c] = NoOutcome
                                   THEN Closed ELSE mailbox[c]]
    /\ pending' = [id \in Ids |-> None]
    /\ UNCHANGED <<caller, outcome, wireVars>>
=============================================================================
