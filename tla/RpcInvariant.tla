---------------------------- MODULE RpcInvariant ----------------------------
(***************************************************************************)
(* The inductive invariants behind the safety properties of RpcSession.    *)
(***************************************************************************)
EXTENDS RpcSession

\* The dispatcher of the client: an id names the call that waits under it.
Registered(c) == caller[c] \in {"writing", "waiting", "timedOut", "cancelled"}

HasWaiter == client = "up" => \A c \in Calls : Registered(c) => pending[IdOf[c]] = c

IsWaiter ==
    \A id \in Ids : pending[id] # None => IdOf[pending[id]] = id /\ Registered(pending[id])

KeepsOutcome ==
    \A c \in Calls : outcome[c].by # None => caller[c] = "done" /\ outcome[c] = mailbox[c]

\* Of the calls with one id only one is under way, also after the client is gone.
OneUnderWay ==
    \A c, d \in Calls : Registered(c) /\ Registered(d) /\ IdOf[c] = IdOf[d] => c = d

Waiters == HasWaiter /\ IsWaiter /\ KeepsOutcome /\ OneUnderWay

\* The dispatcher of the server: an entry is that of a handler at work, and
\* a handler writes one frame, its last act, and none once it was cancelled.
Entries == \A id \in Ids : inFlight[id] # None =>
               IdOf[inFlight[id]] = id /\ Handling(inFlight[id])

OneFrame ==
    \A c \in Calls :
        /\ handler[c] # "settled" => frames[c] = 0
        /\ handler[c] \in {"none", "writing", "closing"} => ~asked[c]
        /\ asked[c] => frames[c] = 0
        /\ frames[c] <= 1

Sent(i, c) == toServer[i] = Frame("request", c)

\* A request is on its way once, and has no handler before it arrives; a
\* cancellation is written last.
SentOnce ==
    \A c \in Calls :
        /\ caller[c] \in {"idle", "writing"} =>
              handler[c] = "none" /\ \A i \in DOMAIN toServer : toServer[i].of # c
        /\ \A i \in DOMAIN toServer :
              /\ Sent(i, c) =>
                    handler[c] = "none" /\ \A j \in DOMAIN toServer : Sent(j, c) => j = i
              /\ toServer[i] = Frame("cancelled", c) => caller[c] = "done"

\* c has reached the server, or is on the way in front of position j.
AheadOf(c, j) == handler[c] # "none" \/ \E i \in 1 .. j - 1 : Sent(i, c)

\* Nobody waits for what is ahead of another frame with the same id.
InOrder ==
    \A j \in DOMAIN toServer : \A c \in Calls :
        toServer[j].of # c /\ IdOf[toServer[j].of] = IdOf[c] /\ AheadOf(c, j) => ~Waits(c)

\* The one answer to d is on its way, or in one mailbox.
OneAnswer ==
    \A d \in Calls :
        /\ frames[d] = 0 =>
              /\ \A i \in DOMAIN toClient : toClient[i].of # d
              /\ \A c \in Calls : mailbox[c].by # d
        /\ \A i \in DOMAIN toClient :
              toClient[i].of = d =>
                  /\ \A j \in DOMAIN toClient : toClient[j].of = d => j = i
                  /\ \A c \in Calls : mailbox[c].by # d

\* What a mailbox holds is the call's own answer, or one that came too late.
LateAnswers ==
    \A c, d \in Calls :
        mailbox[c].by = d /\ d # c =>
            IdOf[d] = IdOf[c] /\ caller[d] = "done" /\ outcome[d].by # d

Answers == OneAnswer /\ LateAnswers
=============================================================================
