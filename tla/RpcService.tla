----------------------------- MODULE RpcService -----------------------------
(***************************************************************************)
(* RpcSession implements CallService: two dispatchers with their tables,   *)
(* tasks and pipes are seen as calls that are answered.                    *)
(***************************************************************************)
EXTENDS RpcInvariant

StageOf(place) ==
    CASE place = "idle" -> "idle"
      [] place \in {"writing", "waiting"} -> "open"
      [] place = "done" -> "closed"
      [] OTHER -> "leaving"

\* A request that is answered again has no stage in the service.
WorkOf(written, place) ==
    CASE written = 0 /\ place = "none" -> "none"
      [] written = 0 /\ place # "none" -> "begun"
      [] written = 1 -> "answered"
      [] OTHER -> "answered again"

Service ==
    INSTANCE CallService
        WITH stage <- [c \in Calls |-> StageOf(caller[c])],
             work <- [c \in Calls |-> WorkOf(frames[c], handler[c])],
             revoked <- asked,
             got <- [c \in Calls |-> outcome[c].by]

\* Whatever ids its callers choose, however late answers and cancellations
\* come, and whichever process goes away first: every request is begun once
\* and answered once at most, every answer is handed to one caller at most,
\* who has its id, and no cancellation hits a call that is waited for.
ImplementsCalls == Service!Spec

\* An answer is in one mailbox only.
OneMailbox ==
    \A c, e \in Calls : mailbox[c].by # None /\ mailbox[c].by = mailbox[e].by => c = e
=============================================================================
