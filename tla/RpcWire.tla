------------------------------ MODULE RpcWire ------------------------------
(***************************************************************************)
(* The two pipes between an MCP client and a server process: frames in     *)
(* order, none lost while both ends live, and a writer that finds no room  *)
(* waits.  "of" says whose call a frame is about, for the properties: the  *)
(* other end sees no more than its id.                                     *)
(***************************************************************************)
EXTENDS Naturals, Sequences

CONSTANTS
    Calls,      \* requests of the client
    None,       \* no call
    IdOf,       \* IdOf[c]: the JSON-RPC id of request c, which the caller may choose
    Inline,     \* "initialize": handled in the read loop, never to be cancelled
    RoomToServer, RoomToClient  \* frames each pipe, with its buffers, holds

VARIABLES toServer, toClient

wireVars == <<toServer, toClient>>

ASSUME WireAssumption ==
    /\ None \notin Calls
    /\ Inline \subseteq Calls
    /\ IdOf = [c \in Calls |-> IdOf[c]]
    /\ RoomToServer \in Nat \ {0} /\ RoomToClient \in Nat \ {0}

Ids == {IdOf[c] : c \in Calls}

Frame(kind, c) == [kind |-> kind, of |-> c]

Outgoing == [kind : {"request", "cancelled"}, of : Calls]

\* "closed" is the error CONNECTION_CLOSED that a server ends its requests with.
Incoming == [kind : {"answer", "closed"}, of : Calls]

WireTypeOK ==
    /\ toServer \in Seq(Outgoing) /\ Len(toServer) <= RoomToServer
    /\ toClient \in Seq(Incoming) /\ Len(toClient) <= RoomToClient

WireInit == toServer = <<>> /\ toClient = <<>>

ServerHasRoom == Len(toServer) < RoomToServer

ClientHasRoom == Len(toClient) < RoomToClient
=============================================================================
