------------------------------- MODULE MCRpc -------------------------------
EXTENDS RpcService

CONSTANTS c1, c2, c3

\* c2 uses the id of c1 again.
SharedId == [c \in Calls |-> IF c = c3 THEN 2 ELSE 1]
=============================================================================
