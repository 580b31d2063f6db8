----------------------------- MODULE MCFaceScan -----------------------------
EXTENDS FaceScan

CONSTANT MaxFaces   \* the bodies checked have at most so many faces

FewFaces == UNION {[1 .. n -> Xs \union {Unreadable}] : n \in 0 .. MaxFaces}

FewFacesSpec == InitWith(FewFaces) /\ [][Next]_vars

MCXs == -1 .. 1
=============================================================================
