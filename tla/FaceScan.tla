------------------------------ MODULE FaceScan ------------------------------
(***************************************************************************)
(* The loop of cantilever_mechanical.py that chooses the face to fix and   *)
(* the face to load: the faces with the least and the greatest centroid x. *)
(* A face whose centroid raises is passed over.  minX and maxX start from  *)
(* sentinels that a centroid has to beat.                                  *)
(***************************************************************************)
EXTENDS Integers, Sequences

CONSTANTS
    Xs,             \* centroid coordinates
    Unreadable,     \* face.Centroid raises
    Sentinel        \* 999999999.0

ASSUME XsAssumption == Xs \subseteq Int /\ Unreadable \notin Int /\ Sentinel \in Int

\* The sentinels stand outside every part that can be drawn.
ASSUME SentinelAssumption == \A x \in Xs : -Sentinel < x /\ x < Sentinel

VARIABLES
    faces,          \* the x of each face's centroid, in the order of body.Faces
    i,              \* faces already looked at
    minX, maxX,
    fixedFace,      \* index of the face, 0 for None
    loadFace,
    outcome         \* "scanning", "found" or the exception raised

vars == <<faces, i, minX, maxX, fixedFace, loadFace, outcome>>

Outcomes == {"scanning", "found", "noFaces", "noFixedFace", "noLoadFace"}

Readable(k) == faces[k] # Unreadable

TypeOK ==
    /\ faces \in Seq(Xs \union {Unreadable})
    /\ i \in 0 .. Len(faces)
    /\ minX \in Xs \union {Sentinel}
    /\ maxX \in Xs \union {-Sentinel}
    /\ fixedFace \in 0 .. Len(faces)
    /\ loadFace \in 0 .. Len(faces)
    /\ outcome \in Outcomes

InitWith(faceSequences) ==
    /\ faces \in faceSequences
    /\ i = 0
    /\ minX = Sentinel /\ maxX = -Sentinel
    /\ fixedFace = 0 /\ loadFace = 0
    /\ outcome = IF faces = <<>> THEN "noFaces" ELSE "scanning"

Init == InitWith(Seq(Xs \union {Unreadable}))

\* Mutant: break for continue.
SkipBreaks ==
    /\ outcome = "scanning" /\ i < Len(faces)
    /\ ~Readable(i + 1)
    /\ i' = Len(faces)
    /\ UNCHANGED <<faces, minX, maxX, fixedFace, loadFace, outcome>>

Skip ==
    /\ outcome = "scanning" /\ i < Len(faces)
    /\ ~Readable(i + 1)
    /\ i' = i + 1
    /\ UNCHANGED <<faces, minX, maxX, fixedFace, loadFace, outcome>>

\* Mutant: elif for the second comparison.
LookElif ==
    /\ outcome = "scanning" /\ i < Len(faces)
    /\ Readable(i + 1)
    /\ i' = i + 1
    /\ LET x == faces[i + 1] IN
          \/ /\ x < minX
             /\ minX' = x /\ fixedFace' = i + 1
             /\ UNCHANGED <<maxX, loadFace>>
          \/ /\ ~(x < minX) /\ x > maxX
             /\ maxX' = x /\ loadFace' = i + 1
             /\ UNCHANGED <<minX, fixedFace>>
          \/ /\ ~(x < minX) /\ ~(x > maxX)
             /\ UNCHANGED <<minX, maxX, fixedFace, loadFace>>
    /\ UNCHANGED <<faces, outcome>>

\* The face becomes the fixed one, the loaded one, both or neither.
Look ==
    /\ outcome = "scanning" /\ i < Len(faces)
    /\ Readable(i + 1)
    /\ i' = i + 1
    /\ LET x == faces[i + 1] IN
          /\ IF x < minX
             THEN minX' = x /\ fixedFace' = i + 1
             ELSE UNCHANGED <<minX, fixedFace>>
          /\ IF x > maxX
             THEN maxX' = x /\ loadFace' = i + 1
             ELSE UNCHANGED <<maxX, loadFace>>
    /\ UNCHANGED <<faces, outcome>>

\* After the loop the two None tests, in this order.
Conclude ==
    /\ outcome = "scanning" /\ i = Len(faces)
    /\ outcome' = IF fixedFace = 0 THEN "noFixedFace"
                  ELSE IF loadFace = 0 THEN "noLoadFace"
                  ELSE "found"
    /\ UNCHANGED <<faces, i, minX, maxX, fixedFace, loadFace>>

Done == outcome # "scanning" /\ UNCHANGED vars

Next == Skip \/ Look \/ Conclude \/ Done

Spec == Init /\ [][Next]_vars

-----------------------------------------------------------------------------
(* What the loop is for *)

\* The first face, in the order of the body, that none lies left of.
IsLeftmost(f) ==
    /\ f \in 1 .. Len(faces) /\ Readable(f)
    /\ \A k \in 1 .. Len(faces) : Readable(k) => faces[f] <= faces[k]
    /\ \A k \in 1 .. f - 1 : Readable(k) => faces[f] < faces[k]

IsRightmost(f) ==
    /\ f \in 1 .. Len(faces) /\ Readable(f)
    /\ \A k \in 1 .. Len(faces) : Readable(k) => faces[f] >= faces[k]
    /\ \A k \in 1 .. f - 1 : Readable(k) => faces[f] > faces[k]

\* The support goes to the leftmost end of the part and the force to the
\* rightmost, ties going to the face listed first.
EndsAreExtreme ==
    outcome = "found" => IsLeftmost(fixedFace) /\ IsRightmost(loadFace)

\* A part with one readable face at least is never refused for want of an end.
RefusedOnlyIfUnreadable ==
    outcome \in {"noFaces", "noFixedFace", "noLoadFace"} =>
        \A k \in 1 .. Len(faces) : ~Readable(k)

\* The face that is fixed is not the face that is loaded, as soon as two
\* readable faces lie at different x.
EndsDiffer ==
    outcome = "found" /\ (\E j, k \in 1 .. Len(faces) :
                             Readable(j) /\ Readable(k) /\ faces[j] # faces[k])
        => fixedFace # loadFace
=============================================================================
