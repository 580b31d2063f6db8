-------------------------- MODULE FaceScan_proofs --------------------------
EXTENDS FaceScan, SequenceTheorems, TLAPS

\* The loop invariant: after i faces, the fixed face is the first leftmost of
\* them and minX its coordinate, or none of them was readable.
MinScanned ==
    \/ /\ fixedFace = 0 /\ minX = Sentinel
       /\ \A k \in 1 .. i : ~Readable(k)
    \/ /\ fixedFace \in 1 .. i /\ Readable(fixedFace) /\ minX = faces[fixedFace]
       /\ \A k \in 1 .. i : Readable(k) => minX <= faces[k]
       /\ \A k \in 1 .. fixedFace - 1 : Readable(k) => minX < faces[k]

MaxScanned ==
    \/ /\ loadFace = 0 /\ maxX = -Sentinel
       /\ \A k \in 1 .. i : ~Readable(k)
    \/ /\ loadFace \in 1 .. i /\ Readable(loadFace) /\ maxX = faces[loadFace]
       /\ \A k \in 1 .. i : Readable(k) => maxX >= faces[k]
       /\ \A k \in 1 .. loadFace - 1 : Readable(k) => maxX > faces[k]

Concluded ==
    /\ outcome = "noFaces" => Len(faces) = 0
    /\ outcome \notin {"scanning", "noFaces"} => i = Len(faces)
    /\ outcome = "found" => fixedFace # 0 /\ loadFace # 0
    /\ outcome = "noFixedFace" => fixedFace = 0
    /\ outcome = "noLoadFace" => loadFace = 0

IInv == TypeOK /\ MinScanned /\ MaxScanned /\ Concluded

LEMMA ReadableFace ==
    ASSUME TypeOK, NEW k \in 1 .. Len(faces), Readable(k)
    PROVE  faces[k] \in Xs /\ faces[k] \in Int
           /\ -Sentinel < faces[k] /\ faces[k] < Sentinel
<1>1. faces[k] \in Xs \union {Unreadable}  BY DEF TypeOK
<1>2. faces[k] \in Xs  BY <1>1 DEF Readable
<1>3. QED  BY <1>2, XsAssumption, SentinelAssumption

LEMMA LookStep ==
    ASSUME IInv, Look
    PROVE  IInv'
<1> USE XsAssumption DEF IInv, TypeOK
<1>1. /\ i \in Nat /\ i + 1 \in 1 .. Len(faces) /\ Len(faces) \in Nat
      /\ i' = i + 1 /\ faces' = faces /\ outcome' = outcome /\ outcome = "scanning"
  BY DEF Look
<1>2. faces[i + 1] \in Xs /\ faces[i + 1] \in Int
      /\ -Sentinel < faces[i + 1] /\ faces[i + 1] < Sentinel /\ Readable(i + 1)
  BY <1>1, ReadableFace DEF Look
<1>3. \A k \in 1 .. i + 1 : k \in 1 .. i \/ k = i + 1  BY <1>1
<1>4. \A k \in 1 .. Len(faces) : Readable(k) => faces[k] \in Int  BY ReadableFace
<1>5. MinScanned' /\ minX' \in Xs \union {Sentinel} /\ fixedFace' \in 0 .. Len(faces)
  <2>1. CASE faces[i + 1] < minX
    <3>1. minX' = faces[i + 1] /\ fixedFace' = i + 1  BY <2>1 DEF Look
    <3>2. \A k \in 1 .. i : Readable(k) => faces[i + 1] < faces[k]
      <4> SUFFICES ASSUME NEW k \in 1 .. i, Readable(k) PROVE faces[i + 1] < faces[k]  OBVIOUS
      <4>1. k \in 1 .. Len(faces)  BY <1>1
      <4>2. faces[k] \in Int  BY <1>4, <4>1
      <4>3. fixedFace \in 1 .. i /\ minX = faces[fixedFace] /\ minX <= faces[k]
        BY DEF MinScanned
      <4>4. minX \in Int
        BY <1>1, <1>4, <4>3 DEF MinScanned
      <4>5. QED  BY <1>2, <2>1, <4>2, <4>3, <4>4
    <3>3. \A k \in 1 .. i + 1 : Readable(k) => minX' <= faces[k]
      <4>1. minX' \in Int /\ minX' <= faces[i + 1]  BY <1>2, <3>1
      <4>2. \A k \in 1 .. i : Readable(k) => minX' <= faces[k]
        BY <1>1, <1>4, <3>1, <3>2, <4>1
      <4>3. QED  BY <1>3, <4>1, <4>2
    <3>4. \A k \in 1 .. i : Readable(k) => minX' < faces[k]  BY <3>1, <3>2
    <3>5. i + 1 \in 1 .. i + 1 /\ (i + 1) - 1 = i  BY <1>1
    <3>6. QED  BY <1>1, <1>2, <3>1, <3>3, <3>4, <3>5 DEF MinScanned, Readable
  <2>2. CASE ~(faces[i + 1] < minX)
    <3>1. minX' = minX /\ fixedFace' = fixedFace  BY <2>2 DEF Look
    <3>2. fixedFace # 0  BY <1>2, <2>2 DEF MinScanned
    <3>3. minX \in Int /\ minX <= faces[i + 1]
      BY <1>1, <1>2, <1>4, <2>2, <3>2 DEF MinScanned
    <3>4. fixedFace \in 1 .. i + 1 /\ \A k \in 1 .. i + 1 : Readable(k) => minX <= faces[k]
      BY <1>1, <1>3, <3>2, <3>3 DEF MinScanned
    <3>5. QED  BY <1>1, <3>1, <3>2, <3>4 DEF MinScanned, Readable
  <2>3. QED  BY <2>1, <2>2
<1>6. MaxScanned' /\ maxX' \in Xs \union {-Sentinel} /\ loadFace' \in 0 .. Len(faces)
  <2>1. CASE faces[i + 1] > maxX
    <3>1. maxX' = faces[i + 1] /\ loadFace' = i + 1  BY <2>1 DEF Look
    <3>2. \A k \in 1 .. i : Readable(k) => faces[i + 1] > faces[k]
      <4> SUFFICES ASSUME NEW k \in 1 .. i, Readable(k) PROVE faces[i + 1] > faces[k]  OBVIOUS
      <4>1. k \in 1 .. Len(faces)  BY <1>1
      <4>2. faces[k] \in Int  BY <1>4, <4>1
      <4>3. loadFace \in 1 .. i /\ maxX = faces[loadFace] /\ maxX >= faces[k]
        BY DEF MaxScanned
      <4>4. maxX \in Int
        BY <1>1, <1>4, <4>3 DEF MaxScanned
      <4>5. QED  BY <1>2, <2>1, <4>2, <4>3, <4>4
    <3>3. \A k \in 1 .. i + 1 : Readable(k) => maxX' >= faces[k]
      <4>1. maxX' \in Int /\ maxX' >= faces[i + 1]  BY <1>2, <3>1
      <4>2. \A k \in 1 .. i : Readable(k) => maxX' >= faces[k]
        BY <1>1, <1>4, <3>1, <3>2, <4>1
      <4>3. QED  BY <1>3, <4>1, <4>2
    <3>4. \A k \in 1 .. i : Readable(k) => maxX' > faces[k]  BY <3>1, <3>2
    <3>5. i + 1 \in 1 .. i + 1 /\ (i + 1) - 1 = i  BY <1>1
    <3>6. QED  BY <1>1, <1>2, <3>1, <3>3, <3>4, <3>5 DEF MaxScanned, Readable
  <2>2. CASE ~(faces[i + 1] > maxX)
    <3>1. maxX' = maxX /\ loadFace' = loadFace  BY <2>2 DEF Look
    <3>2. loadFace # 0  BY <1>2, <2>2 DEF MaxScanned
    <3>3. maxX \in Int /\ maxX >= faces[i + 1]
      BY <1>1, <1>2, <1>4, <2>2, <3>2 DEF MaxScanned
    <3>4. loadFace \in 1 .. i + 1 /\ \A k \in 1 .. i + 1 : Readable(k) => maxX >= faces[k]
      BY <1>1, <1>3, <3>2, <3>3 DEF MaxScanned
    <3>5. QED  BY <1>1, <3>1, <3>2, <3>4 DEF MaxScanned, Readable
  <2>3. QED  BY <2>1, <2>2
<1>7. QED  BY <1>1, <1>5, <1>6 DEF Concluded

\* The scan keeps its invariant over every body of any number of faces.
THEOREM ScanInvariant == Spec => []IInv
<1>1. Init => IInv
  <2> SUFFICES ASSUME Init PROVE IInv  OBVIOUS
  <2>1. /\ faces \in Seq(Xs \union {Unreadable})
        /\ i = 0 /\ minX = Sentinel /\ maxX = -Sentinel
        /\ fixedFace = 0 /\ loadFace = 0
        /\ outcome \in {"noFaces", "scanning"}
        /\ outcome = "noFaces" => faces = << >>
    BY DEF Init, InitWith
  <2>2. Len(faces) \in Nat  BY <2>1, LenProperties
  <2>3. TypeOK  BY <2>1, <2>2 DEF TypeOK, Outcomes
  <2>4. MinScanned /\ MaxScanned  BY <2>1 DEF MinScanned, MaxScanned
  <2>5. Len(<< >>) = 0  OBVIOUS
  <2>6. Concluded  BY <2>1, <2>5 DEF Concluded
  <2>7. QED  BY <2>3, <2>4, <2>6 DEF IInv
<1>2. IInv /\ [Next]_vars => IInv'
  <2> SUFFICES ASSUME IInv, [Next]_vars PROVE IInv'  OBVIOUS
  <2>1. CASE Skip
    <3>1. /\ i \in Nat /\ i + 1 \in 1 .. Len(faces) /\ Len(faces) \in Nat
          /\ i' = i + 1 /\ ~Readable(i + 1)
          /\ UNCHANGED <<faces, minX, maxX, fixedFace, loadFace, outcome>>
          /\ outcome = "scanning"
      BY <2>1 DEF Skip, IInv, TypeOK
    <3>2. TypeOK'  BY <3>1 DEF IInv, TypeOK
    <3>3. \A k \in 1 .. i + 1 : k \in 1 .. i \/ k = i + 1  BY <3>1
    <3>4. MinScanned'  BY <3>1, <3>3 DEF IInv, MinScanned, Readable
    <3>5. MaxScanned'  BY <3>1, <3>3 DEF IInv, MaxScanned, Readable
    <3>6. QED  BY <3>1, <3>2, <3>4, <3>5 DEF IInv, Concluded
  <2>2. CASE Look  BY <2>2, LookStep
  <2>3. CASE Conclude
    BY <2>3 DEF Conclude, IInv, TypeOK, MinScanned, MaxScanned, Concluded, Outcomes, Readable
  <2>4. CASE Done \/ UNCHANGED vars
    BY <2>4 DEF Done, vars, IInv, TypeOK, MinScanned, MaxScanned, Concluded, Readable
  <2>5. QED  BY <2>1, <2>2, <2>3, <2>4 DEF Next
<1>3. QED  BY <1>1, <1>2, PTL DEF Spec

\* The support and the load go to the extreme faces, ties to the first one.
THEOREM ExtremeEnds == Spec => []EndsAreExtreme
<1>1. IInv => EndsAreExtreme
  BY DEF IInv, TypeOK, MinScanned, MaxScanned, Concluded, EndsAreExtreme, IsLeftmost,
         IsRightmost, Readable
<1>2. QED  BY <1>1, ScanInvariant, PTL

\* The scan refuses a body only when none of its faces could be read.
THEOREM RefusalJustified == Spec => []RefusedOnlyIfUnreadable
<1>1. IInv => RefusedOnlyIfUnreadable
  <2> SUFFICES ASSUME IInv, NEW k \in 1 .. Len(faces), Readable(k),
                      outcome \in {"noFaces", "noFixedFace", "noLoadFace"}
               PROVE  FALSE
    BY DEF RefusedOnlyIfUnreadable
  <2>1. Len(faces) \in Nat  BY LenProperties DEF IInv, TypeOK
  <2>2. Len(faces) # 0  BY <2>1
  <2>3. i = Len(faces)  BY <2>2 DEF IInv, Concluded
  <2>4. fixedFace = 0 \/ loadFace = 0  BY <2>2 DEF IInv, Concluded
  <2>5. QED  BY <2>1, <2>3, <2>4 DEF IInv, MinScanned, MaxScanned
<1>2. QED  BY <1>1, ScanInvariant, PTL

\* Two readable faces at different places are enough for the fixed and the
\* loaded face to be different ones.
THEOREM DifferentEnds == Spec => []EndsDiffer
<1>1. IInv => EndsDiffer
  <2> SUFFICES ASSUME IInv, outcome = "found",
                      NEW j \in 1 .. Len(faces), NEW k \in 1 .. Len(faces),
                      Readable(j), Readable(k), faces[j] # faces[k]
               PROVE  fixedFace # loadFace
    BY DEF EndsDiffer
  <2>1. minX <= faces[j] /\ faces[j] <= maxX /\ minX <= faces[k] /\ faces[k] <= maxX
    BY DEF IInv, MinScanned, MaxScanned, Concluded
  <2>2. faces[j] \in Int /\ faces[k] \in Int  BY ReadableFace DEF IInv
  <2>3. minX = faces[fixedFace] /\ maxX = faces[loadFace]
    BY DEF IInv, MinScanned, MaxScanned, Concluded
  <2>4. minX \in Int /\ maxX \in Int  BY XsAssumption DEF IInv, TypeOK
  <2>5. QED  BY <2>1, <2>2, <2>3, <2>4
<1>2. QED  BY <1>1, ScanInvariant, PTL
=============================================================================
