------------------------- MODULE FilePlaybackProofs -------------------------
(* Proofs about FilePlayback.  One inductive invariant carries all of     *)
(* them: what the indices and the clock have to do with what is on show.  *)
EXTENDS FilePlayback, TLAPS

(* What of the depth frames is on show in the round under way, and where  *)
(* their stamps count from.                                               *)
DepthInv ==
  /\ Sorted(depth)
  /\ \A k \in 2 .. depthIdx : depth[k] <= curtime
  /\ onDepth.round <= wraps + 1
  /\ onDepth.round = wraps + 1 => onDepth.idx = depthIdx
  /\ onDepth.round # wraps + 1 => depthIdx = 1
  /\ ~firsttick => /\ appStart = depth[1]
                   /\ onDepth.idx \in DOMAIN depth
                   /\ onDepth.stamp = depth[onDepth.idx] - appStart

(* The same of the faces: their stamps only shrink, and those that are    *)
(* still to be shown have not changed in the first round.                 *)
FaceInv ==
  /\ Sorted(faceRead)
  /\ \A k \in DOMAIN face : face[k] <= faceRead[k]
  /\ wraps = 0 => \A k \in faceIdx + 1 .. Len(face) : face[k] = faceRead[k]
  /\ appStart = 0 => face = faceRead
  /\ wraps = 0 \/ appStart = 0 => \A k \in 2 .. faceIdx : faceRead[k] <= curtime
  /\ onFace.round <= wraps + 1
  /\ onFace.round = wraps + 1 => onFace.idx = faceIdx
  /\ onFace.round # wraps + 1 => faceIdx = 1

BeginInv ==
  firsttick <=> round = 0
FirstInv ==
  firsttick => /\ curtime = StartTime /\ appStart = -1 /\ wraps = 0
               /\ depthIdx = 1 /\ faceIdx = 1 /\ face = faceRead
               /\ onDepth.round = 0

PlaybackInv == PlaybackTypeOK /\ BeginInv /\ FirstInv /\ DepthInv /\ FaceInv
-----------------------------------------------------------------------------
(* A file holds at least one frame of each kind, in the order of stamps.  *)
LEMMA ReadFrames ==
  ASSUME NEW s \in Read
  PROVE  s \in Seq(Nat) /\ Len(s) >= 1 /\ Sorted(s) /\ 1 \in DOMAIN s
<1>1. PICK n \in 1 .. MaxFrames : s \in [1 .. n -> Stamps]
  BY DEF Read
<1>2. n \in Nat /\ n >= 1 /\ Stamps \subseteq Nat
  BY PlaybackAssumption DEF PlaybackAssumption
<1>3. s \in [1 .. n -> Nat]
  BY <1>1, <1>2
<1>4. s \in Seq(Nat) /\ Len(s) = n
  BY <1>2, <1>3
<1> QED
  BY <1>2, <1>4 DEF Read

LEMMA PlaybackBegins == PlaybackInit => PlaybackInv
<1> SUFFICES ASSUME PlaybackInit PROVE PlaybackInv
  OBVIOUS
<1>1. /\ depth \in Seq(Nat) /\ Len(depth) >= 1 /\ Sorted(depth) /\ 1 \in DOMAIN depth
      /\ faceRead \in Seq(Nat) /\ Len(faceRead) >= 1 /\ Sorted(faceRead) /\ 1 \in DOMAIN faceRead
  BY ReadFrames DEF PlaybackInit
<1>2. StartTime \in StartTime .. EndTime /\ StartTime \in Nat
  <2>1. depth[1] <= depth[Len(depth)] /\ depth[1] \in Nat /\ depth[Len(depth)] \in Nat
    BY <1>1 DEF Sorted
  <2>2. faceRead[1] <= faceRead[Len(faceRead)] /\ faceRead[1] \in Nat /\ faceRead[Len(faceRead)] \in Nat
    BY <1>1 DEF Sorted
  <2> QED
    BY <2>1, <2>2 DEF StartTime, EndTime, Least, Greatest
<1>3. PlaybackTypeOK
  BY <1>1, <1>2 DEF PlaybackInit, PlaybackTypeOK
<1>4. BeginInv /\ FirstInv
  BY DEF PlaybackInit, BeginInv, FirstInv
<1>5. DepthInv
  BY <1>1 DEF PlaybackInit, DepthInv
<1>6. FaceInv
  BY <1>1 DEF PlaybackInit, FaceInv
<1> QED
  BY <1>3, <1>4, <1>5, <1>6 DEF PlaybackInv

(* What the type invariant says of the frames, index by index.            *)
Indexed ==
  /\ Len(depth) \in Nat /\ Len(depth) >= 1 /\ DOMAIN depth = 1 .. Len(depth)
  /\ \A k \in 1 .. Len(depth) : depth[k] \in Nat
  /\ Len(faceRead) \in Nat /\ Len(faceRead) >= 1
  /\ DOMAIN faceRead = 1 .. Len(faceRead) /\ DOMAIN face = 1 .. Len(faceRead)
  /\ Len(face) = Len(faceRead)
  /\ \A k \in 1 .. Len(faceRead) : faceRead[k] \in Nat /\ face[k] \in Int
  /\ depthIdx \in 1 .. Len(depth) /\ faceIdx \in 1 .. Len(faceRead)
  /\ StartTime \in Nat /\ EndTime \in Nat /\ StartTime <= depth[1]
  /\ curtime \in Nat /\ StartTime <= curtime /\ curtime <= EndTime

LEMMA TypedIsIndexed == PlaybackTypeOK => Indexed
<1> SUFFICES ASSUME PlaybackTypeOK PROVE Indexed
  OBVIOUS
<1>1. /\ Len(depth) \in Nat /\ Len(depth) >= 1 /\ DOMAIN depth = 1 .. Len(depth)
      /\ \A k \in 1 .. Len(depth) : depth[k] \in Nat
  <2>1. depth \in Seq(Nat) /\ Len(depth) >= 1
    BY DEF PlaybackTypeOK
  <2> QED
    BY <2>1
<1>2. /\ Len(faceRead) \in Nat /\ Len(faceRead) >= 1
      /\ DOMAIN faceRead = 1 .. Len(faceRead)
      /\ \A k \in 1 .. Len(faceRead) : faceRead[k] \in Nat
  <2>1. faceRead \in Seq(Nat) /\ Len(faceRead) >= 1
    BY DEF PlaybackTypeOK
  <2> QED
    BY <2>1
<1>3. /\ Len(face) = Len(faceRead) /\ DOMAIN face = 1 .. Len(faceRead)
      /\ \A k \in 1 .. Len(faceRead) : face[k] \in Int
  <2>1. face \in Seq(Int) /\ Len(face) = Len(faceRead)
    BY DEF PlaybackTypeOK
  <2> QED
    BY <1>2, <2>1
<1>4. StartTime \in Nat /\ EndTime \in Nat /\ StartTime <= depth[1]
  BY <1>1, <1>2 DEF StartTime, EndTime, Least, Greatest
<1>5. curtime \in Nat /\ StartTime <= curtime /\ curtime <= EndTime
  BY <1>4 DEF PlaybackTypeOK
<1>6. depthIdx \in 1 .. Len(depth) /\ faceIdx \in 1 .. Len(faceRead)
  BY <1>1, <1>3 DEF PlaybackTypeOK
<1> QED
  BY <1>1, <1>2, <1>3, <1>4, <1>5, <1>6 DEF Indexed

(* The loop of Tick stops at the depth frame that is due.                 *)
LEMMA DepthLoop ==
  ASSUME PlaybackInv, NEW d \in DOMAIN depth, CaughtUp(depth, depthIdx, d)
  PROVE  Due(depth, d, curtime)
<1>0. Indexed /\ DepthInv
  BY TypedIsIndexed DEF PlaybackInv
<1>1. ASSUME NEW k \in 2 .. d PROVE depth[k] <= curtime
  <2>1. k \in 2 .. depthIdx \/ k \in depthIdx + 1 .. d
    BY <1>0 DEF Indexed
  <2> QED
    BY <1>0, <2>1 DEF DepthInv, CaughtUp
<1>2. ASSUME NEW k \in d + 1 .. Len(depth) PROVE depth[k] > curtime
  <2>1. d \in 1 .. Len(depth) /\ Len(depth) \in Nat /\ DOMAIN depth = 1 .. Len(depth)
    BY <1>0 DEF Indexed
  <2>2. d < Len(depth) /\ d + 1 \in 1 .. Len(depth) /\ k \in 1 .. Len(depth)
    BY <1>2, <2>1
  <2>3. depth[d + 1] > curtime
    BY <2>2 DEF CaughtUp
  <2>4. depth[d + 1] \in Nat /\ depth[k] \in Nat /\ curtime \in Nat
    BY <1>0, <2>2 DEF Indexed
  <2>5. depth[d + 1] <= depth[k]
    <3>1. d + 1 = k \/ d + 1 < k
      BY <1>2, <2>1
    <3>2. CASE d + 1 = k
      BY <2>4, <3>2
    <3>3. CASE d + 1 < k
      BY <1>0, <2>1, <2>2, <3>3 DEF DepthInv, Sorted
    <3> QED
      BY <3>1, <3>2, <3>3
  <2> QED
    BY <2>3, <2>4, <2>5
<1> QED
  BY <1>1, <1>2 DEF Due

(* It stops at the face that is due while the stamps are right, and never *)
(* before it.                                                             *)
LEMMA FaceLoop ==
  ASSUME PlaybackInv, NEW f \in DOMAIN face, CaughtUp(face, faceIdx, f)
  PROVE  /\ wraps = 0 \/ appStart = 0 => Due(faceRead, f, curtime)
         /\ \A k \in f + 1 .. Len(faceRead) : faceRead[k] > curtime
<1>0. Indexed /\ FaceInv
  BY TypedIsIndexed DEF PlaybackInv
<1>1. ASSUME NEW k \in f + 1 .. Len(faceRead) PROVE faceRead[k] > curtime
  <2>1. /\ f \in 1 .. Len(faceRead) /\ Len(faceRead) \in Nat
        /\ Len(face) = Len(faceRead) /\ DOMAIN face = 1 .. Len(faceRead)
        /\ DOMAIN faceRead = 1 .. Len(faceRead)
    BY <1>0 DEF Indexed
  <2>2. f < Len(face) /\ f + 1 \in 1 .. Len(faceRead) /\ k \in 1 .. Len(faceRead)
    BY <1>1, <2>1
  <2>3. face[f + 1] > curtime
    BY <2>2 DEF CaughtUp
  <2>4. face[f + 1] <= faceRead[f + 1]
    BY <1>0, <2>1, <2>2 DEF FaceInv
  <2>5. faceRead[f + 1] <= faceRead[k]
    <3>1. f + 1 = k \/ f + 1 < k
      BY <1>1, <2>1
    <3>2. CASE f + 1 = k
      BY <1>0, <2>2, <3>2 DEF Indexed
    <3>3. CASE f + 1 < k
      BY <1>0, <2>1, <2>2, <3>3 DEF FaceInv, Sorted
    <3> QED
      BY <3>1, <3>2, <3>3
  <2>6. /\ face[f + 1] \in Int /\ faceRead[f + 1] \in Nat /\ faceRead[k] \in Nat
        /\ curtime \in Nat
    BY <1>0, <2>2 DEF Indexed
  <2> QED
    BY <2>3, <2>4, <2>5, <2>6
<1>2. ASSUME wraps = 0 \/ appStart = 0, NEW k \in 2 .. f PROVE faceRead[k] <= curtime
  <2>1. CASE k <= faceIdx
    BY <1>0, <1>2, <2>1 DEF FaceInv, Indexed
  <2>2. CASE k > faceIdx
    <3>1. k \in faceIdx + 1 .. f /\ k \in faceIdx + 1 .. Len(face)
      BY <1>0, <2>2 DEF Indexed
    <3>2. k \in DOMAIN faceRead /\ face[k] = faceRead[k]
      BY <1>0, <1>2, <3>1 DEF FaceInv, Indexed
    <3> QED
      BY <3>1, <3>2 DEF CaughtUp
  <2> QED
    BY <1>0, <2>1, <2>2 DEF Indexed
<1> QED
  BY <1>1, <1>2 DEF Due

(* Application's start time is the first depth frame's stamp, also when   *)
(* the first Tick passes over frames with the same stamp.                 *)
LEMMA StartIsFirstStamp ==
  ASSUME PlaybackInv, NEW d \in DOMAIN depth, CaughtUp(depth, depthIdx, d), NEW f
  PROVE  AppStart(d, f) = depth[1] /\ depth[1] \in Nat
<1>0. Indexed
  BY TypedIsIndexed DEF PlaybackInv
<1> USE <1>0 DEF Indexed, PlaybackInv
<1>1. depth[1] \in Nat /\ 1 \in DOMAIN depth /\ depth[d] \in Nat
  OBVIOUS
<1>2. CASE firsttick
  <2>1. curtime <= depth[1] /\ appStart = -1
    BY <1>1, <1>2 DEF FirstInv, StartTime, Least
  <2>2. depth[1] <= depth[d]
    BY <1>1 DEF DepthInv, Sorted
  <2>3. d = 1 \/ depth[d] <= curtime
    BY DepthLoop DEF Due
  <2> QED
    BY <1>1, <2>1, <2>2, <2>3 DEF AppStart
<1>3. CASE ~firsttick
  BY <1>1, <1>3 DEF DepthInv, AppStart
<1> QED
  BY <1>2, <1>3

(* What one Tick does to the faces: the one it shows, if any, moves back. *)
LEMMA FacesMove ==
  ASSUME PlaybackInv, NEW d \in DOMAIN depth, NEW f \in DOMAIN face, Tick(d, f)
  PROVE  /\ appStart' = depth[1] /\ depth[1] \in Nat
         /\ face' \in Seq(Int) /\ Len(face') = Len(face) /\ DOMAIN face' = DOMAIN face
         /\ \A k \in DOMAIN face : \/ face'[k] = face[k]
                                   \/ k = f /\ face'[k] = face[k] - depth[1]
<1>1. CaughtUp(depth, depthIdx, d) /\ appStart' = AppStart(d, f) /\ ShowFace(f, appStart')
  BY DEF Tick
<1>2. appStart' = depth[1] /\ depth[1] \in Nat
  BY <1>1, StartIsFirstStamp
<1>3. face \in Seq(Int) /\ f \in 1 .. Len(face)
  <2>1. face \in Seq(Int)
    BY DEF PlaybackInv, PlaybackTypeOK
  <2> QED
    BY <2>1
<1>4. CASE UNCHANGED face
  BY <1>2, <1>3, <1>4
<1>5. CASE face' = [face EXCEPT ![f] = @ - depth[1]]
  <2>1. face[f] - depth[1] \in Int
    BY <1>2, <1>3
  <2> QED
    BY <1>2, <1>3, <1>5, <2>1
<1> QED
  BY <1>1, <1>2, <1>4, <1>5 DEF ShowFace

LEMMA TickTypes ==
  ASSUME PlaybackInv, NEW d \in DOMAIN depth, NEW f \in DOMAIN face, Tick(d, f)
  PROVE  PlaybackTypeOK'
<1>0. Indexed /\ PlaybackTypeOK
  BY TypedIsIndexed DEF PlaybackInv
<1>1. /\ depth' \in Seq(Nat) /\ Len(depth') >= 1
      /\ faceRead' \in Seq(Nat) /\ Len(faceRead') >= 1
      /\ UNCHANGED fileVars
  BY <1>0 DEF Tick, fileVars, PlaybackTypeOK
<1>2. face' \in Seq(Int) /\ Len(face') = Len(faceRead') /\ DOMAIN face' = DOMAIN face
  BY <1>0, <1>1, FacesMove DEF Indexed, fileVars
<1>3. appStart' \in Nat
  BY FacesMove
<1>4. /\ firsttick' \in BOOLEAN
      /\ curtime' \in StartTime' .. EndTime'
      /\ depthIdx' \in DOMAIN depth' /\ faceIdx' \in DOMAIN face'
      /\ wraps' \in Nat
  <2>1. /\ StartTime' = StartTime /\ EndTime' = EndTime
        /\ DOMAIN depth' = DOMAIN depth /\ DOMAIN face' = DOMAIN face
    BY <1>1, <1>2 DEF fileVars, StartTime, EndTime
  <2>2. FrameTime \in Nat /\ FrameTime > 0
    BY PlaybackAssumption DEF PlaybackAssumption
  <2>3. Advance(d, f) /\ wraps \in Nat
    BY <1>0 DEF Tick, PlaybackTypeOK
  <2>4. StartTime <= EndTime /\ 1 \in DOMAIN depth /\ 1 \in DOMAIN face
    BY <1>0 DEF Indexed
  <2>5. CASE curtime + FrameTime > EndTime
    <3>1. /\ firsttick' = FALSE /\ curtime' = StartTime /\ wraps' = wraps + 1
          /\ depthIdx' = 1 /\ faceIdx' = 1
      BY <2>3, <2>5 DEF Advance
    <3>2. StartTime \in StartTime .. EndTime /\ wraps + 1 \in Nat
      BY <1>0, <2>3, <2>4 DEF Indexed
    <3> QED
      BY <2>1, <2>4, <3>1, <3>2
  <2>6. CASE ~(curtime + FrameTime > EndTime)
    <3>1. curtime + FrameTime \in StartTime .. EndTime
      BY <1>0, <2>2, <2>6 DEF Indexed
    <3> QED
      BY <2>1, <2>3, <2>6, <3>1 DEF Advance
  <2> QED
    BY <2>5, <2>6
<1>5. time' \in Nat /\ round' \in Nat
  BY <1>0 DEF Tick, Indexed, PlaybackTypeOK
<1>6. onDepth' \in [round : Nat, at : Nat, idx : Nat, stamp : Int]
  <2>1. ShowDepth(d, appStart')
    BY DEF Tick
  <2>2. depth[d] \in Nat /\ d \in Nat /\ curtime \in Nat
    BY <1>0 DEF Indexed
  <2>3. wraps \in Nat /\ onDepth \in [round : Nat, at : Nat, idx : Nat, stamp : Int]
    BY <1>0 DEF PlaybackTypeOK
  <2>4. depth[d] - appStart' \in Int /\ wraps + 1 \in Nat
    BY <1>3, <2>2, <2>3
  <2> QED
    BY <2>1, <2>2, <2>3, <2>4 DEF ShowDepth
<1>7. onFace' \in [round : Nat, idx : Nat]
  <2>1. ShowFace(f, appStart')
    BY DEF Tick
  <2>2. f \in Nat
    BY <1>0 DEF Indexed
  <2>3. wraps \in Nat /\ onFace \in [round : Nat, idx : Nat]
    BY <1>0 DEF PlaybackTypeOK
  <2> QED
    BY <2>1, <2>2, <2>3 DEF ShowFace
<1> QED
  BY <1>1, <1>2, <1>3, <1>4, <1>5, <1>6, <1>7 DEF PlaybackTypeOK

LEMMA TickBegins ==
  ASSUME PlaybackInv, NEW d \in DOMAIN depth, NEW f \in DOMAIN face, Tick(d, f)
  PROVE  BeginInv' /\ FirstInv'
<1>1. firsttick' = FALSE /\ round' = wraps + 1 /\ wraps \in Nat
  BY DEF Tick, Advance, PlaybackInv, PlaybackTypeOK
<1> QED
  BY <1>1 DEF BeginInv, FirstInv

(* The two ways Advance can go, as the index invariants need them: within *)
(* the round the indices are what was found and the clock does not go     *)
(* back; otherwise a new round begins with both indices at the first.     *)
LEMMA Advances ==
  ASSUME PlaybackInv, NEW d \in DOMAIN depth, NEW f \in DOMAIN face, Tick(d, f)
  PROVE  /\ curtime \in Nat /\ wraps \in Nat /\ curtime' \in Nat
         /\ \/ wraps' = wraps /\ curtime' >= curtime /\ depthIdx' = d /\ faceIdx' = f
            \/ wraps' = wraps + 1 /\ depthIdx' = 1 /\ faceIdx' = 1
<1>1. curtime \in Nat /\ wraps \in Nat /\ Advance(d, f) /\ FrameTime \in Nat
  BY TypedIsIndexed, PlaybackAssumption
  DEF PlaybackAssumption, Indexed, PlaybackInv, PlaybackTypeOK, Tick
<1>2. StartTime \in Nat
  BY TypedIsIndexed DEF Indexed, PlaybackInv
<1> QED
  BY <1>1, <1>2 DEF Advance

(* Shown or not, the depth frame on show after a Tick is the one found.   *)
LEMMA DepthShown ==
  ASSUME PlaybackInv, NEW d \in DOMAIN depth, NEW f \in DOMAIN face, Tick(d, f)
  PROVE  /\ wraps \in Nat /\ onDepth.round \in Nat /\ onDepth.round <= wraps + 1
         /\ \/ /\ onDepth'.round = wraps + 1 /\ onDepth'.idx = d
               /\ onDepth'.stamp = depth[d] - depth[1]
            \/ /\ ~firsttick /\ d = depthIdx /\ onDepth' = onDepth
<1>1. ShowDepth(d, depth[1])
  BY FacesMove DEF Tick
<1>2. wraps \in Nat /\ onDepth.round \in Nat
  BY DEF PlaybackInv, PlaybackTypeOK
<1>3. onDepth.round <= wraps + 1
  BY DEF PlaybackInv, DepthInv
<1> QED
  BY <1>1, <1>2, <1>3 DEF ShowDepth

LEMMA TickDepth ==
  ASSUME PlaybackInv, NEW d \in DOMAIN depth, NEW f \in DOMAIN face, Tick(d, f)
  PROVE  DepthInv' /\ DepthOnShow'
<1>0. Indexed /\ DepthInv
  BY TypedIsIndexed DEF PlaybackInv
<1>1. /\ depth' = depth /\ firsttick' = FALSE
      /\ time' = curtime /\ round' = wraps + 1
      /\ Due(depth, d, curtime)
  BY DepthLoop DEF Tick, Advance, fileVars
<1>2. appStart' = depth[1]
  BY FacesMove
<1>3. \A k \in 2 .. depthIdx' : depth[k] <= curtime'
  <2>1. CASE curtime' >= curtime /\ depthIdx' = d
    <3>1. ASSUME NEW k \in 2 .. d PROVE depth[k] <= curtime'
      <4>1. depth[k] <= curtime
        BY <1>1 DEF Due
      <4>2. k \in 1 .. Len(depth) /\ curtime \in Nat /\ curtime' \in Nat
        <5>1. d \in 1 .. Len(depth) /\ Len(depth) \in Nat
          BY <1>0 DEF Indexed
        <5> QED
          BY <5>1, Advances
      <4>3. depth[k] \in Nat
        BY <1>0, <4>2 DEF Indexed
      <4> QED
        BY <2>1, <4>1, <4>2, <4>3
    <3> QED
      BY <2>1, <3>1
  <2>2. CASE depthIdx' = 1
    BY <2>2
  <2> QED
    BY <2>1, <2>2, Advances
<1>4. /\ onDepth'.round <= wraps' + 1
      /\ onDepth'.round = wraps' + 1 => onDepth'.idx = depthIdx'
      /\ onDepth'.round # wraps' + 1 => depthIdx' = 1
  BY <1>0, DepthShown, Advances DEF DepthInv
<1>5. onDepth'.idx \in DOMAIN depth /\ onDepth'.stamp = depth[onDepth'.idx] - depth[1]
  BY <1>0, DepthShown DEF DepthInv
<1>6. DepthInv'
  BY <1>0, <1>1, <1>2, <1>3, <1>4, <1>5 DEF DepthInv
<1>7. \/ Due(depth, onDepth'.idx, curtime)
      \/ onDepth'.round < wraps + 1 /\ Due(depth, 1, curtime)
  <2>1. CASE onDepth'.idx = d
    BY <1>1, <2>1
  <2>2. CASE d = depthIdx /\ onDepth' = onDepth
    <3>1. CASE onDepth.round = wraps + 1
      BY <1>0, <1>1, <2>2, <3>1 DEF DepthInv
    <3>2. CASE onDepth.round # wraps + 1
      BY <1>0, <1>1, <2>2, <3>2, DepthShown DEF DepthInv
    <3> QED
      BY <3>1, <3>2
  <2> QED
    BY <2>1, <2>2, DepthShown
<1>8. DepthOnShow'
  BY <1>1, <1>7 DEF DepthOnShow, Due
<1> QED
  BY <1>6, <1>8

(* The same for the face on show.                                         *)
LEMMA FaceShown ==
  ASSUME PlaybackInv, NEW d \in DOMAIN depth, NEW f \in DOMAIN face, Tick(d, f)
  PROVE  /\ wraps \in Nat /\ onFace.round \in Nat /\ onFace.round <= wraps + 1
         /\ \/ onFace'.round = wraps + 1 /\ onFace'.idx = f
            \/ f = faceIdx /\ onFace' = onFace
<1>1. ShowFace(f, depth[1])
  BY FacesMove DEF Tick
<1>2. wraps \in Nat /\ onFace.round \in Nat
  BY DEF PlaybackInv, PlaybackTypeOK
<1>3. onFace.round <= wraps + 1
  BY DEF PlaybackInv, FaceInv
<1> QED
  BY <1>1, <1>2, <1>3 DEF ShowFace

LEMMA TickFaces ==
  ASSUME PlaybackInv, NEW d \in DOMAIN depth, NEW f \in DOMAIN face, Tick(d, f)
  PROVE  FaceInv' /\ FaceOnShow'
<1>0. Indexed /\ FaceInv /\ FirstInv
  BY TypedIsIndexed DEF PlaybackInv
<1>1. /\ faceRead' = faceRead
      /\ time' = curtime /\ round' = wraps + 1
      /\ wraps = 0 \/ appStart = 0 => Due(faceRead, f, curtime)
      /\ \A k \in f + 1 .. Len(faceRead) : faceRead[k] > curtime
      /\ appStart' = depth[1] /\ depth[1] \in Nat
  BY FaceLoop, FacesMove DEF Tick, fileVars
<1>2. appStart' = 0 => (appStart = 0 \/ wraps = 0)
  BY <1>0, <1>1 DEF FirstInv, PlaybackInv, DepthInv
<1>3. \A k \in DOMAIN face : face'[k] <= faceRead[k]
  <2>1. ASSUME NEW k \in DOMAIN face PROVE face'[k] <= faceRead[k]
    <3>1. face[k] \in Int /\ faceRead[k] \in Nat /\ face[k] <= faceRead[k]
      BY <1>0 DEF Indexed, FaceInv
    <3>2. face'[k] = face[k] \/ face'[k] = face[k] - depth[1]
      BY FacesMove
    <3> QED
      BY <1>1, <3>1, <3>2
  <2> QED
    BY <2>1
<1>4. wraps' = 0 => \A k \in faceIdx' + 1 .. Len(face') : face'[k] = faceRead[k]
  <2> SUFFICES ASSUME wraps' = 0, NEW k \in faceIdx' + 1 .. Len(face')
               PROVE  face'[k] = faceRead[k]
    OBVIOUS
  <2>1. wraps = 0 /\ faceIdx' = f
    BY Advances
  <2>2. /\ f >= faceIdx /\ Len(face') = Len(face) /\ f \in 1 .. Len(face)
        /\ faceIdx \in 1 .. Len(face) /\ Len(face) \in Nat /\ DOMAIN face = 1 .. Len(face)
    BY <1>0, FacesMove DEF Tick, CaughtUp, Indexed
  <2>3. k \in faceIdx + 1 .. Len(face) /\ k \in DOMAIN face /\ k # f
    BY <2>1, <2>2
  <2>4. face'[k] = face[k]
    BY <2>3, FacesMove
  <2> QED
    BY <1>0, <2>1, <2>3, <2>4 DEF FaceInv
<1>5. appStart' = 0 => face' = faceRead
  <2> SUFFICES ASSUME appStart' = 0 PROVE face' = faceRead
    OBVIOUS
  <2>1. face = faceRead
    BY <1>0, <1>1 DEF FirstInv, FaceInv, PlaybackInv, DepthInv
  <2>2. ShowFace(f, 0)
    BY DEF Tick
  <2>3. face \in Seq(Int) /\ \A k \in DOMAIN face : face[k] \in Int
    BY <1>0 DEF Indexed, PlaybackInv, PlaybackTypeOK
  <2>4. [face EXCEPT ![f] = @ - 0] = face
    BY <2>3
  <2> QED
    BY <2>1, <2>2, <2>4 DEF ShowFace
<1>6. wraps' = 0 \/ appStart' = 0 => \A k \in 2 .. faceIdx' : faceRead[k] <= curtime'
  <2> SUFFICES ASSUME wraps' = 0 \/ appStart' = 0, NEW k \in 2 .. faceIdx'
               PROVE  faceRead[k] <= curtime'
    OBVIOUS
  <2>1. wraps = 0 \/ appStart = 0
    BY <1>2, Advances
  <2>2. curtime' >= curtime /\ faceIdx' = f
    BY Advances
  <2>3. faceRead[k] <= curtime
    BY <1>1, <2>1, <2>2 DEF Due
  <2>4. faceRead[k] \in Nat /\ curtime \in Nat /\ curtime' \in Nat
    <3>1. f \in 1 .. Len(faceRead) /\ Len(faceRead) \in Nat
      BY <1>0 DEF Indexed
    <3>2. k \in 1 .. Len(faceRead)
      BY <2>2, <3>1
    <3> QED
      BY <1>0, <3>2, Advances DEF Indexed
  <2> QED
    BY <2>2, <2>3, <2>4
<1>7. /\ onFace'.round <= wraps' + 1
      /\ onFace'.round = wraps' + 1 => onFace'.idx = faceIdx'
      /\ onFace'.round # wraps' + 1 => faceIdx' = 1
  BY <1>0, FaceShown, Advances DEF FaceInv
<1>8. FaceInv'
  BY <1>0, <1>1, <1>3, <1>4, <1>5, <1>6, <1>7, FacesMove DEF FaceInv
<1>9. \/ onFace'.idx = f
      \/ onFace'.round < wraps + 1 /\ f = 1
  BY <1>0, FaceShown DEF FaceInv
<1>10. round' = 1 \/ appStart' = 0 =>
         \/ Due(faceRead, onFace'.idx, curtime)
         \/ onFace'.round < round' /\ Due(faceRead, 1, curtime)
  BY <1>1, <1>2, <1>9, FaceShown
<1>11. ASSUME NEW k \in 2 .. Len(faceRead), faceRead[k] <= curtime
       PROVE  onFace'.round = wraps + 1 /\ k <= onFace'.idx
  <2>1. faceRead[k] \in Nat /\ curtime \in Nat /\ f \in Nat
    BY <1>0 DEF Indexed
  <2>2. k <= f
    BY <1>1, <1>11, <2>1
  <2> QED
    BY <1>0, <2>1, <2>2, FaceShown DEF FaceInv
<1>12. FaceOnShow'
  BY <1>1, <1>10, <1>11 DEF FaceOnShow, Due
<1> QED
  BY <1>8, <1>12
-----------------------------------------------------------------------------
(* The invariant and the two properties of what is on show, together.     *)
OnShowInv == PlaybackInv /\ DepthOnShow /\ FaceOnShow

LEMMA OnShow == PlaybackSpec => []OnShowInv
<1>1. PlaybackInit => OnShowInv
  BY PlaybackBegins DEF OnShowInv, DepthOnShow, FaceOnShow, PlaybackInit
<1>2. OnShowInv /\ [PlaybackNext]_playbackVars => OnShowInv'
  <2> SUFFICES ASSUME OnShowInv, [PlaybackNext]_playbackVars PROVE OnShowInv'
    OBVIOUS
  <2>1. ASSUME NEW d \in DOMAIN depth, NEW f \in DOMAIN face, Tick(d, f)
        PROVE  OnShowInv'
    BY <2>1, TickTypes, TickBegins, TickDepth, TickFaces DEF OnShowInv, PlaybackInv
  <2>2. CASE UNCHANGED playbackVars
    BY <2>2 DEF playbackVars, fileVars, clockVars, OnShowInv, PlaybackInv, PlaybackTypeOK,
                BeginInv, FirstInv, DepthInv, FaceInv, DepthOnShow, FaceOnShow, Due, Sorted,
                StartTime, EndTime, Least, Greatest
  <2> QED
    BY <2>1, <2>2 DEF PlaybackNext
<1> QED
  BY <1>1, <1>2, PTL DEF PlaybackSpec

(* Whatever is in the file, the clock of Tick in map.cpp stays within it  *)
(* and the indices within the lists.                                      *)
THEOREM PlaybackTypeCorrect == PlaybackSpec => []PlaybackTypeOK
<1>1. OnShowInv => PlaybackTypeOK
  BY DEF OnShowInv, PlaybackInv
<1> QED
  BY <1>1, OnShow, PTL

(* Whatever is in the file, the depth frame on show is the one due, or at *)
(* the beginning of a later round what the round before ended with.       *)
THEOREM DepthIsOnShow == PlaybackSpec => []DepthOnShow
<1>1. OnShowInv => DepthOnShow
  BY DEF OnShowInv
<1> QED
  BY <1>1, OnShow, PTL

(* Whatever is in the file, faces are on time in the first round and      *)
(* never late after it, although OnFaceDataInst changes their stamps.     *)
THEOREM FacesNeverLate == PlaybackSpec => []FaceOnShow
<1>1. OnShowInv => FaceOnShow
  BY DEF OnShowInv
<1> QED
  BY <1>1, OnShow, PTL

(* Whatever is in the file, OnDepthBufferInst gives the Recorder no stamp *)
(* below 0, which is what marks a stop.                                   *)
THEOREM NoStopInFile == PlaybackSpec => []NoFalseStop
<1>1. OnShowInv => NoFalseStop
  <2> SUFFICES ASSUME PlaybackInv, onDepth.round > 0 PROVE onDepth.stamp >= 0
    BY DEF OnShowInv, NoFalseStop
  <2>1. Indexed /\ DepthInv /\ FirstInv
    BY TypedIsIndexed DEF PlaybackInv
  <2>2. onDepth.idx \in 1 .. Len(depth) /\ onDepth.stamp = depth[onDepth.idx] - depth[1]
    BY <2>1 DEF DepthInv, FirstInv, Indexed
  <2>3. depth[1] \in Nat /\ depth[onDepth.idx] \in Nat /\ 1 \in DOMAIN depth
    BY <2>1, <2>2 DEF Indexed
  <2>4. depth[1] <= depth[onDepth.idx]
    <3>1. onDepth.idx \in DOMAIN depth /\ (onDepth.idx = 1 \/ 1 < onDepth.idx)
      BY <2>1, <2>2 DEF Indexed
    <3> QED
      BY <2>1, <2>3, <3>1 DEF DepthInv, Sorted
  <2> QED
    BY <2>2, <2>3, <2>4
<1> QED
  BY <1>1, OnShow, PTL

(* Whatever is in the file, the encoder gets no depth frame twice in a    *)
(* round and no stamp that goes back.                                     *)
THEOREM EncoderGoesForward == PlaybackSpec => DepthGoesForward
<1>1. OnShowInv /\ [PlaybackNext]_playbackVars =>
        [onDepth' # onDepth /\ onDepth'.round = onDepth.round
           => onDepth'.idx > onDepth.idx /\ onDepth'.stamp >= onDepth.stamp]_playbackVars
  <2> SUFFICES ASSUME PlaybackInv, NEW d \in DOMAIN depth, NEW f \in DOMAIN face, Tick(d, f),
                      onDepth' # onDepth, onDepth'.round = onDepth.round
               PROVE  onDepth'.idx > onDepth.idx /\ onDepth'.stamp >= onDepth.stamp
    BY DEF OnShowInv, PlaybackNext
  <2>1. Indexed /\ DepthInv /\ FirstInv
    BY TypedIsIndexed DEF PlaybackInv
  <2>2. ShowDepth(d, depth[1]) /\ CaughtUp(depth, depthIdx, d)
    BY FacesMove DEF Tick
  <2>3. /\ firsttick \/ d # depthIdx
        /\ onDepth.round = wraps + 1 /\ wraps \in Nat
        /\ onDepth'.idx = d /\ onDepth'.stamp = depth[d] - depth[1]
    <3>1. wraps \in Nat
      BY DEF PlaybackInv, PlaybackTypeOK
    <3> QED
      BY <2>2, <3>1 DEF ShowDepth
  <2>4. ~firsttick /\ onDepth.idx = depthIdx /\ d # depthIdx
    BY <2>1, <2>3 DEF DepthInv, FirstInv
  <2>5. d \in 1 .. Len(depth) /\ depthIdx \in 1 .. Len(depth) /\ d > depthIdx
    BY <2>1, <2>2, <2>4 DEF Indexed, CaughtUp
  <2>6. onDepth.stamp = depth[depthIdx] - depth[1]
    BY <2>1, <2>4 DEF DepthInv
  <2>7. depth[1] \in Nat /\ depth[depthIdx] \in Nat /\ depth[d] \in Nat
    BY <2>1, <2>5 DEF Indexed
  <2>8. depth[depthIdx] <= depth[d]
    <3>1. depthIdx \in DOMAIN depth /\ depthIdx < d
      BY <2>1, <2>5 DEF Indexed
    <3> QED
      BY <2>1, <3>1 DEF DepthInv, Sorted
  <2> QED
    BY <2>3, <2>4, <2>5, <2>6, <2>7, <2>8
<1> QED
  BY <1>1, OnShow, PTL DEF PlaybackSpec, DepthGoesForward
=============================================================================
