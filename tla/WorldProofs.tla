----------------------------- MODULE WorldProofs -----------------------------
(***************************************************************************)
(* Theorems about World: about its visuals and the start time (WorldVis),  *)
(* for any clock, tolerance and bounds; and about its input (Input), for   *)
(* any places, widths and fingers and any number of axes: the camera moves *)
(* only along keys that are down or whose release the window could not     *)
(* see, and a drag is one of the last press.                               *)
(***************************************************************************)
EXTENDS WorldVis, Input, SequenceTheorems, TLAPS

(***************************************************************************)
(* The visuals and the start time.                                         *)
(***************************************************************************)
LEMMA TailNotEmpty ==
  ASSUME NEW s \in Seq(Visuals), s # << >>, Len(s) # 1
  PROVE  Tail(s) # << >>
<1>1. Len(s) \in Nat \ {0} /\ Len(Tail(s)) = Len(s) - 1
  BY EmptySeq, HeadTailProperties
<1> QED BY <1>1, EmptySeq

LEMMA InitType == WorldInit => WorldTypeOK
<1>1. << >> \in Seq(Visuals)
  BY EmptySeq
<1>5. -1 \in -1 .. 7 /\ -1 \in Int
  OBVIOUS
<1>2. ASSUME WorldInit
      PROVE  /\ mode \in 0 .. 7 /\ prevMode \in -1 .. 7 /\ made \in Nat /\ target \in Nat
             /\ start \in Int /\ device \in Int /\ starts \in Nat
             /\ stamp \in Int /\ presses \in Nat
  BY <1>2, <1>5 DEF WorldInit
<1>6. WorldInit => torn \in BOOLEAN
  BY DEF WorldInit
<1>3. ASSUME WorldInit
      PROVE  /\ visual \in [Visuals -> Nat]
             /\ face \in [stamp : Int, verts : Nat, idx : Nat]
             /\ lastDepth \in [time : Int, stamp : Int]
             /\ copied \in [verts : Nat, room : Nat]
             /\ shown \in [verts : Nat, room : Nat, idx : Nat]
  BY <1>3 DEF WorldInit, NoFace
<1>4. ASSUME WorldInit
      PROVE  /\ cam \in CamStates /\ kind \in {"depth", "face"} /\ which \in Visuals
             /\ now \in Nat /\ draw \in DrawStates /\ draw \notin {"drop", "make"}
             /\ todo \in Seq(Visuals)
  BY <1>1, <1>4, WorldAssumption DEF WorldInit, CamStates, DrawStates, Visuals, WorldAssumption
<1> QED BY <1>2, <1>3, <1>4, <1>6 DEF WorldTypeOK

(* The steps of a callback keep the types. *)
LEMMA CameraType == WorldTypeOK /\ Camera => WorldTypeOK'
<1> SUFFICES ASSUME WorldTypeOK, Camera PROVE WorldTypeOK'
  OBVIOUS
<1> USE DEF worldVars, stampVars, drawVars
<1>1. CASE FrameArrives
  <2>1. now' \in Nat /\ cam' \in CamStates /\ kind' \in {"depth", "face"}
    BY <1>1 DEF FrameArrives, WorldTypeOK, CamStates
  <2> QED BY <1>1, <2>1 DEF FrameArrives, WorldTypeOK
<1>2. CASE TestStart
  <2>1. cam' \in CamStates
    BY <1>2 DEF TestStart, CamStates
  <2> QED BY <1>2, <2>1 DEF TestStart, WorldTypeOK, cameraVars
<1>3. CASE SetStart
  <2>1. cam' \in CamStates /\ start' \in Int /\ starts' \in Nat
    BY <1>3 DEF SetStart, WorldTypeOK, CamStates
  <2> QED BY <1>3, <2>1 DEF SetStart, WorldTypeOK, cameraVars
<1>4. CASE Subtract
  <2>1. /\ cam' \in CamStates /\ stamp' \in Int /\ which' \in Visuals
        /\ lastDepth' \in [time : Int, stamp : Int]
    BY <1>4 DEF Subtract, WorldTypeOK, CamStates, Visuals
  <2> QED BY <1>4, <2>1 DEF Subtract, WorldTypeOK
<1>5. CASE TestVisual
  <2>1. cam' \in CamStates /\ which' \in Visuals
    BY <1>5 DEF TestVisual, Leave, WorldTypeOK, CamStates, Visuals
  <2> QED BY <1>5, <2>1 DEF TestVisual, WorldTypeOK
<1>6. CASE ReadVisual
  <2>1. cam' \in CamStates /\ target' \in Nat
    BY <1>6 DEF ReadVisual, WorldTypeOK, CamStates
  <2> QED BY <1>6, <2>1 DEF ReadVisual, WorldTypeOK
<1>7. CASE UseDropped
  <2>1. cam' \in CamStates
    BY <1>7 DEF UseDropped, CamStates
  <2> QED BY <1>7, <2>1 DEF UseDropped, WorldTypeOK, cameraVars
<1>8. CASE UseVisual
  <2>1. cam' \in CamStates /\ which' \in Visuals
    BY <1>8 DEF UseVisual, Leave, WorldTypeOK, CamStates, Visuals
  <2> QED BY <1>8, <2>1 DEF UseVisual, WorldTypeOK
<1>9. CASE StampFace
  <2>1. cam' \in CamStates /\ face' \in [stamp : Int, verts : Nat, idx : Nat]
    BY <1>9 DEF StampFace, WorldTypeOK, CamStates
  <2> QED BY <1>9, <2>1 DEF StampFace, WorldTypeOK, cameraVars
<1>10. CASE StoreFace
  <2>1. /\ cam' \in CamStates /\ face' \in [stamp : Int, verts : Nat, idx : Nat]
        /\ torn' \in BOOLEAN
    BY <1>10 DEF StoreFace, WorldTypeOK, CamStates
  <2> QED BY <1>10, <2>1 DEF StoreFace, WorldTypeOK, cameraVars
<1> QED BY <1>1, <1>2, <1>3, <1>4, <1>5, <1>6, <1>7, <1>8, <1>9, <1>10 DEF Camera

(* So do those of Tick and Draw. *)
LEMMA RenderingType == WorldTypeOK /\ Rendering => WorldTypeOK'
<1> SUFFICES ASSUME WorldTypeOK, Rendering PROVE WorldTypeOK'
  OBVIOUS
<1> USE DEF worldVars, stampVars, cameraVars
<1>0. InOrder \in Seq(Visuals) /\ InOrder # << >> /\ \A s \in Seq(Visuals) :
        s # << >> => Head(s) \in Visuals /\ Tail(s) \in Seq(Visuals)
  <2>1. InOrder \in Seq(Visuals) /\ Len(InOrder) = 3
    BY DEF InOrder, Visuals
  <2>2. InOrder # << >>
    BY <2>1, EmptySeq
  <2> QED BY <2>1, <2>2, HeadTailProperties
<1>1. CASE TickTest
  <2>1. draw' \in DrawStates
    BY <1>1 DEF TickTest, DrawStates
  <2> QED BY <1>1, <2>1 DEF TickTest, WorldTypeOK, drawVars
<1>2. CASE TickSet
  <2>1. draw' \in DrawStates /\ start' \in Int /\ starts' \in Nat
    BY <1>2 DEF TickSet, DrawStates, DeviceTime, WorldTypeOK
  <2> QED BY <1>2, <2>1 DEF TickSet, WorldTypeOK, drawVars
<1>3. CASE TickDevice
  <2>1. draw' \in DrawStates /\ device' \in Int
    BY <1>3 DEF TickDevice, DrawStates, DeviceTime, WorldTypeOK
  <2> QED BY <1>3, <2>1 DEF TickDevice, WorldTypeOK
<1>4. CASE Update
  <2>1. draw' \in DrawStates /\ todo' \in Seq(Visuals)
        /\ (draw' \in {"drop", "make"} => todo' # << >>)
    BY <1>0, <1>4 DEF Update, DrawStates, WorldTypeOK
  <2> QED BY <1>4, <2>1 DEF Update, WorldTypeOK, drawVars
<1>5. CASE Drop
  <2>1. todo \in Seq(Visuals) /\ todo # << >> /\ Len(todo) \in Nat
    BY <1>5, LenProperties DEF Drop, WorldTypeOK
  <2>2. Len(todo) # 1 => Tail(todo) # << >>
    BY <2>1, TailNotEmpty
  <2>3. draw' \in DrawStates /\ todo' \in Seq(Visuals) /\ todo' # << >>
        /\ visual' \in [Visuals -> Nat]
    BY <1>0, <1>5, <2>1, <2>2 DEF Drop, DrawStates, WorldTypeOK
  <2> QED BY <1>5, <2>3 DEF Drop, WorldTypeOK, drawVars
<1>6. CASE Make
  <2>1. todo \in Seq(Visuals) /\ todo # << >> /\ Len(todo) \in Nat
    BY <1>6, LenProperties DEF Make, WorldTypeOK
  <2>2. Len(todo) # 1 => Tail(todo) # << >>
    BY <2>1, TailNotEmpty
  <2>3. /\ draw' \in DrawStates /\ todo' \in Seq(Visuals)
        /\ (draw' \in {"drop", "make"} => todo' # << >>)
    BY <1>0, <1>6, <2>1, <2>2 DEF Make, DrawStates, WorldTypeOK
  <2>4. made' \in Nat /\ visual' \in [Visuals -> Nat]
    <3>1. made \in Nat /\ made + 1 \in Nat /\ visual \in [Visuals -> Nat]
      BY DEF WorldTypeOK
    <3> QED BY <1>6, <3>1 DEF Make
  <2>6. prevMode' \in -1 .. 7
    <3>1. \A m \in 0 .. 7 : m \in -1 .. 7
      OBVIOUS
    <3> QED BY <1>6, <3>1 DEF Make, WorldTypeOK
  <2>5. face' \in [stamp : Int, verts : Nat, idx : Nat]
    BY <1>6 DEF Make, NoFace, WorldTypeOK
  <2> QED BY <1>6, <2>3, <2>4, <2>5, <2>6 DEF Make, WorldTypeOK, drawVars
<1>7. CASE DrawEmpty \/ DrawLate
  <2>1. draw' \in DrawStates /\ draw' \notin {"drop", "make"}
    BY <1>7 DEF DrawEmpty, DrawLate, DrawStates
  <2> QED BY <1>7, <2>1 DEF DrawEmpty, DrawLate, WorldTypeOK, drawVars
<1>8. CASE CopyVertices \/ MakeRoom
  <2>1. draw' \in DrawStates /\ draw' \notin {"drop", "make"}
    BY <1>8 DEF CopyVertices, MakeRoom, DrawStates
  <2>2. copied' \in [verts : Nat, room : Nat]
    BY <1>8 DEF CopyVertices, MakeRoom, WorldTypeOK
  <2> QED BY <1>8, <2>1, <2>2 DEF CopyVertices, MakeRoom, WorldTypeOK
<1>9. CASE CopyIndices
  <2>1. draw' \in DrawStates /\ draw' \notin {"drop", "make"}
    BY <1>9 DEF CopyIndices, DrawStates
  <2>2. shown' \in [verts : Nat, room : Nat, idx : Nat]
    BY <1>9 DEF CopyIndices, WorldTypeOK
  <2> QED BY <1>9, <2>1, <2>2 DEF CopyIndices, WorldTypeOK
<1>10. CASE Button
  <2>1. draw' \in DrawStates /\ draw' \notin {"drop", "make"}
    BY <1>10 DEF Button, DrawStates
  <2>2. mode' \in 0 .. 7
    <3>1. mode \in 0 .. 7 /\ (mode + 1) % 8 \in 0 .. 7
      BY DEF WorldTypeOK
    <3> QED BY <1>10, <3>1 DEF Button
  <2>3. presses' \in Nat
    BY <1>10 DEF Button, WorldTypeOK
  <2> QED BY <1>10, <2>1, <2>2, <2>3 DEF Button, WorldTypeOK, drawVars
<1> QED BY <1>1, <1>2, <1>3, <1>4, <1>5, <1>6, <1>7, <1>8, <1>9, <1>10 DEF Rendering

LEMMA StepType == WorldTypeOK /\ [WorldNext]_visVars => WorldTypeOK'
<1>1. WorldTypeOK /\ UNCHANGED visVars => WorldTypeOK'
  BY DEF WorldTypeOK, visVars, worldVars, stampVars, cameraVars, drawVars
<1> QED BY <1>1, CameraType, RenderingType DEF WorldNext

(* The two threads keep the types whatever their interleaving; Update      *)
(* always has a visual left to drop or to make when it is at that.         *)
THEOREM WorldTypeCorrect == WorldSpec => []WorldTypeOK
BY InitType, StepType, PTL DEF WorldSpec
-----------------------------------------------------------------------------
Calling == {"test", "read", "use", "stamp", "store"}

(* Each thread sets sStartTime at most once; a depth frame was not stamped *)
(* before, and none was stamped later than the start allows.               *)
StartInv ==
  /\ start >= -1 /\ start <= now /\ (start < 0 <=> starts = 0)
  /\ now >= FirstTime /\ starts <= 2
  /\ cam = "set" => starts <= 1 /\ lastDepth.time = -1
  /\ draw = "tickSet" => starts <= 1
  /\ cam = "set" /\ draw = "tickSet" => starts = 0
  /\ cam = "subtract" \/ cam \in Calling \/ draw \notin {"tick", "tickSet"} => starts > 0
  /\ \/ lastDepth.time = -1 /\ lastDepth.stamp = -1
     \/ /\ starts > 0 /\ 0 <= lastDepth.stamp
        /\ lastDepth.stamp <= lastDepth.time - start
  /\ kind = "depth" /\ cam \in {"start", "set", "subtract"} => now > lastDepth.time
  /\ lastDepth.time <= now

Tails == {<<"planes", "pts", "face">>, <<"pts", "face">>, <<"face">>}

(* The visuals still to drop or to make, and what is null meanwhile.       *)
TodoInv ==
  /\ draw \in {"drop", "make"} => todo \in Tails
  /\ draw = "make" => visual["face"] = 0
  /\ target <= made /\ \A v \in Visuals : visual[v] <= made
  /\ cam \in {"stamp", "store"} => which = "face"

(* With the start set once, the device time is minus the start and a       *)
(* face's stamp its time minus the start: they are FirstTime or more apart. *)
LateInv ==
  /\ starts <= 1 =>
       /\ cam \in Calling => stamp + start >= FirstTime
       /\ face.verts # 0 => face.stamp + start >= FirstTime
       /\ cam = "store" /\ Alive => face.stamp + start >= FirstTime
       /\ draw \notin {"tick", "tickSet", "tickDevice"} => device = -start
  /\ face.verts # 0 => starts > 0
  /\ draw \in {"late", "verts", "room", "idx"} => face.verts # 0
  /\ draw \in {"verts", "room", "idx"} \/ shown.verts # 0 => starts = 2

(* What Draw has copied belongs together unless a face was stored since.   *)
CopyInv ==
  /\ face.verts = face.idx
  /\ ~torn /\ draw \in {"room", "idx"} => copied.verts = face.verts
  /\ ~torn /\ draw = "idx" => copied.room = face.verts
  /\ shown.verts # 0 => torn \/ (shown.verts = shown.room /\ shown.room = shown.idx)

(* Before the button is pressed, Update makes the visuals once and drops   *)
(* none, so what a callback has found stays.                               *)
ModeInv ==
  presses = 0 =>
    /\ mode = 6 /\ prevMode \in {-1, 6}
    /\ draw \in {"drop", "make"} => prevMode = -1
    /\ prevMode = -1 /\ draw # "make" => \A v \in Visuals : visual[v] = 0
    /\ draw = "make" => \A i \in DOMAIN todo : visual[todo[i]] = 0
    /\ cam = "read" => visual[which] # 0
    /\ cam \in {"use", "stamp", "store"} => Alive
    /\ cam # "fault"

VisInv == StartInv /\ TodoInv /\ LateInv /\ CopyInv /\ ModeInv

LEMMA InitVisInv == WorldInit => VisInv
<1> SUFFICES ASSUME WorldInit PROVE VisInv
  OBVIOUS
<1>0. FirstTime \in Nat
  BY WorldAssumption DEF WorldAssumption
<1>1. StartInv
  BY <1>0 DEF WorldInit, StartInv, Calling
<1>2. TodoInv
  BY DEF WorldInit, TodoInv
<1>3. LateInv
  BY DEF WorldInit, LateInv, NoFace, Calling
<1>4. CopyInv
  BY DEF WorldInit, CopyInv, NoFace
<1>5. ModeInv
  BY DEF WorldInit, ModeInv
<1> QED BY <1>1, <1>2, <1>3, <1>4, <1>5 DEF VisInv

(* The numbers the invariants are about. *)
LEMMA Numbers ==
  ASSUME WorldTypeOK
  PROVE  /\ now \in Nat /\ start \in Int /\ starts \in Nat /\ stamp \in Int /\ device \in Int
         /\ lastDepth \in [time : Int, stamp : Int]
         /\ lastDepth.time \in Int /\ lastDepth.stamp \in Int
         /\ face \in [stamp : Int, verts : Nat, idx : Nat]
         /\ face.stamp \in Int /\ face.verts \in Nat /\ face.idx \in Nat
         /\ made \in Nat /\ target \in Nat /\ visual \in [Visuals -> Nat]
         /\ presses \in Nat /\ which \in Visuals
         /\ FirstTime \in Nat /\ Tolerance \in Nat /\ FirstTime > Tolerance
BY WorldAssumption DEF WorldTypeOK, WorldAssumption

(* The start time and the stamps of depth frames, action by action. *)
LEMMA StartStep ==
  ASSUME WorldTypeOK, StartInv, [WorldNext]_visVars
  PROVE  StartInv'
<1> USE Numbers DEF StartInv, Calling, worldVars, stampVars, cameraVars, drawVars
<1>1. CASE FrameArrives
  BY <1>1 DEF FrameArrives
<1>2. CASE TestStart
  BY <1>2 DEF TestStart
<1>3. CASE SetStart
  BY <1>3 DEF SetStart
<1>4. CASE Subtract
  BY <1>4 DEF Subtract
<1>5. CASE TestVisual
  BY <1>5 DEF TestVisual, Leave
<1>6. CASE ReadVisual
  BY <1>6 DEF ReadVisual
<1>7. CASE UseDropped
  BY <1>7 DEF UseDropped
<1>8. CASE UseVisual
  BY <1>8 DEF UseVisual, Leave
<1>9. CASE StampFace
  BY <1>9 DEF StampFace
<1>10. CASE StoreFace
  BY <1>10 DEF StoreFace
<1>11. CASE TickTest
  BY <1>11 DEF TickTest
<1>12. CASE TickSet
  BY <1>12 DEF TickSet, DeviceTime
<1>13. CASE TickDevice
  BY <1>13 DEF TickDevice, DeviceTime
<1>14. CASE Update
  BY <1>14 DEF Update
<1>15. CASE Drop
  BY <1>15 DEF Drop
<1>16. CASE Make
  BY <1>16 DEF Make
<1>17. CASE DrawEmpty
  BY <1>17 DEF DrawEmpty
<1>18. CASE DrawLate
  BY <1>18 DEF DrawLate
<1>19. CASE CopyVertices
  BY <1>19 DEF CopyVertices
<1>20. CASE MakeRoom
  BY <1>20 DEF MakeRoom
<1>21. CASE CopyIndices
  BY <1>21 DEF CopyIndices
<1>22. CASE Button
  BY <1>22 DEF Button
<1>23. CASE UNCHANGED visVars
  BY <1>23 DEF visVars
<1> QED
  BY <1>1, <1>2, <1>3, <1>4, <1>5, <1>6, <1>7, <1>8, <1>9, <1>10, <1>11, <1>12, <1>13,
     <1>14, <1>15, <1>16, <1>17, <1>18, <1>19, <1>20, <1>21, <1>22, <1>23
     DEF WorldNext, Camera, Rendering

LEMMA TodoOrder ==
  /\ InOrder \in Tails
  /\ \A s \in Tails :
       /\ Head(s) \in Visuals /\ Len(s) \in Nat /\ Len(s) >= 1
       /\ Len(s) = 1 <=> Head(s) = "face"
       /\ Len(s) # 1 => Tail(s) \in Tails
BY DEF InOrder, Tails, Visuals

(* What Update has dropped and made, and the pointers read. *)
LEMMA TodoStep ==
  ASSUME WorldTypeOK, TodoInv, [WorldNext]_visVars
  PROVE  TodoInv'
<1>0. /\ made \in Nat /\ target \in Nat /\ visual \in [Visuals -> Nat]
      /\ Visuals = {"planes", "pts", "face"} /\ which \in Visuals
  BY Numbers DEF Visuals
<1> USE DEF worldVars, stampVars, cameraVars, drawVars
<1>1. CASE FrameArrives
  BY <1>0, <1>1 DEF FrameArrives, TodoInv
<1>2. CASE TestStart
  BY <1>0, <1>2 DEF TestStart, TodoInv
<1>3. CASE SetStart
  BY <1>0, <1>3 DEF SetStart, TodoInv
<1>4. CASE Subtract
  BY <1>0, <1>4 DEF Subtract, TodoInv
<1>5. CASE TestVisual
  BY <1>0, <1>5 DEF TestVisual, Leave, TodoInv
<1>6. CASE ReadVisual
  BY <1>0, <1>6 DEF ReadVisual, TodoInv
<1>7. CASE UseDropped
  BY <1>0, <1>7 DEF UseDropped, TodoInv
<1>8. CASE UseVisual
  BY <1>0, <1>8 DEF UseVisual, Leave, TodoInv
<1>9. CASE StampFace
  BY <1>0, <1>9 DEF StampFace, TodoInv
<1>10. CASE StoreFace
  BY <1>0, <1>10 DEF StoreFace, TodoInv
<1>11. CASE TickTest
  BY <1>0, <1>11 DEF TickTest, TodoInv
<1>12. CASE TickSet
  BY <1>0, <1>12 DEF TickSet, TodoInv
<1>13. CASE TickDevice
  BY <1>0, <1>13 DEF TickDevice, TodoInv
<1>14. CASE Update
  BY <1>0, <1>14, TodoOrder DEF Update, TodoInv
<1>15. CASE Drop
  <2>1. todo \in Tails /\ target <= made /\ \A v \in Visuals : visual[v] <= made
    BY <1>15 DEF Drop, TodoInv
  <2>2. Head(todo) \in Visuals /\ (Len(todo) = 1 <=> Head(todo) = "face")
    BY <2>1, TodoOrder
  <2>3. \A v \in Visuals : visual'[v] = IF v = Head(todo) THEN 0 ELSE visual[v]
    BY <1>15, <1>0, <2>2 DEF Drop
  <2>4. ASSUME NEW v \in Visuals PROVE visual'[v] <= made
    BY <1>0, <2>1, <2>3
  <2>5. todo' \in Tails
    BY <1>15, <2>1, TodoOrder DEF Drop
  <2>6. draw' = "make" => visual'["face"] = 0
    BY <1>15, <1>0, <2>2, <2>3 DEF Drop
  <2>7. target' = target /\ made' = made /\ cam' = cam /\ which' = which
    BY <1>15 DEF Drop
  <2> QED BY <2>1, <2>4, <2>5, <2>6, <2>7 DEF TodoInv
<1>16. CASE Make
  <2>1. todo \in Tails /\ target <= made /\ \A v \in Visuals : visual[v] <= made
    BY <1>16 DEF Make, TodoInv
  <2>2. Head(todo) \in Visuals /\ (Len(todo) = 1 <=> Head(todo) = "face")
    BY <2>1, TodoOrder
  <2>3. /\ made' \in {made, made + 1}
        /\ \A v \in Visuals : visual'[v] = visual[v] \/ (v = Head(todo) /\ visual'[v] = made')
    BY <1>16, <1>0, <2>2 DEF Make
  <2>4. ASSUME NEW v \in Visuals PROVE visual'[v] <= made'
    <3>1. visual[v] \in Nat /\ visual[v] <= made /\ made <= made' /\ made' \in Nat
      BY <1>0, <2>1, <2>3
    <3>2. visual'[v] = visual[v] \/ visual'[v] = made'
      BY <2>3
    <3> QED BY <1>0, <3>1, <3>2
  <2>5. draw' \in {"drop", "make"} => todo' \in Tails
    BY <1>16, <2>1, TodoOrder DEF Make
  <2>6. draw' = "make" => Head(todo) # "face" /\ visual["face"] = 0
    BY <1>16, <2>2 DEF Make, TodoInv
  <2>7. target' = target /\ cam' = cam /\ which' = which /\ target <= made'
    BY <1>16, <1>0, <2>1, <2>3 DEF Make
  <2>8. draw' = "make" => visual'["face"] = 0
    BY <1>0, <2>3, <2>6
  <2> QED BY <2>4, <2>5, <2>7, <2>8 DEF TodoInv
<1>17. CASE DrawEmpty
  BY <1>0, <1>17 DEF DrawEmpty, TodoInv
<1>18. CASE DrawLate
  BY <1>0, <1>18 DEF DrawLate, TodoInv
<1>19. CASE CopyVertices
  BY <1>0, <1>19 DEF CopyVertices, TodoInv
<1>20. CASE MakeRoom
  BY <1>0, <1>20 DEF MakeRoom, TodoInv
<1>21. CASE CopyIndices
  BY <1>0, <1>21 DEF CopyIndices, TodoInv
<1>22. CASE Button
  BY <1>0, <1>22 DEF Button, TodoInv
<1>23. CASE UNCHANGED visVars
  BY <1>0, <1>23 DEF visVars, TodoInv
<1> QED
  BY <1>1, <1>2, <1>3, <1>4, <1>5, <1>6, <1>7, <1>8, <1>9, <1>10, <1>11, <1>12, <1>13,
     <1>14, <1>15, <1>16, <1>17, <1>18, <1>19, <1>20, <1>21, <1>22, <1>23
     DEF WorldNext, Camera, Rendering

(* The distance of a face from the device time. *)
LEMMA LateStep ==
  ASSUME WorldTypeOK, StartInv, TodoInv, LateInv, [WorldNext]_visVars
  PROVE  LateInv'
<1>0. /\ now \in Nat /\ start \in Int /\ starts \in Nat /\ stamp \in Int /\ device \in Int
      /\ face \in [stamp : Int, verts : Nat, idx : Nat]
      /\ face.stamp \in Int /\ face.verts \in Nat
      /\ made \in Nat /\ target \in Nat /\ visual \in [Visuals -> Nat]
      /\ FirstTime \in Nat /\ Tolerance \in Nat /\ FirstTime > Tolerance
      /\ Visuals = {"planes", "pts", "face"}
  BY Numbers DEF Visuals
<1> USE DEF worldVars, stampVars, cameraVars, drawVars
<1>1. CASE FrameArrives
  BY <1>0, <1>1 DEF FrameArrives, LateInv, StartInv, TodoInv, Calling, Alive
<1>2. CASE TestStart
  BY <1>0, <1>2 DEF TestStart, LateInv, StartInv, TodoInv, Calling, Alive
<1>3. CASE SetStart
  <2>1. starts \in {0, 1} /\ starts' = starts + 1
    BY <1>3, <1>0 DEF SetStart, StartInv
  <2>2. UNCHANGED <<face, draw, shown, device>> /\ cam' = "subtract"
    BY <1>3 DEF SetStart
  <2>3. starts = 0 => face.verts = 0 /\ draw \in {"tick", "tickSet"}
    BY <1>0 DEF StartInv, LateInv
  <2>4. draw \notin {"verts", "room", "idx"} /\ shown.verts = 0
    BY <2>1 DEF LateInv
  <2> QED BY <2>1, <2>2, <2>3, <2>4 DEF LateInv, Calling
<1>4. CASE Subtract
  <2>1. stamp' = now - start /\ cam' = "test"
    BY <1>4 DEF Subtract
  <2>2. stamp' + start >= FirstTime
    BY <1>0, <2>1 DEF StartInv
  <2>3. UNCHANGED <<face, draw, shown, device, start, starts>>
    BY <1>4 DEF Subtract
  <2> QED BY <2>1, <2>2, <2>3 DEF LateInv
<1>5. CASE TestVisual
  BY <1>0, <1>5 DEF TestVisual, Leave, LateInv, StartInv, TodoInv, Calling, Alive
<1>6. CASE ReadVisual
  BY <1>0, <1>6 DEF ReadVisual, LateInv, StartInv, TodoInv, Calling, Alive
<1>7. CASE UseDropped
  BY <1>0, <1>7 DEF UseDropped, LateInv, StartInv, TodoInv, Calling, Alive
<1>8. CASE UseVisual
  BY <1>0, <1>8 DEF UseVisual, Leave, LateInv, StartInv, TodoInv, Calling, Alive
<1>9. CASE StampFace
  BY <1>0, <1>9 DEF StampFace, LateInv, StartInv, TodoInv, Calling, Alive
<1>10. CASE StoreFace
  <2>1. UNCHANGED <<draw, shown, device, start, starts>> /\ cam' = "idle" /\ cam = "store"
    BY <1>10 DEF StoreFace
  <2>2. starts > 0 /\ now > 0
    BY <1>0, <2>1 DEF StartInv, Calling
  <2>3. CASE Alive
    <3>1. face'.stamp = face.stamp /\ face'.verts = now
      BY <1>10, <1>0, <2>3 DEF StoreFace
    <3>2. starts <= 1 => face.stamp + start >= FirstTime
      BY <2>1, <2>3 DEF LateInv
    <3>3. face'.verts # 0
      BY <1>0, <2>2, <3>1
    <3> QED BY <2>1, <2>2, <3>1, <3>2, <3>3 DEF LateInv, Calling
  <2>4. CASE ~Alive
    <3>1. face' = face
      BY <1>10, <2>4 DEF StoreFace
    <3> QED BY <2>1, <3>1 DEF LateInv, Calling
  <2> QED BY <2>3, <2>4
<1>11. CASE TickTest
  BY <1>0, <1>11 DEF TickTest, LateInv, StartInv, TodoInv, Calling, Alive
<1>12. CASE TickSet
  <2>1. starts \in {0, 1} /\ starts' = starts + 1
    BY <1>12, <1>0 DEF TickSet, StartInv
  <2>2. UNCHANGED <<face, cam, shown, stamp>> /\ draw' = "tickDevice"
    BY <1>12 DEF TickSet
  <2>3. starts = 0 => face.verts = 0 /\ cam \notin Calling
    BY <1>0 DEF StartInv, LateInv
  <2>4. shown.verts = 0
    BY <2>1 DEF LateInv
  <2> QED BY <2>1, <2>2, <2>3, <2>4 DEF LateInv, Calling
<1>13. CASE TickDevice
  BY <1>0, <1>13 DEF TickDevice, DeviceTime, LateInv, StartInv, TodoInv, Calling, Alive
<1>14. CASE Update
  BY <1>0, <1>14 DEF Update, LateInv, StartInv, TodoInv, Calling, Alive
<1>15. CASE Drop
  BY <1>0, <1>15 DEF Drop, LateInv, StartInv, TodoInv, Calling, Alive
<1>16. CASE Make
  <2>1. /\ UNCHANGED <<cam, which, target, stamp, shown, device, start, starts>>
        /\ draw = "make" /\ draw' \in {"make", "empty"}
    BY <1>16 DEF Make
  <2>2. Head(todo) \in Visuals /\ visual["face"] = 0 /\ target <= made
        /\ (cam = "store" => which = "face")
    BY <2>1, TodoOrder DEF TodoInv
  <2>3. CASE Head(todo) = "face"
    <3>1. face'.verts = 0
      BY <1>16, <2>3 DEF Make, NoFace
    <3>2. visual'["face"] = 0 \/ visual'["face"] = made + 1
      BY <1>16, <1>0, <2>2, <2>3 DEF Make
    <3>3. cam' = "store" => ~Alive'
      BY <1>0, <2>1, <2>2, <3>2 DEF Alive
    <3> QED BY <2>1, <3>1, <3>3 DEF LateInv
  <2>4. CASE Head(todo) # "face"
    <3>1. face' = face
      BY <1>16, <2>4 DEF Make
    <3>2. visual'["face"] = visual["face"]
      BY <1>16, <1>0, <2>2, <2>4 DEF Make
    <3>3. cam' = "store" => (Alive' <=> Alive)
      BY <2>1, <2>2, <3>2 DEF Alive
    <3> QED BY <2>1, <3>1, <3>3 DEF LateInv
  <2> QED BY <2>3, <2>4
<1>17. CASE DrawEmpty
  BY <1>0, <1>17 DEF DrawEmpty, LateInv, StartInv, TodoInv, Calling, Alive
<1>18. CASE DrawLate
  <2>1. /\ UNCHANGED <<cam, which, target, stamp, shown, device, start, starts, face, visual>>
        /\ draw = "late" /\ draw' = IF Late THEN "button" ELSE "verts"
    BY <1>18 DEF DrawLate
  <2>2. starts <= 1 => device = -start /\ face.stamp + start >= FirstTime
    BY <2>1 DEF LateInv
  <2>3. starts <= 1 => Late
    BY <1>0, <2>2 DEF Late
  <2>4. starts > 1 => starts = 2
    BY <1>0 DEF StartInv
  <2>5. Alive' <=> Alive
    BY <2>1 DEF Alive
  <2> QED BY <1>0, <2>1, <2>3, <2>4, <2>5 DEF LateInv
<1>19. CASE CopyVertices
  BY <1>0, <1>19 DEF CopyVertices, LateInv, StartInv, TodoInv, Calling, Alive
<1>20. CASE MakeRoom
  BY <1>0, <1>20 DEF MakeRoom, LateInv, StartInv, TodoInv, Calling, Alive
<1>21. CASE CopyIndices
  BY <1>0, <1>21 DEF CopyIndices, LateInv, StartInv, TodoInv, Calling, Alive
<1>22. CASE Button
  BY <1>0, <1>22 DEF Button, LateInv, StartInv, TodoInv, Calling, Alive
<1>23. CASE UNCHANGED visVars
  BY <1>0, <1>23 DEF visVars, LateInv, StartInv, TodoInv, Calling, Alive
<1> QED
  BY <1>1, <1>2, <1>3, <1>4, <1>5, <1>6, <1>7, <1>8, <1>9, <1>10, <1>11, <1>12, <1>13,
     <1>14, <1>15, <1>16, <1>17, <1>18, <1>19, <1>20, <1>21, <1>22, <1>23
     DEF WorldNext, Camera, Rendering

(* The copies of Draw. *)
LEMMA CopyStep ==
  ASSUME WorldTypeOK, CopyInv, [WorldNext]_visVars
  PROVE  CopyInv'
<1> USE Numbers DEF CopyInv, worldVars, stampVars, cameraVars, drawVars
<1>1. CASE FrameArrives
  BY <1>1 DEF FrameArrives
<1>2. CASE TestStart
  BY <1>2 DEF TestStart
<1>3. CASE SetStart
  BY <1>3 DEF SetStart
<1>4. CASE Subtract
  BY <1>4 DEF Subtract
<1>5. CASE TestVisual
  BY <1>5 DEF TestVisual, Leave
<1>6. CASE ReadVisual
  BY <1>6 DEF ReadVisual
<1>7. CASE UseDropped
  BY <1>7 DEF UseDropped
<1>8. CASE UseVisual
  BY <1>8 DEF UseVisual, Leave
<1>9. CASE StampFace
  BY <1>9 DEF StampFace
<1>10. CASE StoreFace
  BY <1>10 DEF StoreFace
<1>11. CASE TickTest
  BY <1>11 DEF TickTest
<1>12. CASE TickSet
  BY <1>12 DEF TickSet
<1>13. CASE TickDevice
  BY <1>13 DEF TickDevice
<1>14. CASE Update
  BY <1>14 DEF Update
<1>15. CASE Drop
  BY <1>15 DEF Drop
<1>16. CASE Make
  BY <1>16 DEF Make, NoFace
<1>17. CASE DrawEmpty
  BY <1>17 DEF DrawEmpty
<1>18. CASE DrawLate
  BY <1>18 DEF DrawLate
<1>19. CASE CopyVertices
  BY <1>19 DEF CopyVertices
<1>20. CASE MakeRoom
  BY <1>20 DEF MakeRoom
<1>21. CASE CopyIndices
  BY <1>21 DEF CopyIndices
<1>22. CASE Button
  BY <1>22 DEF Button
<1>23. CASE UNCHANGED visVars
  BY <1>23 DEF visVars
<1> QED
  BY <1>1, <1>2, <1>3, <1>4, <1>5, <1>6, <1>7, <1>8, <1>9, <1>10, <1>11, <1>12, <1>13,
     <1>14, <1>15, <1>16, <1>17, <1>18, <1>19, <1>20, <1>21, <1>22, <1>23
     DEF WorldNext, Camera, Rendering

LEMMA NoneTwice ==
  /\ DOMAIN InOrder = 1 .. 3
  /\ \A s \in Tails :
       /\ 1 \in DOMAIN s /\ Head(s) = s[1]
       /\ \A i \in DOMAIN s : s[i] \in Visuals
       /\ \A i \in DOMAIN Tail(s) : i + 1 \in DOMAIN s /\ Tail(s)[i] = s[i + 1]
       /\ \A i \in DOMAIN Tail(s) : Tail(s)[i] # Head(s)
BY DEF InOrder, Tails, Visuals

(* Before the first press: what callbacks have found.                      *)
LEMMA ModeStep ==
  ASSUME WorldTypeOK, TodoInv, ModeInv, [WorldNext]_visVars
  PROVE  ModeInv'
<1>0. /\ made \in Nat /\ target \in Nat /\ visual \in [Visuals -> Nat]
      /\ Visuals = {"planes", "pts", "face"} /\ which \in Visuals /\ presses \in Nat
  BY Numbers DEF Visuals
<1> USE DEF worldVars, stampVars, cameraVars, drawVars
<1>1. CASE FrameArrives
  BY <1>0, <1>1 DEF FrameArrives, ModeInv, Alive
<1>2. CASE TestStart
  BY <1>0, <1>2 DEF TestStart, ModeInv, Alive
<1>3. CASE SetStart
  BY <1>0, <1>3 DEF SetStart, ModeInv, Alive
<1>4. CASE Subtract
  BY <1>0, <1>4 DEF Subtract, ModeInv, Alive
<1>5. CASE TestVisual
  BY <1>0, <1>5 DEF TestVisual, Leave, ModeInv, Alive
<1>6. CASE ReadVisual
  BY <1>0, <1>6 DEF ReadVisual, ModeInv, Alive
<1>7. CASE UseDropped
  BY <1>0, <1>7 DEF UseDropped, ModeInv, Alive
<1>8. CASE UseVisual
  BY <1>0, <1>8 DEF UseVisual, Leave, ModeInv, Alive
<1>9. CASE StampFace
  BY <1>0, <1>9 DEF StampFace, ModeInv, Alive
<1>10. CASE StoreFace
  BY <1>0, <1>10 DEF StoreFace, ModeInv, Alive
<1>11. CASE TickTest
  BY <1>0, <1>11 DEF TickTest, ModeInv, Alive
<1>12. CASE TickSet
  BY <1>0, <1>12 DEF TickSet, ModeInv, Alive
<1>13. CASE TickDevice
  BY <1>0, <1>13 DEF TickDevice, ModeInv, Alive
<1>14. CASE Update
  <2>1. todo' = InOrder \/ todo' = todo
    BY <1>14 DEF Update
  <2> QED BY <1>0, <1>14, <2>1, NoneTwice, TodoOrder DEF Update, ModeInv, Alive
<1>15. CASE Drop
  <2>1. SUFFICES ASSUME presses = 0 PROVE ModeInv'
    BY <1>15 DEF Drop, ModeInv
  <2>2. todo \in Tails /\ draw = "drop" /\ prevMode = -1 /\ \A v \in Visuals : visual[v] = 0
    BY <1>15, <2>1 DEF Drop, TodoInv, ModeInv
  <2>3. visual' = visual
    BY <1>15, <1>0, <2>2, TodoOrder DEF Drop
  <2>4. UNCHANGED <<mode, prevMode, presses, cam, which, target>>
        /\ draw' \in {"drop", "make"}
    BY <1>15, <2>2 DEF Drop
  <2>5. draw' = "make" => todo' = InOrder
    BY <1>15, <2>2 DEF Drop
  <2>6. \A i \in DOMAIN InOrder : visual'[InOrder[i]] = 0
    BY <2>2, <2>3, TodoOrder, NoneTwice
  <2>7. Alive' <=> Alive
    BY <2>3, <2>4 DEF Alive
  <2> QED BY <2>1, <2>2, <2>3, <2>4, <2>5, <2>6, <2>7 DEF ModeInv
<1>16. CASE Make
  <2>1. SUFFICES ASSUME presses = 0 PROVE ModeInv'
    BY <1>16 DEF Make, ModeInv
  <2>2. /\ todo \in Tails /\ draw = "make" /\ prevMode = -1 /\ mode = 6
        /\ \A i \in DOMAIN todo : visual[todo[i]] = 0
    BY <1>16, <2>1 DEF Make, TodoInv, ModeInv
  <2>3. Head(todo) \in Visuals /\ visual[Head(todo)] = 0
    BY <2>2, TodoOrder, NoneTwice
  <2>4. \A v \in Visuals : v # Head(todo) => visual'[v] = visual[v]
    BY <1>16, <1>0, <2>3 DEF Make
  <2>5. UNCHANGED <<mode, presses, cam, which, target>>
    BY <1>16 DEF Make
  <2>6. \/ draw' = "make" /\ prevMode' = -1 /\ todo' = Tail(todo)
        \/ draw' = "empty" /\ prevMode' = 6
    BY <1>16, <2>2 DEF Make
  <2>7. \A i \in DOMAIN Tail(todo) :
           /\ Tail(todo)[i] \in Visuals /\ Tail(todo)[i] # Head(todo)
           /\ visual[Tail(todo)[i]] = 0
    BY <2>2, NoneTwice
  <2>8. draw' = "make" => \A i \in DOMAIN todo' : visual'[todo'[i]] = 0
    BY <2>4, <2>6, <2>7
  <2>9. cam' = "read" => visual'[which'] # 0
    BY <1>0, <2>1, <2>3, <2>4, <2>5 DEF ModeInv
  <2>10. Alive => Alive'
    BY <1>0, <2>3, <2>4, <2>5 DEF Alive
  <2> QED BY <2>1, <2>2, <2>5, <2>6, <2>8, <2>9, <2>10 DEF ModeInv
<1>17. CASE DrawEmpty
  BY <1>0, <1>17 DEF DrawEmpty, ModeInv, Alive
<1>18. CASE DrawLate
  BY <1>0, <1>18 DEF DrawLate, ModeInv, Alive
<1>19. CASE CopyVertices
  BY <1>0, <1>19 DEF CopyVertices, ModeInv, Alive
<1>20. CASE MakeRoom
  BY <1>0, <1>20 DEF MakeRoom, ModeInv, Alive
<1>21. CASE CopyIndices
  BY <1>0, <1>21 DEF CopyIndices, ModeInv, Alive
<1>22. CASE Button
  BY <1>0, <1>22 DEF Button, ModeInv, Alive
<1>23. CASE UNCHANGED visVars
  BY <1>23 DEF visVars, ModeInv, Alive
<1> QED
  BY <1>1, <1>2, <1>3, <1>4, <1>5, <1>6, <1>7, <1>8, <1>9, <1>10, <1>11, <1>12, <1>13,
     <1>14, <1>15, <1>16, <1>17, <1>18, <1>19, <1>20, <1>21, <1>22, <1>23
     DEF WorldNext, Camera, Rendering

LEMMA VisInvStep == WorldTypeOK /\ VisInv /\ [WorldNext]_visVars => VisInv'
BY StartStep, TodoStep, LateStep, CopyStep, ModeStep DEF VisInv

(* Whoever sets sStartTime, and if both threads do, depth frames go to the *)
(* Recorder with stamps that go forward from 0.                            *)
THEOREM StampsGoForward == WorldSpec => StampsForward
<1>1. WorldTypeOK /\ StartInv /\ [WorldNext]_visVars
        => [lastDepth' # lastDepth => lastDepth'.stamp > lastDepth.stamp]_visVars
  <2>1. ASSUME WorldTypeOK, StartInv, Subtract, lastDepth' # lastDepth
        PROVE  lastDepth'.stamp > lastDepth.stamp
    <3>1. /\ now \in Nat /\ start \in Int /\ lastDepth \in [time : Int, stamp : Int]
          /\ lastDepth.time \in Int /\ lastDepth.stamp \in Int
      BY <2>1, Numbers
    <3>2. cam = "subtract" /\ kind = "depth" /\ lastDepth'.stamp = now - start
      BY <2>1 DEF Subtract
    <3>3. start <= now /\ now > lastDepth.time
      BY <2>1, <3>2 DEF StartInv
    <3>4. \/ lastDepth.stamp = -1
          \/ lastDepth.stamp <= lastDepth.time - start
      BY <2>1 DEF StartInv
    <3> QED BY <3>1, <3>2, <3>3, <3>4
  <2>2. [WorldNext]_visVars => Subtract \/ UNCHANGED lastDepth
    BY DEF WorldNext, Camera, Rendering, visVars, worldVars, stampVars, cameraVars, drawVars,
           FrameArrives, TestStart, SetStart, TestVisual, ReadVisual, UseDropped, UseVisual,
           StampFace, StoreFace, TickTest, TickSet, TickDevice, Update, Drop, Make, DrawEmpty,
           DrawLate, CopyVertices, MakeRoom, CopyIndices, Button
  <2> QED BY <2>1, <2>2
<1> QED BY <1>1, InitType, StepType, InitVisInv, VisInvStep, PTL
        DEF WorldSpec, StampsForward, VisInv

(* No face passes FaceVis::Draw's test of its time unless Tick and a       *)
(* callback raced for sStartTime and both set it; the indices are those of *)
(* the vertices unless OnFaceData came between the two copies.             *)
THEOREM FacesDrawn == WorldSpec => []FaceDrawn
<1>1. VisInv => FaceDrawn
  BY DEF VisInv, LateInv, CopyInv, FaceDrawn
<1> QED BY <1>1, InitType, StepType, InitVisInv, VisInvStep, PTL DEF WorldSpec

(* Until the mode button is pressed, no callback uses a visual that was    *)
(* dropped, however it interleaves with the first Update.                  *)
THEOREM NoFaultWithoutButton == WorldSpec => []FaultNeedsButton
<1>1. WorldTypeOK /\ VisInv => FaultNeedsButton
  BY Numbers DEF VisInv, ModeInv, FaultNeedsButton
<1> QED BY <1>1, InitType, StepType, InitVisInv, VisInvStep, PTL DEF WorldSpec
-----------------------------------------------------------------------------
(***************************************************************************)
(* Input.                                                                  *)
(***************************************************************************)

(* Why the velocity is bounded: what KeyDown has added is in keystate, and *)
(* only what is not in keystate is added.                                  *)
KeysInv ==
  /\ keystate \subseteq held \cup missed
  /\ \A a \in Axes : /\ vel[a] \in {-1, 0, 1}
                     /\ vel[a] # 0 => <<a, vel[a]>> \in keystate

(* Why a drag ends: without a finger the mouse state has no button. *)
DragInv ==
  /\ DragOfLastPress
  /\ platform = "ios" /\ fingers = {} => ~mouse.down

(* A part of the width is a natural number. *)
LEMMA PartIsNat ==
  ASSUME NEW w \in Widths, NEW p \in Places
  PROVE  p \div w \in Nat
BY InputAssumption DEF InputAssumption

(* Pressing a key keeps every value in its type. *)
LEMMA KeysTyped ==
  ASSUME InputTypeOK, NEW k \in Keys, PressKey(k) \/ ReleaseKey(k)
  PROVE  InputTypeOK'
<1>1. k[1] \in Axes /\ k[2] \in Int /\ 0 \in Int
  BY DEF Keys
<1>2. vel' \in [Axes -> Int]
  BY <1>1 DEF InputTypeOK, PressKey, ReleaseKey, KeyDown, KeyUp
<1>3. keystate' \subseteq Keys /\ held' \subseteq Keys /\ missed' \subseteq Keys
  BY DEF InputTypeOK, PressKey, ReleaseKey
<1>4. QED
  BY <1>2, <1>3
     DEF InputTypeOK, PressKey, ReleaseKey, mouseVars, touchVars, dragVars

(* The three operations of a drag keep its state in its type. *)
LEMMA DragTyped ==
  ASSUME InputTypeOK, NEW p \in Places, NEW w \in Widths,
         TouchDown(p, w) \/ TouchMove(p, w) \/ TouchUp \/ UNCHANGED dragVars
  PROVE  /\ buttonDown' \in BOOLEAN /\ dir' \in Int
         /\ touch' \in Touches \cup {NoTouch}
<1>1. Part(p, w) \in Nat
  BY PartIsNat DEF InputTypeOK, Part
<1>2. CASE TouchDown(p, w)
  BY <1>1, <1>2 DEF InputTypeOK, TouchDown, Touches
<1>3. CASE TouchMove(p, w)
  BY <1>1, <1>3 DEF InputTypeOK, TouchMove, Touches, dragVars
<1>4. CASE TouchUp
  BY <1>4 DEF InputTypeOK, TouchUp
<1>5. CASE UNCHANGED dragVars
  BY <1>5 DEF InputTypeOK, dragVars
<1>6. QED
  BY <1>2, <1>3, <1>4, <1>5

(* InputTypeOK is inductive. *)
LEMMA TypeStep ==
  ASSUME InputTypeOK, [InputNext]_inputVars
  PROVE  InputTypeOK'
<1>1. ASSUME NEW k \in Keys, PressKey(k) \/ ReleaseKey(k)
      PROVE  InputTypeOK'
  BY <1>1, KeysTyped
<1>2. CASE ChangeFocus
  BY <1>2 DEF InputTypeOK, ChangeFocus, mouseVars, touchVars, dragVars
<1>3. ASSUME NEW p \in Places, PressButton(p) \/ MoveMouse(p)
      PROVE  InputTypeOK'
  <2>0. width \in Widths
    BY DEF InputTypeOK
  <2>1. /\ buttonDown' \in BOOLEAN /\ dir' \in Int
        /\ touch' \in Touches \cup {NoTouch}
    BY <1>3, <2>0, DragTyped, Zenon DEF PressButton, MoveMouse
  <2>2. Part(p, width) \in Nat
    BY <2>0, PartIsNat DEF Part
  <2>3. QED
    BY <1>3, <2>1, <2>2 DEF InputTypeOK, PressButton, MoveMouse, keyVars, mouseVars, touchVars
<1>4. CASE PressOutside \/ ReleaseButton
  BY <1>4 DEF InputTypeOK, PressOutside, ReleaseButton, TouchUp, keyVars, touchVars,
              dragVars
<1>5. ASSUME NEW w \in Widths, Resize(w)
      PROVE  InputTypeOK'
  BY <1>5 DEF InputTypeOK, Resize, keyVars, mouseVars, touchVars, dragVars
<1>6. ASSUME NEW f \in Fingers, NEW p \in Places, TouchesBegan(f, p) \/ TouchesEnded(f, p)
      PROVE  InputTypeOK'
  <2>1. /\ mouse' \in [down : BOOLEAN, at : Places]
        /\ fingers' \subseteq Fingers
    <3>1. CASE TouchesBegan(f, p)
      BY <3>1 DEF InputTypeOK, TouchesBegan
    <3>2. CASE TouchesEnded(f, p)
      BY <3>2 DEF InputTypeOK, TouchesEnded
    <3>3. QED
      BY <1>6, <3>1, <3>2
  <2>2. QED
    BY <1>6, <2>1 DEF InputTypeOK, TouchesBegan, TouchesEnded, keyVars, mouseVars, dragVars
<1>7. ASSUME NEW p \in Places, TouchesMoved(p)
      PROVE  InputTypeOK'
  <2>1. mouse' \in [down : BOOLEAN, at : Places]
    BY <1>7 DEF InputTypeOK, TouchesMoved
  <2>2. QED
    BY <1>7, <2>1 DEF InputTypeOK, TouchesMoved, keyVars, mouseVars, dragVars
<1>8. ASSUME NEW w \in Widths, UpdateIos(w)
      PROVE  InputTypeOK'
  <2>1. mouse.at \in Places
    BY DEF InputTypeOK
  <2>2. TouchDown(mouse.at, w) \/ TouchMove(mouse.at, w) \/ TouchUp \/ UNCHANGED dragVars
    BY <1>8 DEF UpdateIos, Poll
  <2>3. /\ buttonDown' \in BOOLEAN /\ dir' \in Int
        /\ touch' \in Touches \cup {NoTouch}
    BY <2>1, <2>2, DragTyped
  <2>4. QED
    BY <1>8, <2>3 DEF InputTypeOK, UpdateIos, keyVars, mouseVars
<1>9. CASE UNCHANGED inputVars
  BY <1>9 DEF InputTypeOK, inputVars, keyVars, mouseVars, touchVars, dragVars
<1>10. QED
  BY <1>1, <1>2, <1>3, <1>4, <1>5, <1>6, <1>7, <1>8, <1>9 DEF InputNext, Windows, Ios

(* Every variable keeps to its type, for any instance: the drag's and the  *)
(* keys' state of Application and World, and the states of the platforms.  *)
THEOREM InputTypeCorrect == InputSpec => []InputTypeOK
<1>1. ASSUME InputInit
      PROVE  InputTypeOK
  <2>1. /\ mouse \in [down : BOOLEAN, at : Places]
        /\ prev \in [down : BOOLEAN, at : Places]
    BY <1>1 DEF InputInit
  <2>2. vel \in [Axes -> Int] /\ press \in Nat /\ dir \in Int
    BY <1>1 DEF InputInit
  <2>3. QED
    BY <1>1, <2>1, <2>2 DEF InputInit, InputTypeOK
<1>2. QED
  BY <1>1, TypeStep, PTL DEF InputSpec

(* KeysInv is inductive: KeyDown meets a key only outside keystate, and    *)
(* KeyUp stops the axis of a key that leaves it.                           *)
LEMMA KeysStep ==
  ASSUME InputTypeOK, KeysInv, [InputNext]_inputVars
  PROVE  KeysInv'
<1>1. ASSUME NEW k \in Keys, PressKey(k)
      PROVE  KeysInv'
  <2>1. k[1] \in Axes /\ k[2] \in {-1, 1} /\ k = <<k[1], k[2]>>
    BY DEF Keys
  <2>2. CASE focus /\ k \notin keystate
    <3>1. vel[k[1]] \in {-1, 0, 1} /\ vel[k[1]] # k[2]
      <4>1. /\ vel[k[1]] \in {-1, 0, 1}
            /\ vel[k[1]] # 0 => <<k[1], vel[k[1]]>> \in keystate
        BY <2>1 DEF KeysInv
      <4>2. ASSUME vel[k[1]] = k[2]
            PROVE  FALSE
        <5>1. vel[k[1]] # 0
          BY <2>1, <4>2
        <5>2. <<k[1], vel[k[1]]>> = k
          BY <2>1, <4>2
        <5>3. QED
          BY <2>2, <4>1, <5>1, <5>2
      <4>3. QED
        BY <4>1, <4>2
    <3>2. vel'[k[1]] = vel[k[1]] + k[2]
      BY <1>1, <2>1, <2>2 DEF PressKey, KeyDown, InputTypeOK
    <3>3. vel'[k[1]] \in {-1, 0, 1} /\ vel'[k[1]] \in {0, k[2]}
      BY <2>1, <3>1, <3>2
    <3>4. \A a \in Axes : a # k[1] => vel'[a] = vel[a]
      BY <1>1, <2>1, <2>2 DEF PressKey, KeyDown, InputTypeOK
    <3>5. held' = held \cup {k} /\ keystate' = keystate \cup {k} /\ missed' = missed
      BY <1>1, <2>2 DEF PressKey
    <3>6. \A a \in Axes : /\ vel'[a] \in {-1, 0, 1}
                          /\ vel'[a] # 0 => <<a, vel'[a]>> \in keystate'
      <4>1. TAKE a \in Axes
      <4>2. CASE a = k[1]
        BY <2>1, <3>3, <3>5, <4>2
      <4>3. CASE a # k[1]
        BY <3>4, <3>5, <4>3 DEF KeysInv
      <4>4. QED
        BY <4>2, <4>3
    <3>7. QED
      BY <3>5, <3>6 DEF KeysInv
  <2>3. CASE ~(focus /\ k \notin keystate)
    BY <1>1, <2>3 DEF PressKey, KeysInv
  <2>4. QED
    BY <2>2, <2>3
<1>2. ASSUME NEW k \in Keys, ReleaseKey(k)
      PROVE  KeysInv'
  <2>1. k[1] \in Axes /\ k[2] \in {-1, 1} /\ k = <<k[1], k[2]>>
    BY DEF Keys
  <2>2. CASE focus /\ k \in keystate
    <3>1. vel'[k[1]] = 0 /\ \A a \in Axes : a # k[1] => vel'[a] = vel[a]
      BY <1>2, <2>1, <2>2 DEF ReleaseKey, KeyUp, InputTypeOK
    <3>2. held' = held \ {k} /\ keystate' = keystate \ {k} /\ missed' = missed \ {k}
      BY <1>2, <2>2 DEF ReleaseKey
    <3>3. \A a \in Axes : /\ vel'[a] \in {-1, 0, 1}
                          /\ vel'[a] # 0 => <<a, vel'[a]>> \in keystate'
      <4>1. TAKE a \in Axes
      <4>2. CASE a = k[1]
        BY <3>1, <4>2
      <4>3. CASE a # k[1]
        <5>1. <<a, vel[a]>> # k
          BY <2>1, <4>3
        <5>2. QED
          BY <3>1, <3>2, <4>3, <5>1 DEF KeysInv
      <4>4. QED
        BY <4>2, <4>3
    <3>4. QED
      BY <3>2, <3>3 DEF KeysInv
  <2>3. CASE ~(focus /\ k \in keystate)
    BY <1>2, <2>3 DEF ReleaseKey, KeysInv
  <2>4. QED
    BY <2>2, <2>3
<1>3. CASE UNCHANGED <<held, missed, keystate, vel>>
  BY <1>3 DEF KeysInv
<1>4. QED
  <2>1. \/ \E k \in Keys : PressKey(k) \/ ReleaseKey(k)
        \/ UNCHANGED <<held, missed, keystate, vel>>
    BY DEF InputNext, Windows, Ios, ChangeFocus, PressButton, MoveMouse, PressOutside,
           ReleaseButton, Resize, TouchesBegan, TouchesMoved, TouchesEnded, UpdateIos,
           inputVars, keyVars
  <2>2. QED
    BY <1>1, <1>2, <1>3, <2>1

(* With any axes, repeats and changes of focus, the camera moves along an  *)
(* axis at one speed at most, and only while a key of that direction is    *)
(* down or was released where the window could not see it.                 *)
THEOREM MovesOnlyOfKeys == InputSpec => []VelocityOfHeldKeys
<1>1. InputInit => KeysInv
  BY DEF InputInit, KeysInv
<1>2. KeysInv => VelocityOfHeldKeys
  BY DEF KeysInv, VelocityOfHeldKeys
<1>3. QED
  BY <1>1, <1>2, KeysStep, InputTypeCorrect, PTL DEF InputSpec

(* What holds between the touch, the button and the camera on any platform.*)
Turned ==
  /\ buttonDown = (touch # NoTouch)
  /\ touch # NoTouch => dir = touch.initDir - 2 * (touch.last - touch.at)

(* A press begins a touch where it is, and the camera has not turned yet.  *)
LEMMA DownTurned ==
  ASSUME InputTypeOK, NEW p \in Places, NEW w \in Widths, TouchDown(p, w)
  PROVE  Turned' /\ buttonDown' = TRUE /\ touch' # NoTouch /\ touch'.at = Part(p, w)
<1>1. Part(p, w) \in Nat /\ dir \in Int
  BY PartIsNat DEF InputTypeOK, Part
<1>2. touch' \in Touches /\ touch'.at = Part(p, w) /\ touch'.last = Part(p, w)
  BY <1>1 DEF TouchDown, Touches
<1>3. touch'.initDir = dir /\ dir' = dir /\ buttonDown' = TRUE
  BY DEF TouchDown
<1>4. touch' # NoTouch
  BY <1>2, InputAssumption DEF InputAssumption, Touches
<1>5. dir' = touch'.initDir - 2 * (touch'.last - touch'.at)
  BY <1>1, <1>2, <1>3
<1>6. buttonDown' = (touch' # NoTouch)
  BY <1>3, <1>4
<1>7. QED
  BY <1>2, <1>3, <1>4, <1>5, <1>6 DEF Turned

(* A move keeps the place of the press, and turns the camera by all the    *)
(* way from there.                                                         *)
LEMMA MoveTurned ==
  ASSUME InputTypeOK, Turned, NEW p \in Places, NEW w \in Widths, TouchMove(p, w)
  PROVE  /\ Turned' /\ buttonDown' = buttonDown
         /\ touch' # NoTouch => touch # NoTouch /\ touch'.at = touch.at
<1>1. Part(p, w) \in Nat
  BY PartIsNat DEF InputTypeOK, Part
<1>2. CASE buttonDown /\ touch # NoTouch
  <2>1. touch \in Touches
    BY <1>2 DEF InputTypeOK
  <2>2. touch' = [touch EXCEPT !.last = Part(p, w)]
    BY <1>2 DEF TouchMove
  <2>3. /\ touch' \in Touches /\ touch'.last = Part(p, w)
        /\ touch'.at = touch.at /\ touch'.initDir = touch.initDir
    BY <1>1, <2>1, <2>2 DEF Touches
  <2>4. touch' # NoTouch
    BY <2>3, InputAssumption DEF InputAssumption, Touches
  <2>5. dir' = touch.initDir - 2 * (Part(p, w) - touch.at) /\ buttonDown' = buttonDown
    BY <1>2 DEF TouchMove
  <2>6. QED
    BY <1>2, <2>3, <2>4, <2>5 DEF Turned
<1>3. CASE ~(buttonDown /\ touch # NoTouch)
  BY <1>3 DEF TouchMove, dragVars, Turned
<1>4. QED
  BY <1>2, <1>3

(* DragInv is inductive. *)
LEMMA DragStep ==
  ASSUME InputTypeOK, DragInv, [InputNext]_inputVars
  PROVE  DragInv'
<1>0. Turned /\ platform \in {"windows", "ios"} /\ width \in Widths
  BY DEF DragInv, DragOfLastPress, Turned, InputTypeOK
<1>1. ASSUME NEW p \in Places, PressButton(p)
      PROVE  DragInv'
  <2>1. Turned' /\ touch' # NoTouch /\ touch'.at = Part(p, width)
    BY <1>0, <1>1, DownTurned, Zenon DEF PressButton
  <2>2. platform' = "windows" /\ platform' # "ios" /\ down' = TRUE /\ press' = Part(p, width)
    BY <1>1 DEF PressButton
  <2>3. QED
    BY <2>1, <2>2 DEF DragInv, DragOfLastPress, Turned
<1>2. ASSUME NEW p \in Places, MoveMouse(p)
      PROVE  DragInv'
  <2>1. Turned' /\ (touch' # NoTouch => touch # NoTouch /\ touch'.at = touch.at)
    BY <1>0, <1>2, MoveTurned, Zenon DEF MoveMouse
  <2>2. /\ platform' = "windows" /\ platform = "windows"
        /\ down' = down /\ lost' = lost /\ press' = press
    BY <1>2 DEF MoveMouse, mouseVars
  <2>3. QED
    BY <2>1, <2>2 DEF DragInv, DragOfLastPress, Turned
<1>3. CASE PressOutside \/ ReleaseButton
  BY <1>3 DEF PressOutside, ReleaseButton, TouchUp, DragInv, DragOfLastPress, dragVars,
              touchVars
<1>4. ASSUME NEW f \in Fingers, NEW p \in Places, TouchesBegan(f, p) \/ TouchesEnded(f, p)
      PROVE  DragInv'
  <2>1. CASE TouchesBegan(f, p)
    <3>1. fingers' # {} /\ platform' = "ios" /\ platform = "ios" /\ platform' # "windows"
      BY <2>1 DEF TouchesBegan
    <3>2. UNCHANGED <<buttonDown, touch, dir, prev>>
      BY <2>1 DEF TouchesBegan, dragVars
    <3>3. QED
      BY <3>1, <3>2 DEF DragInv, DragOfLastPress
  <2>2. CASE TouchesEnded(f, p)
    <3>1. mouse'.down = FALSE /\ platform' = "ios" /\ platform = "ios" /\ platform' # "windows"
      BY <2>2 DEF TouchesEnded
    <3>2. UNCHANGED <<buttonDown, touch, dir, prev>>
      BY <2>2 DEF TouchesEnded, dragVars
    <3>3. QED
      BY <3>1, <3>2 DEF DragInv, DragOfLastPress
  <2>3. QED
    BY <1>4, <2>1, <2>2
<1>5. ASSUME NEW p \in Places, TouchesMoved(p)
      PROVE  DragInv'
  <2>1. fingers' # {} /\ platform' = "ios" /\ platform = "ios" /\ platform' # "windows"
    BY <1>5 DEF TouchesMoved
  <2>2. UNCHANGED <<buttonDown, touch, dir, prev>>
    BY <1>5 DEF TouchesMoved, dragVars
  <2>3. QED
    BY <2>1, <2>2 DEF DragInv, DragOfLastPress
<1>6. ASSUME NEW w \in Widths, UpdateIos(w)
      PROVE  DragInv'
  <2>1. /\ platform' = "ios" /\ platform = "ios" /\ platform' # "windows"
        /\ prev' = mouse /\ mouse' = mouse /\ fingers' = fingers
    BY <1>6 DEF UpdateIos
  <2>2. buttonDown = prev.down /\ (fingers = {} => ~mouse.down) /\ mouse.at \in Places
    BY <2>1 DEF DragInv, DragOfLastPress, InputTypeOK
  <2>3. mouse.down \in BOOLEAN /\ prev.down \in BOOLEAN /\ buttonDown \in BOOLEAN
    BY DEF InputTypeOK
  <2>4. Turned' /\ buttonDown' = mouse.down
    <3>1. CASE prev.down # mouse.down /\ mouse.down
      <4>1. TouchDown(mouse.at, w)
        BY <1>6, <3>1 DEF UpdateIos, Poll
      <4>2. QED
        BY <2>2, <3>1, <4>1, DownTurned, Zenon
    <3>2. CASE prev.down # mouse.down /\ ~mouse.down
      <4>1. TouchUp
        BY <1>6, <3>2 DEF UpdateIos, Poll
      <4>2. QED
        BY <2>3, <3>2, <4>1 DEF TouchUp, Turned
    <3>3. CASE prev.down = mouse.down
      <4>1. TouchMove(mouse.at, w) \/ UNCHANGED dragVars
        BY <1>6, <3>3 DEF UpdateIos, Poll
      <4>2. CASE TouchMove(mouse.at, w)
        BY <1>0, <2>2, <3>3, <4>2, MoveTurned, Zenon
      <4>3. CASE UNCHANGED dragVars
        BY <1>0, <2>2, <3>3, <4>3 DEF dragVars, Turned
      <4>4. QED
        BY <4>1, <4>2, <4>3
    <3>4. QED
      BY <3>1, <3>2, <3>3
  <2>5. QED
    BY <2>1, <2>2, <2>4 DEF DragInv, DragOfLastPress, Turned
<1>7. CASE UNCHANGED <<platform, down, lost, press, touchVars, dragVars>>
  BY <1>7 DEF DragInv, DragOfLastPress, touchVars, dragVars
<1>8. QED
  <2>1. \/ \E p \in Places : PressButton(p) \/ MoveMouse(p) \/ TouchesMoved(p)
        \/ \E f \in Fingers, p \in Places : TouchesBegan(f, p) \/ TouchesEnded(f, p)
        \/ PressOutside \/ ReleaseButton \/ \E w \in Widths : UpdateIos(w)
        \/ UNCHANGED <<platform, down, lost, press, touchVars, dragVars>>
    BY DEF InputNext, Windows, Ios, PressKey, ReleaseKey, ChangeFocus, Resize, inputVars,
           mouseVars
  <2>2. QED
    BY <1>1, <1>2, <1>3, <1>4, <1>5, <1>6, <1>7, <2>1

(* A drag is one of the last press: on Windows it outlives the button only *)
(* if the release was lost, and the next press begins another; on iOS it   *)
(* is that of the last frame; and its moves add up, for any places, widths *)
(* and fingers.                                                            *)
THEOREM DragsOfLastPress == InputSpec => []DragOfLastPress
<1>1. InputInit => DragInv
  BY DEF InputInit, DragInv, DragOfLastPress
<1>2. DragInv => DragOfLastPress
  BY DEF DragInv
<1>3. QED
  BY <1>1, <1>2, DragStep, InputTypeCorrect, PTL DEF InputSpec
=============================================================================
