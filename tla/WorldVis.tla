------------------------------ MODULE WorldVis ------------------------------
(***************************************************************************)
(* The visuals of World (src/core/World.cpp) on iOS, where the camera's    *)
(* callbacks run on the main queue and Tick and Draw on bgfx's thread, and *)
(* nothing but the inside of a visual is locked:                           *)
(*  - Update drops and remakes the visuals when the mode has changed,      *)
(*    while a callback may be about to use one of them;                    *)
(*  - FaceVis::Draw copies vertices and indices in two goes;               *)
(*  - sStartTime, which time stamps are counted from, is set by whoever    *)
(*    finds it negative, and Tick is given a device time of 0.             *)
(*                                                                         *)
(* What PlanesVis and PtsVis hold goes in and out under one lock and is    *)
(* left out; what counts here is whether they exist.  Times are integers,  *)
(* a camera frame one apart.                                               *)
(***************************************************************************)
EXTENDS Integers, Sequences

CONSTANTS
  FirstTime,  \* the device's clock at the first camera frame
  Tolerance,  \* FaceVis draws a face this close to the device time: 1/30 s
  MaxTime,    \* bound: the device's clock at the last camera frame
  MaxPresses  \* bound: presses of the mode button

(* The clock counts from the start of the device, long before.             *)
ASSUME WorldAssumption ==
  /\ Tolerance \in Nat
  /\ FirstTime \in Nat /\ FirstTime > Tolerance
  /\ MaxTime \in Nat
  /\ MaxPresses \in Nat

VARIABLES
  mode, prevMode, \* m_mode, m_prevMode
  visual,   \* m_planevis, m_ptsvis, m_facevis: 0 if null, else which one it is
  made,     \* visuals made so far
  face,     \* of the FaceVis in use: m_faceTimestamp, the frames m_vertices
            \* and m_indices came with (0: empty)
  start,    \* sStartTime
  device,   \* m_deviceTimestamp
  cam,      \* where the camera's callback is, "idle" when there is none
  kind,     \* which callback it is: "depth" or "face"
  now,      \* the time stamp of its frame
  which,    \* the visual it is at
  target,   \* the pointer it has read: 0, a visual, or one dropped since
  stamp,    \* its props.timestamp, made relative
  lastDepth,\* of the last depth frame: its time, and its relative stamp
  draw,     \* where the thread of Tick and Draw is
  todo,     \* the visuals Update still has to drop, or to make
  copied,   \* the frames the vertices and the room for indices came from
  shown,    \* the last face drawn: vertices, room and indices
  presses,  \* history: presses of the mode button
  starts,   \* history: how often sStartTime was set
  torn      \* history: a face was stored while Draw was past the vertices

worldVars  == <<mode, prevMode, visual, made, todo, presses>>
stampVars  == <<start, starts>>
cameraVars == <<kind, now, which, target, stamp, lastDepth>>
drawVars   == <<device, copied, shown>>
visVars    == <<worldVars, stampVars, cameraVars, drawVars, face, cam, draw, torn>>

Visuals   == {"planes", "pts", "face"}
InOrder   == <<"planes", "pts", "face">>
NoFace    == [stamp |-> 0, verts |-> 0, idx |-> 0]

(* m_mode & 1, & 2, & 4 *)
Wanted(v) == CASE v = "planes" -> mode % 2 = 1
               [] v = "pts"    -> (mode \div 2) % 2 = 1
               [] v = "face"   -> mode \div 4 = 1

(* "start", "set", "subtract": in Application's part of a callback;        *)
(* "test", "read", "use": in World's, at the visual which; "stamp",        *)
(* "store": in FaceVis::OnFaceData, before and under the lock; "fault":    *)
(* has used a visual that was dropped.                                     *)
CamStates == {"idle", "start", "set", "subtract", "test", "read", "use", "stamp", "store",
              "fault"}

(* "tick", "tickSet", "tickDevice": in Tick; "update", "drop", "make": in  *)
(* Update; "empty", "late", "verts", "room", "idx": in FaceVis::Draw;      *)
(* "button": at the end of Application::Draw.                              *)
DrawStates == {"tick", "tickSet", "tickDevice", "update", "drop", "make",
               "empty", "late", "verts", "room", "idx", "button"}

WorldTypeOK ==
  /\ mode \in 0 .. 7 /\ prevMode \in -1 .. 7
  /\ visual \in [Visuals -> Nat] /\ made \in Nat /\ target \in Nat
  /\ face \in [stamp : Int, verts : Nat, idx : Nat]
  /\ start \in Int /\ device \in Int /\ starts \in Nat
  /\ cam \in CamStates /\ kind \in {"depth", "face"} /\ which \in Visuals
  /\ now \in Nat /\ stamp \in Int
  /\ lastDepth \in [time : Int, stamp : Int]
  /\ draw \in DrawStates
  /\ todo \in Seq(Visuals) /\ (draw \in {"drop", "make"} => todo # << >>)
  /\ copied \in [verts : Nat, room : Nat]
  /\ shown \in [verts : Nat, room : Nat, idx : Nat]
  /\ presses \in Nat /\ torn \in BOOLEAN

WorldInit ==
  /\ mode = 6 /\ prevMode = -1
  /\ visual = [v \in Visuals |-> 0] /\ made = 0
  /\ which = "face" /\ target = 0
  /\ face = NoFace
  /\ start = -1 /\ device = 0 /\ starts = 0
  /\ cam = "idle" /\ kind = "face" /\ now = FirstTime /\ stamp = 0
  /\ lastDepth = [time |-> -1, stamp |-> -1]
  /\ draw = "tick" /\ todo = << >>
  /\ copied = [verts |-> 0, room |-> 0]
  /\ shown = [verts |-> 0, room |-> 0, idx |-> 0]
  /\ presses = 0 /\ torn = FALSE
-----------------------------------------------------------------------------
(* The camera.  ARKit calls back one frame after the other, a depth frame  *)
(* at most once and faces as often as there are anchors.                   *)

FrameArrives ==
  /\ cam = "idle"
  /\ now' \in {now, now + 1} /\ now' <= MaxTime
  /\ kind' \in {"depth", "face"}
  /\ kind' = "depth" => now' > lastDepth.time
  /\ cam' = "start"
  /\ UNCHANGED <<worldVars, stampVars, drawVars, face, draw, torn, which, target, stamp,
                 lastDepth>>

(* Mutant of TestStart: every callback starts the time anew. *)
TestStartNot ==
  /\ cam = "start"
  /\ cam' = "set"
  /\ UNCHANGED <<worldVars, stampVars, cameraVars, drawVars, face, draw, torn>>

(* if (sStartTime < 0), in the callbacks. *)
TestStart ==
  /\ cam = "start"
  /\ cam' = IF start < 0 THEN "set" ELSE "subtract"
  /\ UNCHANGED <<worldVars, stampVars, cameraVars, drawVars, face, draw, torn>>

SetStart ==
  /\ cam = "set"
  /\ start' = now /\ starts' = starts + 1
  /\ cam' = "subtract"
  /\ UNCHANGED <<worldVars, cameraVars, drawVars, face, draw, torn>>

(* The stamp is made relative, and goes to the Recorder and to World. *)
Subtract ==
  /\ cam = "subtract"
  /\ stamp' = now - start
  /\ which' = IF kind = "depth" THEN "planes" ELSE "face"
  /\ lastDepth' = IF kind = "depth" THEN [time |-> now, stamp |-> now - start] ELSE lastDepth
  /\ cam' = "test"
  /\ UNCHANGED <<worldVars, stampVars, drawVars, face, draw, torn, kind, now, target>>

(* The end of the callback's use of a visual. *)
Leave ==
  IF which = "planes" THEN which' = "pts" /\ cam' = "test"
                      ELSE cam' = "idle" /\ UNCHANGED which

(* Mutant of TestVisual: the pointer is not tested. *)
TestVisualNot ==
  /\ cam = "test"
  /\ cam' = "read"
  /\ UNCHANGED <<worldVars, stampVars, cameraVars, drawVars, face, draw, torn>>

(* if (m_planevis), if (m_ptsvis), if (m_facevis). *)
TestVisual ==
  /\ cam = "test"
  /\ IF visual[which] = 0 THEN Leave
                         ELSE cam' = "read" /\ UNCHANGED which
  /\ UNCHANGED <<worldVars, stampVars, drawVars, face, draw, torn, kind, now, target, stamp,
                 lastDepth>>

(* The pointer is read again for the call. *)
ReadVisual ==
  /\ cam = "read"
  /\ target' = visual[which]
  /\ cam' = IF which = "face" THEN "stamp" ELSE "use"
  /\ UNCHANGED <<worldVars, stampVars, drawVars, face, draw, torn, kind, now, which, stamp,
                 lastDepth>>

(* The object read is still the one the member points to. *)
Alive == target # 0 /\ visual[which] = target

(* It is not: a null pointer or a freed object is used.  If the process    *)
(* survives that, the callback goes on (in UseVisual and StoreFace).       *)
UseDropped ==
  /\ cam \in {"use", "stamp", "store"} /\ ~Alive
  /\ cam' = "fault"
  /\ UNCHANGED <<worldVars, stampVars, cameraVars, drawVars, face, draw, torn>>

(* SetDepthData of PlanesVis or PtsVis. *)
UseVisual ==
  /\ cam = "use"
  /\ Leave
  /\ UNCHANGED <<worldVars, stampVars, drawVars, face, draw, torn, kind, now, target, stamp,
                 lastDepth>>

(* FaceVis::OnFaceData: m_faceTimestamp is set before the lock. *)
StampFace ==
  /\ cam = "stamp"
  /\ face' = IF Alive THEN [face EXCEPT !.stamp = stamp] ELSE face
  /\ cam' = "store"
  /\ UNCHANGED <<worldVars, stampVars, cameraVars, drawVars, draw, torn>>

(* Mutant of StoreFace: the indices are not swapped. *)
StoreVertices ==
  /\ cam = "store"
  /\ face' = IF Alive THEN [face EXCEPT !.verts = now] ELSE face
  /\ torn' = (torn \/ draw \in {"room", "idx"})
  /\ cam' = "idle"
  /\ UNCHANGED <<worldVars, stampVars, cameraVars, drawVars, draw>>

StoreFace ==
  /\ cam = "store"
  /\ face' = IF Alive THEN [face EXCEPT !.verts = now, !.idx = now] ELSE face
  /\ torn' = (torn \/ draw \in {"room", "idx"})
  /\ cam' = "idle"
  /\ UNCHANGED <<worldVars, stampVars, cameraVars, drawVars, draw>>

Camera ==
  \/ FrameArrives \/ TestStart \/ SetStart \/ Subtract
  \/ TestVisual \/ ReadVisual \/ UseDropped \/ UseVisual \/ StampFace \/ StoreFace
-----------------------------------------------------------------------------
(* The thread of Tick and Draw. *)

(* if (sStartTime < 0), in Tick. *)
TickTest ==
  /\ draw = "tick"
  /\ draw' = IF start < 0 THEN "tickSet" ELSE "tickDevice"
  /\ UNCHANGED <<worldVars, stampVars, cameraVars, drawVars, face, cam, torn>>

(* update() of entry.cpp calls Tick(0, 0). *)
DeviceTime == 0

TickSet ==
  /\ draw = "tickSet"
  /\ start' = DeviceTime /\ starts' = starts + 1
  /\ draw' = "tickDevice"
  /\ UNCHANGED <<worldVars, cameraVars, drawVars, face, cam, torn>>

TickDevice ==
  /\ draw = "tickDevice"
  /\ device' = DeviceTime - start
  /\ draw' = "update"
  /\ UNCHANGED <<worldVars, stampVars, cameraVars, copied, shown, face, cam, torn>>

(* if (m_mode != m_prevMode): the group is cleared. *)
Update ==
  /\ draw = "update"
  /\ IF mode # prevMode
       THEN draw' = "drop" /\ todo' = InOrder
       ELSE draw' = "empty" /\ UNCHANGED todo
  /\ UNCHANGED <<mode, prevMode, visual, made, presses, stampVars, cameraVars, drawVars, face,
                 cam, torn>>

(* m_planevis = nullptr and so on: the last reference is gone. *)
Drop ==
  /\ draw = "drop"
  /\ visual' = [visual EXCEPT ![Head(todo)] = 0]
  /\ IF Len(todo) = 1
       THEN todo' = InOrder /\ draw' = "make"
       ELSE todo' = Tail(todo) /\ UNCHANGED draw
  /\ UNCHANGED <<mode, prevMode, made, presses, stampVars, cameraVars, drawVars, face, cam, torn>>

Make ==
  /\ draw = "make"
  /\ IF Wanted(Head(todo))
       THEN made' = made + 1 /\ visual' = [visual EXCEPT ![Head(todo)] = made + 1]
       ELSE UNCHANGED <<made, visual>>
  /\ face' = IF Head(todo) = "face" THEN NoFace ELSE face
  /\ todo' = Tail(todo)
  /\ IF Len(todo) = 1
       THEN prevMode' = mode /\ draw' = "empty"
       ELSE UNCHANGED <<prevMode, draw>>
  /\ UNCHANGED <<mode, presses, stampVars, cameraVars, drawVars, cam, torn>>

(* if (m_vertices.size() == 0) return, without the lock. *)
DrawEmpty ==
  /\ draw = "empty"
  /\ draw' = IF visual["face"] = 0 \/ face.verts = 0 THEN "button" ELSE "late"
  /\ UNCHANGED <<worldVars, stampVars, cameraVars, drawVars, face, cam, torn>>

(* if (fabs(m_faceTimestamp - ctx.m_deviceTimestamp) > 1 / 30.0) return *)
Late == face.stamp - device > Tolerance \/ device - face.stamp > Tolerance

DrawLate ==
  /\ draw = "late"
  /\ draw' = IF Late THEN "button" ELSE "verts"
  /\ UNCHANGED <<worldVars, stampVars, cameraVars, drawVars, face, cam, torn>>

(* Under the lock. *)
CopyVertices ==
  /\ draw = "verts"
  /\ copied' = [copied EXCEPT !.verts = face.verts]
  /\ draw' = "room"
  /\ UNCHANGED <<worldVars, stampVars, cameraVars, device, shown, face, cam, torn>>

(* After it: new int16_t[m_indices.size()], then the memcpy. *)
MakeRoom ==
  /\ draw = "room"
  /\ copied' = [copied EXCEPT !.room = face.idx]
  /\ draw' = "idx"
  /\ UNCHANGED <<worldVars, stampVars, cameraVars, device, shown, face, cam, torn>>

CopyIndices ==
  /\ draw = "idx"
  /\ shown' = [verts |-> copied.verts, room |-> copied.room, idx |-> face.idx]
  /\ draw' = "button"
  /\ UNCHANGED <<worldVars, stampVars, cameraVars, device, copied, face, cam, torn>>

(* SetMode((GetMode() + 1) & 7), if the button is pressed. *)
Button ==
  /\ draw = "button"
  /\ \/ presses < MaxPresses /\ mode' = (mode + 1) % 8 /\ presses' = presses + 1
     \/ UNCHANGED <<mode, presses>>
  /\ draw' = "tick"
  /\ UNCHANGED <<prevMode, visual, made, todo, stampVars, cameraVars, drawVars, face, cam, torn>>

Rendering ==
  \/ TickTest \/ TickSet \/ TickDevice \/ Update \/ Drop \/ Make
  \/ DrawEmpty \/ DrawLate \/ CopyVertices \/ MakeRoom \/ CopyIndices \/ Button

WorldNext == Camera \/ (cam # "fault" /\ Rendering)

WorldSpec == WorldInit /\ [][WorldNext]_visVars
-----------------------------------------------------------------------------
(* Properties. *)

(* A callback uses a visual that Update has dropped only once the mode     *)
(* button has been pressed: the first Update drops nothing, because the    *)
(* pointers are null until then and the callbacks test them.               *)
FaultNeedsButton == cam = "fault" => presses > 0

(* FaceVis::Draw compares the time stamp of a face with a device time of 0 *)
(* or less: whoever sets sStartTime, no face is drawn, unless Tick and a   *)
(* callback both found it negative and both set it.  Then a face may be    *)
(* drawn, with its own indices unless another face was stored while Draw   *)
(* was past the vertices.                                                  *)
FaceDrawn ==
  shown.verts # 0 =>
    /\ starts = 2
    /\ torn \/ (shown.verts = shown.room /\ shown.room = shown.idx)

(* Whichever thread sets sStartTime, and if both do, the stamps of depth   *)
(* frames that the Recorder gets only go forward, from 0 or above: none is *)
(* taken for a stop marker.                                                *)
StampsForward ==
  [][lastDepth' # lastDepth => lastDepth'.stamp > lastDepth.stamp]_visVars
=============================================================================
