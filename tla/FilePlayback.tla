---------------------------- MODULE FilePlayback ----------------------------
(***************************************************************************)
(* The playback of a recorded file by Tick of src/win/map.cpp, and the     *)
(* time stamps Application (src/core/Application.cpp) makes of it.         *)
(*                                                                         *)
(* The first Tick reads all frames, sorted by time stamp.  Every Tick      *)
(* shows the frame that is due on a clock that advances by one frame time, *)
(* and starts over when the clock is past the end.  Depth frames are       *)
(* copied before they are handed to Application, face frames are not:      *)
(* OnFaceDataInst makes the time stamp of the recorded frame relative      *)
(* every time it is shown.                                                 *)
(*                                                                         *)
(* One thread does all this, so a Tick is one step.  Times are integers.   *)
(***************************************************************************)
EXTENDS Integers, Sequences

CONSTANTS
  Stamps,    \* time stamps a file may hold
  MaxFrames, \* bound: frames of one kind in a file
  FrameTime, \* what one Tick adds to sCurtime
  MaxWraps   \* bound: times the playback starts over

ASSUME PlaybackAssumption ==
  /\ Stamps \subseteq Nat
  /\ MaxFrames \in Nat
  /\ FrameTime \in Nat \ {0}
  /\ MaxWraps \in Nat

VARIABLES
  depth,     \* time stamps of depthFrames
  face,      \* time stamps of faceFrames, as they now are
  faceRead,  \* time stamps of faceFrames, as they were in the file
  firsttick, \* firsttick
  curtime,   \* sCurtime
  depthIdx,  \* curDepthIdx, counted from 1
  faceIdx,   \* curFaceIdx, counted from 1
  appStart,  \* the sStartTime of Application.cpp
  wraps,     \* history: times the playback has started over
  time,      \* history: the sCurtime of the last Tick
  round,     \* history: the round of the last Tick, 0 before
  onDepth,   \* history: of the last depth frame shown, round, time, index, relative stamp
  onFace     \* history: round and index of the last face frame shown

fileVars     == <<depth, faceRead>>
clockVars    == <<firsttick, curtime, depthIdx, faceIdx, wraps, time, round>>
playbackVars == <<fileVars, face, clockVars, appStart, onDepth, onFace>>

Sorted(s) == \A i, j \in DOMAIN s : i < j => s[i] <= s[j]

(* What ReadAllBlocks makes of a file that holds both kinds of frames. *)
Read == {s \in UNION {[1 .. n -> Stamps] : n \in 1 .. MaxFrames} : Sorted(s)}

Least(x, y)    == IF x <= y THEN x ELSE y
Greatest(x, y) == IF x >= y THEN x ELSE y

(* The sStartTime and sEndTime of map.cpp. *)
StartTime == Least(depth[1], faceRead[1])
EndTime   == Greatest(depth[Len(depth)], faceRead[Len(faceRead)])

PlaybackTypeOK ==
  /\ depth \in Seq(Nat) /\ Len(depth) >= 1
  /\ faceRead \in Seq(Nat) /\ Len(faceRead) >= 1
  /\ face \in Seq(Int) /\ Len(face) = Len(faceRead)
  /\ firsttick \in BOOLEAN
  /\ curtime \in StartTime .. EndTime
  /\ depthIdx \in DOMAIN depth
  /\ faceIdx \in DOMAIN face
  /\ appStart \in Nat \cup {-1}
  /\ wraps \in Nat /\ time \in Nat /\ round \in Nat
  /\ onDepth \in [round : Nat, at : Nat, idx : Nat, stamp : Int]
  /\ onFace \in [round : Nat, idx : Nat]

(* firsttick is still to come; the file is read then, and nothing has      *)
(* looked at it before.                                                    *)
PlaybackInit ==
  /\ depth \in Read
  /\ faceRead \in Read
  /\ face = faceRead
  /\ firsttick = TRUE
  /\ curtime = StartTime
  /\ depthIdx = 1 /\ faceIdx = 1
  /\ appStart = -1
  /\ wraps = 0 /\ time = 0 /\ round = 0
  /\ onDepth = [round |-> 0, at |-> 0, idx |-> 0, stamp |-> 0]
  /\ onFace = [round |-> 0, idx |-> 0]
-----------------------------------------------------------------------------
(* Mutants of CaughtUp: if in place of while; and < in place of <=. *)
OneFurther(s, i, j) ==
  j = IF i < Len(s) /\ s[i + 1] <= curtime THEN i + 1 ELSE i

CaughtUpEarly(s, i, j) ==
  /\ j >= i
  /\ \A k \in i + 1 .. j : s[k] < curtime
  /\ j < Len(s) => s[j + 1] >= curtime

(* The while loop takes the index i to j: over everything due, up to the   *)
(* first frame that is not, or the last of all.                            *)
CaughtUp(s, i, j) ==
  /\ j >= i
  /\ \A k \in i + 1 .. j : s[k] <= curtime
  /\ j < Len(s) => s[j + 1] > curtime

(* Mutant of AppStart: the face frame is handed over first. *)
AppStartOfFace(d, f) == IF appStart < 0 THEN face[f] ELSE appStart

(* The first frame Application sees sets its start time; Tick hands over   *)
(* the depth frame first, and the first Tick always has one.               *)
AppStart(d, f) == IF appStart < 0 THEN depth[d] ELSE appStart

ShowDepth(d, start) ==
  IF firsttick \/ d # depthIdx
    THEN onDepth' = [round |-> wraps + 1, at |-> curtime, idx |-> d,
                  stamp |-> depth[d] - start]
    ELSE UNCHANGED onDepth

ShowFace(f, start) ==
  IF firsttick \/ f # faceIdx
    THEN /\ onFace' = [round |-> wraps + 1, idx |-> f]
         /\ face' = [face EXCEPT ![f] = @ - start]
    ELSE UNCHANGED <<onFace, face>>

(* Mutants of Advance: the clock is compared before it is advanced; the    *)
(* indices are reset outside the if.                                       *)
AdvanceLate(d, f) ==
  /\ firsttick' = FALSE
  /\ IF curtime > EndTime
       THEN /\ curtime' = StartTime /\ wraps' = wraps + 1
            /\ depthIdx' = 1 /\ faceIdx' = 1
       ELSE /\ curtime' = curtime + FrameTime /\ UNCHANGED wraps
            /\ depthIdx' = d /\ faceIdx' = f

AdvanceResets(d, f) ==
  /\ firsttick' = FALSE
  /\ IF curtime + FrameTime > EndTime
       THEN curtime' = StartTime /\ wraps' = wraps + 1
       ELSE curtime' = curtime + FrameTime /\ UNCHANGED wraps
  /\ depthIdx' = 1 /\ faceIdx' = 1

Advance(d, f) ==
  /\ firsttick' = FALSE
  /\ IF curtime + FrameTime > EndTime
       THEN /\ curtime' = StartTime /\ wraps' = wraps + 1
            /\ depthIdx' = 1 /\ faceIdx' = 1
       ELSE /\ curtime' = curtime + FrameTime /\ UNCHANGED wraps
            /\ depthIdx' = d /\ faceIdx' = f

Tick(d, f) ==
  /\ wraps <= MaxWraps
  /\ CaughtUp(depth, depthIdx, d)
  /\ CaughtUp(face, faceIdx, f)
  /\ appStart' = AppStart(d, f)
  /\ ShowDepth(d, appStart')
  /\ ShowFace(f, appStart')
  /\ Advance(d, f)
  /\ time' = curtime
  /\ round' = wraps + 1
  /\ UNCHANGED fileVars

PlaybackNext == \E d \in DOMAIN depth, f \in DOMAIN face : Tick(d, f)

PlaybackSpec == PlaybackInit /\ [][PlaybackNext]_playbackVars
-----------------------------------------------------------------------------
(* Properties. *)

(* Frame i of the file is the one to show at this time: the newest that is *)
(* due, or the first when none is.                                         *)
Due(s, i, now) == /\ \A k \in 2 .. i : s[k] <= now
                  /\ \A k \in i + 1 .. Len(s) : s[k] > now

(* The depth frame on show is the one that is due, in every round; only at *)
(* the beginning of a later round, when the first frame is due, what the   *)
(* round before ended with stays: curDepthIdx was set to 0 by hand, and    *)
(* Tick sees no change.                                                    *)
DepthOnShow ==
  round > 0 => \/ Due(depth, onDepth.idx, time)
               \/ onDepth.round < round /\ Due(depth, 1, time)

(* The face on show is the one that is due only in the first round.  After *)
(* that the stamps of the faces already shown are too small by the start   *)
(* time, once for each time, and the loop in Tick runs ahead: a face may   *)
(* come early and is never late.                                           *)
FaceOnShow ==
  round > 0 =>
    /\ round = 1 \/ appStart = 0 =>
         \/ Due(faceRead, onFace.idx, time)
         \/ onFace.round < round /\ Due(faceRead, 1, time)
    /\ \A k \in 2 .. Len(faceRead) :
         faceRead[k] <= time => onFace.round = round /\ k <= onFace.idx

(* No depth frame of a file is mistaken for a stop marker: the stamps that *)
(* Application makes relative never fall below 0, because the first frame  *)
(* it sees is a depth frame and has the smallest stamp of them.            *)
NoFalseStop == onDepth.round > 0 => onDepth.stamp >= 0

(* Within a round the frames handed over and their stamps only go forward: *)
(* no depth frame is recorded twice, none with a stamp that goes back.     *)
DepthGoesForward ==
  [][onDepth' # onDepth /\ onDepth'.round = onDepth.round
       => onDepth'.idx > onDepth.idx /\ onDepth'.stamp >= onDepth.stamp]_playbackVars
=============================================================================
