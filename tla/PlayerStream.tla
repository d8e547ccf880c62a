---------------------------- MODULE PlayerStream ----------------------------
(***************************************************************************)
(* The Player (src/core/Player.cpp) as Application runs it, streaming: a   *)
(* background thread opens the UDP stream and reads face.bin, then pushes  *)
(* a frame per turn, and also pushes one when FFmpegInputStreamer          *)
(* (src/core/FFmpeg.cpp) could not read any.  Application::Tick makes the  *)
(* Player, takes at most one frame per Tick and gives it to                *)
(* World::OnDepthBuffer, which has no use for it while paused and reads    *)
(* through its null vidData if it was never filled.                        *)
(*                                                                         *)
(* Decoded pictures are numbered as the decoder returns them; 0 is no      *)
(* picture.  m_terminate is never set, nothing ever joins the thread.      *)
(***************************************************************************)
EXTENDS Naturals, Sequences

CONSTANTS
  MaxPerPacket, \* bound: pictures the decoder returns for one packet
  MaxDecoded,   \* bound: pictures decoded
  MaxTurns      \* bound: turns of the background thread

ASSUME PlayerAssumption ==
  MaxPerPacket \in Nat /\ MaxDecoded \in Nat /\ MaxTurns \in Nat

VARIABLES
  bg,       \* where the background thread is; "none" before the first Tick
  valsWhole,\* m_depthVals came out of face.bin as it should
  decoded,  \* m_decodedFrames
  picture,  \* what the turn has read: data.depthData and data.vidData
  frames,   \* m_frames
  isPaused, \* isPaused of World.cpp
  dead,     \* the process has ended
  lastDecoded, \* history: pictures decoded so far
  pushed,   \* history: every frame pushed
  taken,    \* history: every frame Tick has taken
  shown,    \* history: the pictures World has passed to its visuals
  everPaused\* history: the playback was paused at some time

decoderVars == <<valsWhole, decoded, lastDecoded>>
viewVars    == <<isPaused, shown, everPaused>>
playerVars  == <<bg, decoderVars, picture, frames, pushed, taken, viewVars, dead>>

(* "init": before Initialize, "turn": at the head of the loop, "read": in  *)
(* ReadFrameYUV420, "push": before the lock.                               *)
BgStates == {"none", "init", "turn", "read", "push"}

Pictures == 0 .. MaxDecoded

PlayerTypeOK ==
  /\ bg \in BgStates
  /\ valsWhole \in BOOLEAN /\ isPaused \in BOOLEAN
  /\ dead \in BOOLEAN /\ everPaused \in BOOLEAN
  /\ decoded \in Seq(Pictures) /\ frames \in Seq(Pictures)
  /\ pushed \in Seq(Pictures) /\ taken \in Seq(Pictures) /\ shown \in Seq(Pictures)
  /\ picture \in Pictures /\ lastDecoded \in Pictures

PlayerInit ==
  /\ bg = "none"
  /\ valsWhole = FALSE /\ isPaused = FALSE /\ dead = FALSE /\ everPaused = FALSE
  /\ decoded = << >> /\ frames = << >>
  /\ pushed = << >> /\ taken = << >> /\ shown = << >>
  /\ picture = 0 /\ lastDecoded = 0
-----------------------------------------------------------------------------
(* The background thread. *)

(* The first turn.  If the stream was opened and face.bin is whole, all is *)
(* well.  If the stream was not, GetWidth goes through a null m_dec_ctx.   *)
(* If face.bin is missing or too short, ReadBlock uses a size it has not   *)
(* read: resize throws, or there are some or no m_depthVals.               *)
Initialize ==
  /\ ~dead /\ bg = "init"
  /\ bg' = "turn"
  /\ \/ valsWhole' = TRUE /\ dead' = FALSE
     \/ valsWhole' = FALSE /\ dead' \in BOOLEAN
  /\ UNCHANGED <<decoded, lastDecoded, picture, frames, pushed, taken, viewVars>>

(* memcpy of the first 16 m_depthVals, which may not be there. *)
StartTurn ==
  /\ ~dead /\ bg = "turn" /\ Len(pushed) < MaxTurns
  /\ bg' = "read" /\ picture' = 0
  /\ dead' \in (IF valsWhole THEN {FALSE} ELSE BOOLEAN)
  /\ UNCHANGED <<decoderVars, frames, pushed, taken, viewVars>>

More(k) == [i \in 1 .. k |-> lastDecoded + i]

(* av_read_frame returns a packet and the decoder what it makes of it.     *)
(* An error of avcodec_receive_frame ends the read there and then; what    *)
(* the decoder had returned before stays for the next read.                *)
Decode ==
  /\ ~dead /\ bg = "read" /\ decoded = << >>
  /\ \E k \in 0 .. MaxPerPacket :
        /\ lastDecoded + k <= MaxDecoded
        /\ decoded' = More(k) /\ lastDecoded' = lastDecoded + k
  /\ bg' \in {"read", "push"}
  /\ UNCHANGED <<valsWhole, picture, frames, pushed, taken, viewVars, dead>>

(* Mutant of TakePicture: the picture is not erased. *)
TakePictureKeep ==
  /\ ~dead /\ bg = "read" /\ decoded # << >>
  /\ picture' = Head(decoded)
  /\ bg' = "push"
  /\ UNCHANGED <<decoderVars, frames, pushed, taken, viewVars, dead>>

(* The oldest decoded picture is copied and erased. *)
TakePicture ==
  /\ ~dead /\ bg = "read" /\ decoded # << >>
  /\ picture' = Head(decoded) /\ decoded' = Tail(decoded)
  /\ bg' = "push"
  /\ UNCHANGED <<valsWhole, lastDecoded, frames, pushed, taken, viewVars, dead>>

(* Under the mutex, whatever became of the read. *)
Push ==
  /\ ~dead /\ bg = "push"
  /\ frames' = Append(frames, picture)
  /\ pushed' = Append(pushed, picture)
  /\ bg' = "turn"
  /\ UNCHANGED <<decoderVars, picture, taken, viewVars, dead>>
-----------------------------------------------------------------------------
(* The thread of Application::Tick, which is also that of the keys. *)

MakePlayer ==
  /\ ~dead /\ bg = "none"
  /\ bg' = "init"
  /\ UNCHANGED <<decoderVars, picture, frames, pushed, taken, viewVars, dead>>

(* World::OnDepthBuffer: an unfilled vidData is null, and written through. *)
OnDepthBuffer(p) ==
  CASE isPaused         -> UNCHANGED <<shown, dead>>
    [] ~isPaused /\ p = 0 -> dead' = TRUE /\ UNCHANGED shown
    [] OTHER            -> shown' = Append(shown, p) /\ UNCHANGED dead

(* Mutants of Tick: the frame is not popped; the last one is left.         *)
TickFront ==
  /\ ~dead /\ frames # << >>
  /\ taken' = Append(taken, Head(frames))
  /\ OnDepthBuffer(Head(frames))
  /\ UNCHANGED <<bg, decoderVars, picture, frames, pushed, isPaused, everPaused>>

TickLeaveOne ==
  /\ ~dead /\ Len(frames) > 1
  /\ frames' = Tail(frames)
  /\ taken' = Append(taken, Head(frames))
  /\ OnDepthBuffer(Head(frames))
  /\ UNCHANGED <<bg, decoderVars, picture, pushed, isPaused, everPaused>>

(* GetNextFrame takes the oldest frame under the mutex. *)
Tick ==
  /\ ~dead /\ frames # << >>
  /\ frames' = Tail(frames)
  /\ taken' = Append(taken, Head(frames))
  /\ OnDepthBuffer(Head(frames))
  /\ UNCHANGED <<bg, decoderVars, picture, pushed, isPaused, everPaused>>

(* The key P, between two Ticks. *)
TogglePause ==
  /\ ~dead
  /\ isPaused' = ~isPaused /\ everPaused' = TRUE
  /\ UNCHANGED <<bg, decoderVars, picture, frames, pushed, taken, shown, dead>>

Background == Initialize \/ StartTurn \/ Decode \/ TakePicture \/ Push

PlayerNext == Background \/ MakePlayer \/ Tick \/ TogglePause

PlayerSpec == PlayerInit /\ [][PlayerNext]_playerVars

(* Application is ticked for as long as the process lives. *)
FairPlayerSpec == PlayerSpec /\ WF_playerVars(Tick)
-----------------------------------------------------------------------------
(* Properties. *)

(* Every frame the background thread pushes, read or not, is taken once    *)
(* and in order: nothing is lost between the two threads.                  *)
FS == INSTANCE FrameStream WITH Entries <- Pictures, accepted <- pushed,
                           delivered <- taken

ImplementsFrameStream == FS!Spec

(* World shows decoded pictures in the order of decoding and never twice,  *)
(* and every one of them if it was never paused, however reads that failed *)
(* come between and whatever they left in m_decodedFrames.                 *)
ShownInOrder ==
  /\ \A i, j \in DOMAIN shown : i < j => shown[i] < shown[j]
  /\ ~everPaused => \A i \in DOMAIN shown : shown[i] = i

(* Tick takes a frame at a time, and the background thread may push faster *)
(* for a while: what it has pushed is taken all the same, if the process   *)
(* lives.                                                                  *)
EveryFrameTaken ==
  \A n \in 1 .. MaxTurns : (Len(pushed) >= n) ~> (dead \/ Len(taken) >= n)
=============================================================================
