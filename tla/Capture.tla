------------------------------ MODULE Capture ------------------------------
(***************************************************************************)
(* How Application (src/core/Application.cpp) drives its Recorder.         *)
(*                                                                         *)
(* The camera delivers depth frames and face frames through OnDepthBuffer  *)
(* and OnFaceData; the record button of Draw flips m_isrecording; the      *)
(* depth callback remembers it in m_wasrecording, and an edge between the  *)
(* two starts or stops the Recorder.                                       *)
(*                                                                         *)
(* On iOS (src/ios/main.mm, entry.cpp) the callbacks run on the main queue *)
(* and Initialize, Tick and Draw on bgfx's thread, with nothing between    *)
(* them: Draw can flip m_isrecording while a callback is under way, and a  *)
(* callback can come before Initialize.  On Windows (src/win/map.cpp) one  *)
(* thread plays a file back and calls all of them in turn, and at the end  *)
(* the static Application is destroyed.                                    *)
(***************************************************************************)
EXTENDS Recorder

CONSTANTS
  Platform,   \* "ios" or "windows"
  Documents   \* the directory Initialize is given

ASSUME CaptureAssumption ==
  /\ Platform \in {"ios", "windows"}
  /\ Documents \in Paths

VARIABLES
  isrec,   \* m_isrecording
  wasrec,  \* m_wasrecording
  cb,      \* where the camera callback under way is, "idle" when there is none
  ui,      \* what the thread of Tick and Draw does next
  player,  \* m_player is not null
  torn,    \* history: a flip of m_isrecording fell inside a depth callback
  early    \* history: a StartRecording came before Initialize was through

appVars == <<isrec, wasrec, cb, ui, player, torn, early>>
capVars == <<appVars, recVars>>

(* "depthWrite": OnDepthBufferInst is past the edge test; "depthEnd": past *)
(* the second look at m_isrecording; "faceWrite": OnFaceDataInst is past   *)
(* the edge test.                                                          *)
CallbackStates == {"idle", "depthWrite", "depthEnd", "faceWrite"}

(* "start", "initialising": Initialize has not run, or assigns             *)
(* m_documentsPath.  "depth", "face": map.cpp's Tick is about to hand a    *)
(* depth, a face frame to the callback.  "tick", "draw": about to call     *)
(* Application's.  "exiting": ~Application waits in ~Recorder.  "aborted": *)
(* ~Application destroyed a joinable std::thread.                          *)
UiStates == {"start", "initialising", "depth", "face", "tick", "draw",
             "exiting", "aborted"}

CaptureTypeOK ==
  /\ TypeOK
  /\ isrec \in BOOLEAN /\ wasrec \in BOOLEAN
  /\ cb \in CallbackStates
  /\ ui \in UiStates
  /\ player \in BOOLEAN
  /\ torn \in BOOLEAN /\ early \in BOOLEAN

CaptureInit ==
  /\ RecInit
  /\ isrec = TRUE /\ wasrec = FALSE
  /\ cb = "idle"
  /\ ui = "start"
  /\ player = FALSE
  /\ torn = FALSE /\ early = FALSE
-----------------------------------------------------------------------------
(* The camera callbacks. *)

(* What a read of m_documentsPath gives: while Initialize assigns it on    *)
(* another thread, anything.                                               *)
DocumentsRead ==
  CASE ui = "start"        -> {EmptyPath}
    [] ui = "initialising" -> Paths \cup {EmptyPath}
    [] OTHER               -> {Documents}

(* Mutant of Edge: the start edge is not looked for. *)
EdgeStopOnly ==
  IF ~isrec /\ wasrec
    THEN StopRecording /\ UNCHANGED early
    ELSE UNCHANGED <<recVars, early>>

(* Lines 268-271 and 300-303: the edge of the record button. *)
Edge ==
  CASE isrec /\ ~wasrec -> /\ \E p \in DocumentsRead : StartRecording(p)
                           /\ early' = (early \/ ui \in {"start", "initialising"})
    [] ~isrec /\ wasrec -> StopRecording /\ UNCHANGED early
    [] OTHER            -> UNCHANGED <<recVars, early>>

(* A frame arrives: on iOS at any time, on Windows when Tick is there. *)
Arrives(phase) == /\ cb = "idle" /\ CanCall
                  /\ Platform = "ios" \/ ui = phase

OnDepthBuffer ==
  /\ Arrives("depth")
  /\ Edge
  /\ cb' = "depthWrite"
  /\ UNCHANGED <<isrec, wasrec, ui, player, torn>>

(* Mutant of DepthWrite: the frame is written whatever the button says. *)
DepthWriteAlways ==
  /\ cb = "depthWrite"
  /\ \E f \in Frames : WriteFrame(f)
  /\ cb' = "depthEnd"
  /\ UNCHANGED <<isrec, wasrec, ui, player, torn, early>>

DepthWrite ==
  /\ cb = "depthWrite"
  /\ IF isrec THEN \E f \in Frames : WriteFrame(f) ELSE UNCHANGED recVars
  /\ cb' = "depthEnd"
  /\ UNCHANGED <<isrec, wasrec, ui, player, torn, early>>

(* The callback returns; on Windows Tick goes on to the face frame. *)
DepthEnd ==
  /\ cb = "depthEnd"
  /\ wasrec' = isrec
  /\ cb' = "idle"
  /\ ui' = IF Platform = "windows" THEN "face" ELSE ui
  /\ UNCHANGED <<isrec, player, torn, early, recVars>>

OnFaceData ==
  /\ Arrives("face")
  /\ Edge
  /\ cb' = "faceWrite"
  /\ UNCHANGED <<isrec, wasrec, ui, player, torn>>

(* Mutant of FaceWrite: it remembers m_isrecording as DepthEnd does. *)
FaceWriteRemembers ==
  /\ cb = "faceWrite"
  /\ IF isrec THEN \E f \in Faces : WriteFaceFrame(f) ELSE UNCHANGED recVars
  /\ wasrec' = isrec
  /\ cb' = "idle"
  /\ ui' = IF Platform = "windows" THEN "tick" ELSE ui
  /\ UNCHANGED <<isrec, player, torn, early>>

(* m_wasrecording stays: the next callback sees the same edge again. *)
FaceWrite ==
  /\ cb = "faceWrite"
  /\ IF isrec THEN \E f \in Faces : WriteFaceFrame(f) ELSE UNCHANGED recVars
  /\ cb' = "idle"
  /\ ui' = IF Platform = "windows" THEN "tick" ELSE ui
  /\ UNCHANGED <<isrec, wasrec, player, torn, early>>
-----------------------------------------------------------------------------
(* The thread of Initialize, Tick and Draw. *)

Initialize ==
  /\ ui = "start" /\ owner = "using"
  /\ ui' = "initialising"
  /\ UNCHANGED <<isrec, wasrec, cb, player, torn, early, recVars>>

Initialized ==
  /\ ui = "initialising"
  /\ ui' = IF Platform = "windows" THEN "depth" ELSE "tick"
  /\ UNCHANGED <<isrec, wasrec, cb, player, torn, early, recVars>>

(* map.cpp: nothing new to show at this time; the first Tick (no player    *)
(* yet) always has a depth frame and a face frame.                         *)
NoDepthDue ==
  /\ ui = "depth" /\ cb = "idle" /\ player
  /\ ui' = "face"
  /\ UNCHANGED <<isrec, wasrec, cb, player, torn, early, recVars>>

NoFaceDue ==
  /\ ui = "face" /\ cb = "idle" /\ player
  /\ ui' = "tick"
  /\ UNCHANGED <<isrec, wasrec, cb, player, torn, early, recVars>>

(* Mutant of Tick: playback is off. *)
TickNoPlayback ==
  /\ ui = "tick"
  /\ ui' = "draw"
  /\ UNCHANGED <<player, isrec, wasrec, cb, torn, early, recVars>>

(* playback is on: the first Tick makes the Player and its thread. *)
Tick ==
  /\ ui = "tick"
  /\ player' = TRUE
  /\ ui' = "draw"
  /\ UNCHANGED <<isrec, wasrec, cb, torn, early, recVars>>

AfterDraw == IF Platform = "windows" THEN "depth" ELSE "tick"

(* Draw with the record button pressed, and without. *)
DrawToggle ==
  /\ ui = "draw"
  /\ isrec' = ~isrec
  /\ torn' = (torn \/ cb \in {"depthWrite", "depthEnd"})
  /\ ui' = AfterDraw
  /\ UNCHANGED <<wasrec, cb, player, early, recVars>>

Draw ==
  /\ ui = "draw"
  /\ ui' = AfterDraw
  /\ UNCHANGED <<isrec, wasrec, cb, player, torn, early, recVars>>

(* ~Application after the message loop of Windows, or after InitInstance   *)
(* failed: the members go in reverse order, the Player first, whose thread *)
(* nobody joined.                                                          *)
ExitAborts ==
  /\ Platform = "windows" /\ ui \in {"start", "depth"} /\ cb = "idle"
  /\ player
  /\ ui' = "aborted"
  /\ UNCHANGED <<isrec, wasrec, cb, player, torn, early, recVars>>

ExitJoins ==
  /\ Platform = "windows" /\ ui \in {"start", "depth"} /\ cb = "idle"
  /\ ~player
  /\ Destroy
  /\ ui' = "exiting"
  /\ UNCHANGED <<isrec, wasrec, cb, player, torn, early>>

(* The background thread, and the return of the join in ~Recorder, while   *)
(* the process is there.                                                   *)
RecorderSteps ==
  /\ ui # "aborted"
  /\ BackgroundThread \/ SpuriousWakeup \/ Join
  /\ UNCHANGED appVars

(* A fault of the background thread ends the process. *)
CaptureNext ==
  /\ bg # "fault"
  /\ \/ OnDepthBuffer \/ DepthWrite \/ DepthEnd
     \/ OnFaceData \/ FaceWrite
     \/ Initialize \/ Initialized
     \/ NoDepthDue \/ NoFaceDue
     \/ Tick \/ DrawToggle \/ Draw
     \/ ExitAborts \/ ExitJoins
     \/ RecorderSteps

CaptureSpec == CaptureInit /\ [][CaptureNext]_capVars
-----------------------------------------------------------------------------
(* Properties. *)

(* The null read of Record.cpp:54 kills the process only if Draw flipped   *)
(* m_isrecording inside OnDepthBufferInst.  Without that a depth callback  *)
(* leaves m_wasrecording set only if it wrote a frame, so every stop       *)
(* marker of Edge has a frame before it.                                   *)
FaultOnlyIfTorn == bg = "fault" => torn

(* Once a depth callback has seen the button off, the stream has its stop  *)
(* marker: OnDepthBufferInst or OnFaceDataInst has sent it, and no frame   *)
(* was written after it.                                                   *)
RecordingEnds ==
  cb = "idle" /\ ~wasrec /\ ~torn /\ pushed # << >> => pushed[Len(pushed)] = Stop

(* face.bin is opened in the documents directory.  The two ways around it: *)
(* a callback that starts the recording before Initialize has assigned     *)
(* m_documentsPath, after which no later StartRecording moves the file;    *)
(* and a flip inside a depth callback, which writes a frame of a recording *)
(* that was never started.                                                 *)
FileUnderDocuments ==
  openedAt # None => openedAt = Documents \/ early \/ torn

(* ~Recorder never runs with frames behind it: once Tick has followed a    *)
(* callback there is a Player, and ~Application aborts before it gets to   *)
(* the Recorder.                                                           *)
JoinOnlyUnused == owner # "using" => pushed = << >> /\ facesPushed = << >>
=============================================================================
