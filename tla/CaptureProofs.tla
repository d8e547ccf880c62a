---------------------------- MODULE CaptureProofs ----------------------------
(***************************************************************************)
(* Theorems about Application and its Recorder together, for both          *)
(* platforms: the Application drives the Recorder within the Recorder's    *)
(* own specification, so what RecorderProofs shows holds here too; the     *)
(* record button ends a recording and never makes the Recorder fault,      *)
(* unless it is pressed inside a depth callback; and what is known of the  *)
(* destructor and of the directory face.bin is opened in.                  *)
(***************************************************************************)
EXTENDS Capture, RecorderProofs

(* Every step of the Application is one step of the Recorder or none. *)
LEMMA EdgeStep == CaptureAssumption /\ Edge => [Calls]_recVars
<1> SUFFICES ASSUME CaptureAssumption, Edge PROVE [Calls]_recVars
  OBVIOUS
<1>1. DocumentsRead \subseteq Paths \cup {EmptyPath}
  BY DEF DocumentsRead, CaptureAssumption
<1> QED BY <1>1 DEF Edge, Calls

LEMMA StepDrives == [CaptureNext]_capVars => [RecNext]_recVars
<1> SUFFICES ASSUME [CaptureNext]_capVars PROVE [RecNext]_recVars
  OBVIOUS
<1>1. CASE UNCHANGED capVars
  BY <1>1 DEF capVars
<1>2. CASE OnDepthBuffer \/ OnFaceData
  BY <1>2, EdgeStep, CaptureAssumption DEF OnDepthBuffer, OnFaceData, RecNext
<1>3. CASE DepthWrite
  BY <1>3 DEF DepthWrite, Calls, RecNext
<1>4. CASE FaceWrite
  BY <1>4 DEF FaceWrite, Calls, RecNext
<1>5. CASE DepthEnd \/ Initialize \/ Initialized \/ NoDepthDue \/ NoFaceDue \/ Tick
           \/ DrawToggle \/ Draw \/ ExitAborts
  BY <1>5 DEF DepthEnd, Initialize, Initialized, NoDepthDue, NoFaceDue, Tick, DrawToggle,
     Draw, ExitAborts
<1>6. CASE ExitJoins
  BY <1>6 DEF ExitJoins, Calls, RecNext
<1>7. CASE RecorderSteps
  BY <1>7 DEF RecorderSteps, Calls, RecNext
<1> QED BY <1>1, <1>2, <1>3, <1>4, <1>5, <1>6, <1>7 DEF CaptureNext

(* The Application, on either platform, keeps to the Recorder's interface: *)
(* what holds of every Recorder holds of this one.                         *)
THEOREM CaptureDrivesRecorder == CaptureSpec => RecSpec
<1>1. CaptureInit => RecInit
  BY DEF CaptureInit
<1> QED BY <1>1, StepDrives, PTL DEF CaptureSpec, RecSpec

(* No frame the camera callbacks push is lost or reordered in the Recorder. *)
THEOREM CapturedFramesNotLost == CaptureSpec => []NothingLost
BY CaptureDrivesRecorder, NothingIsLost, PTL
-----------------------------------------------------------------------------
(* The Application's own variables keep their types. *)
AppTypeOK ==
  /\ isrec \in BOOLEAN /\ wasrec \in BOOLEAN
  /\ cb \in CallbackStates
  /\ ui \in UiStates
  /\ player \in BOOLEAN
  /\ torn \in BOOLEAN /\ early \in BOOLEAN

LEMMA AppTypeStep == AppTypeOK /\ [CaptureNext]_capVars => AppTypeOK'
<1> SUFFICES ASSUME AppTypeOK, [CaptureNext]_capVars PROVE AppTypeOK'
  OBVIOUS
<1> USE DEF AppTypeOK, CallbackStates, UiStates
<1>1. CASE UNCHANGED capVars
  BY <1>1 DEF capVars, appVars
<1>2. Edge => early' \in BOOLEAN
  BY DEF Edge
<1>3. CASE OnDepthBuffer \/ OnFaceData
  BY <1>2, <1>3 DEF OnDepthBuffer, OnFaceData
<1>4. CASE DepthWrite
  BY <1>4 DEF DepthWrite
<1>5. CASE FaceWrite
  BY <1>5 DEF FaceWrite
<1>6. CASE DepthEnd
  BY <1>6 DEF DepthEnd
<1>7. CASE Initialize \/ Initialized \/ NoDepthDue \/ NoFaceDue
  BY <1>7 DEF Initialize, Initialized, NoDepthDue, NoFaceDue
<1>8. CASE Tick \/ Draw
  BY <1>8 DEF Tick, Draw, AfterDraw
<1>9. CASE DrawToggle
  BY <1>9 DEF DrawToggle, AfterDraw
<1>10. CASE ExitAborts \/ ExitJoins
  BY <1>10 DEF ExitAborts, ExitJoins
<1>11. CASE RecorderSteps
  BY <1>11 DEF RecorderSteps, appVars
<1> QED BY <1>1, <1>3, <1>4, <1>5, <1>6, <1>7, <1>8, <1>9, <1>10, <1>11 DEF CaptureNext

(* Every variable of Application and Recorder keeps its type while the     *)
(* callbacks, Tick, Draw, the destructor and the background thread run.    *)
THEOREM CaptureTypeCorrect == CaptureSpec => []CaptureTypeOK
<1>1. CaptureInit => AppTypeOK
  BY DEF CaptureInit, AppTypeOK, CallbackStates, UiStates
<1>2. TypeOK /\ AppTypeOK => CaptureTypeOK
  BY DEF AppTypeOK, CaptureTypeOK
<1> QED BY <1>1, <1>2, AppTypeStep, CaptureDrivesRecorder, TypeCorrect, PTL DEF CaptureSpec
-----------------------------------------------------------------------------
(* The button and the stream, while nothing is torn.  Started: where       *)
(* m_wasrecording is set, or about to be, a frame was pushed, and the      *)
(* first entry is a frame.  Stopped: where the depth callbacks have seen   *)
(* the button off, the last entry is a stop marker.                        *)
Ends(s) == s = << >> \/ s[Len(s)] = Stop

Started == /\ wasrec \/ (cb = "depthEnd" /\ isrec) => pushed # << >>
           /\ pushed # << >> => pushed[1] # Stop
Stopped == /\ cb \in {"idle", "faceWrite"} /\ ~wasrec => Ends(pushed)
           /\ cb \in {"depthWrite", "depthEnd"} /\ ~isrec => Ends(pushed)

ButtonInv == ~torn => Started /\ Stopped

(* What a call of the Recorder made by Edge does to the entries pushed. *)
LEMMA EdgePushes ==
  ASSUME TypeOK, Edge
  PROVE  IF ~isrec /\ wasrec THEN pushed' = Append(pushed, Stop) ELSE pushed' = pushed
<1>1. CASE isrec /\ ~wasrec
  BY <1>1 DEF Edge, StartRecording, queueVars
<1>2. CASE ~isrec /\ wasrec
  BY <1>2 DEF Edge, StopRecording, PushDepth
<1>3. CASE ~(isrec /\ ~wasrec) /\ ~(~isrec /\ wasrec)
  BY <1>3 DEF Edge, recVars, queueVars
<1> QED BY <1>1, <1>2, <1>3

LEMMA AppendEnds ==
  ASSUME NEW s \in Seq(Entry), NEW e \in Entry
  PROVE  /\ Append(s, e) # << >>
         /\ Append(s, e)[Len(Append(s, e))] = e
         /\ Append(s, e)[1] = IF s = << >> THEN e ELSE s[1]
<1>1. /\ Append(s, e) # << >> /\ Len(Append(s, e)) = Len(s) + 1
      /\ \A i \in 1 .. Len(s) : Append(s, e)[i] = s[i]
      /\ Append(s, e)[Len(s) + 1] = e
  BY AppendProperties
<1>2. CASE s = << >>
  BY <1>1, <1>2, EmptySeq
<1>3. CASE s # << >>
  <2>1. 1 \in 1 .. Len(s)
    BY <1>3, EmptySeq
  <2> QED BY <1>1, <1>3, <2>1
<1> QED BY <1>1, <1>2, <1>3

LEMMA ButtonStep ==
  TypeOK /\ AppTypeOK /\ ButtonInv /\ [CaptureNext]_capVars => ButtonInv'
<1> SUFFICES ASSUME TypeOK, AppTypeOK, ButtonInv, [CaptureNext]_capVars, ~torn'
             PROVE  Started' /\ Stopped'
  BY DEF ButtonInv
<1>1. ~torn
  BY DEF AppTypeOK, CaptureNext, capVars, appVars, OnDepthBuffer, DepthWrite, DepthEnd,
     OnFaceData, FaceWrite, Initialize, Initialized, NoDepthDue, NoFaceDue, Tick, DrawToggle,
     Draw, ExitAborts, ExitJoins, RecorderSteps
<1>2. Started /\ Stopped
  BY <1>1 DEF ButtonInv
<1>3. ASSUME UNCHANGED <<isrec, wasrec, cb, pushed>> PROVE Started' /\ Stopped'
  BY <1>2, <1>3 DEF Started, Stopped, Ends
<1>4. CASE UNCHANGED capVars
  BY <1>3, <1>4 DEF capVars, appVars, recVars, queueVars
<1>5. CASE OnDepthBuffer \/ OnFaceData
  <2>1. /\ Edge /\ isrec' = isrec /\ wasrec' = wasrec /\ cb = "idle"
        /\ cb' \in {"depthWrite", "faceWrite"}
    BY <1>5 DEF OnDepthBuffer, OnFaceData, Arrives
  <2>2. CASE ~isrec /\ wasrec
    <3>1. pushed' = Append(pushed, Stop) /\ pushed \in Seq(Entry) /\ Stop \in Entry
      BY <2>1, <2>2, EdgePushes DEF TypeOK, Entry
    <3>2. pushed # << >> /\ pushed[1] # Stop
      BY <1>2, <2>2 DEF Started
    <3>3. pushed' # << >> /\ pushed'[Len(pushed')] = Stop /\ pushed'[1] = pushed[1]
      BY <3>1, <3>2, AppendEnds
    <3> QED BY <3>2, <3>3 DEF Started, Stopped, Ends
  <2>3. CASE ~(~isrec /\ wasrec)
    <3>1. pushed' = pushed
      BY <2>1, <2>3, EdgePushes
    <3> QED BY <1>2, <2>1, <2>3, <3>1 DEF Started, Stopped, Ends
  <2> QED BY <2>2, <2>3
<1>6. CASE DepthWrite
  <2>1. cb = "depthWrite" /\ cb' = "depthEnd" /\ isrec' = isrec /\ wasrec' = wasrec
    BY <1>6 DEF DepthWrite
  <2>2. CASE isrec
    <3>1. PICK f \in Frames : WriteFrame(f)
      BY <1>6, <2>2 DEF DepthWrite
    <3>2. pushed' = Append(pushed, f) /\ pushed \in Seq(Entry) /\ f \in Entry /\ f # Stop
      BY <3>1, RecorderAssumption DEF WriteFrame, PushDepth, TypeOK, Entry
    <3>3. pushed' # << >> /\ pushed'[1] # Stop
      BY <1>2, <3>2, AppendEnds DEF Started
    <3> QED BY <2>1, <2>2, <3>3 DEF Started, Stopped
  <2>3. CASE ~isrec
    <3>1. pushed' = pushed
      BY <1>6, <2>3 DEF DepthWrite, recVars, queueVars
    <3> QED BY <1>2, <2>1, <2>3, <3>1 DEF Started, Stopped, Ends
  <2> QED BY <2>2, <2>3
<1>7. CASE DepthEnd
  <2>1. cb = "depthEnd" /\ cb' = "idle" /\ isrec' = isrec /\ wasrec' = isrec /\ pushed' = pushed
    BY <1>7 DEF DepthEnd, recVars, queueVars
  <2> QED BY <1>2, <2>1 DEF Started, Stopped, Ends
<1>8. CASE FaceWrite
  <2>1. cb = "faceWrite" /\ cb' = "idle" /\ isrec' = isrec /\ wasrec' = wasrec
    BY <1>8 DEF FaceWrite
  <2>2. pushed' = pushed
    BY <1>8 DEF FaceWrite, WriteFaceFrame, recVars, queueVars
  <2> QED BY <1>2, <2>1, <2>2 DEF Started, Stopped, Ends
<1>9. CASE DrawToggle
  <2>1. /\ cb' = cb /\ wasrec' = wasrec /\ pushed' = pushed
        /\ cb \notin {"depthWrite", "depthEnd"}
    BY <1>9 DEF DrawToggle, recVars, queueVars, AppTypeOK
  <2> QED BY <1>2, <2>1 DEF Started, Stopped, Ends
<1>10. CASE Initialize \/ Initialized \/ NoDepthDue \/ NoFaceDue \/ Tick \/ Draw \/ ExitAborts
  BY <1>3, <1>10 DEF Initialize, Initialized, NoDepthDue, NoFaceDue, Tick, Draw, ExitAborts,
     recVars, queueVars
<1>11. CASE ExitJoins
  BY <1>3, <1>11 DEF ExitJoins, Destroy, queueVars
<1>12. CASE RecorderSteps
  <2>1. UNCHANGED <<isrec, wasrec, cb>>
    BY <1>12 DEF RecorderSteps, appVars
  <2>2. pushed' = pushed
    BY <1>12 DEF RecorderSteps, BackgroundThread, TestTerminate, Sleep, SpuriousWakeup,
       SwapQueues, NullHeaderRead, StreamFrame, FinishFFmpeg, Handle, DropFaces, WriteFaces,
       Join, queueVars
  <2> QED BY <1>3, <2>1, <2>2
<1> QED BY <1>4, <1>5, <1>6, <1>7, <1>8, <1>9, <1>10, <1>11, <1>12 DEF CaptureNext

LEMMA ButtonAlways == CaptureSpec => []ButtonInv
<1>1. CaptureInit => AppTypeOK
  BY DEF CaptureInit, AppTypeOK, CallbackStates, UiStates
<1>2. CaptureInit => ButtonInv
  BY DEF CaptureInit, RecInit, ButtonInv, Started, Stopped, Ends
<1> QED BY <1>1, <1>2, AppTypeStep, ButtonStep, CaptureDrivesRecorder, TypeCorrect, PTL
        DEF CaptureSpec

(* The null read in Record.cpp needs a flip of m_isrecording by Draw       *)
(* inside OnDepthBufferInst.                                               *)
THEOREM FaultNeedsTear == CaptureSpec => []FaultOnlyIfTorn
<1>1. HeaderOfFirstFrame /\ ButtonInv => FaultOnlyIfTorn
  BY DEF HeaderOfFirstFrame, ButtonInv, Started, FaultOnlyIfTorn
<1> QED BY <1>1, ButtonAlways, CaptureDrivesRecorder, HeaderIsOfFirstFrame, PTL

(* Seen off by the depth callback, the button has ended the stream with a  *)
(* stop marker, whatever face callbacks came in between.                   *)
THEOREM RecordingsEnd == CaptureSpec => []RecordingEnds
<1>1. ButtonInv => RecordingEnds
  BY DEF ButtonInv, Stopped, Ends, RecordingEnds
<1> QED BY <1>1, ButtonAlways, PTL
-----------------------------------------------------------------------------
(* Who is where on Windows' one thread: a callback is under way only in    *)
(* its place in Tick, Draw comes after Application's Tick, and before the  *)
(* first of those nothing was pushed unless Tick is past the depth frame.  *)
Unused == pushed = << >> /\ facesPushed = << >>

OneThread ==
  /\ cb \in {"depthWrite", "depthEnd"} => ui = "depth"
  /\ cb = "faceWrite" => ui = "face"
  /\ ui = "draw" => player
  /\ ~player /\ cb = "idle" /\ ui \in {"start", "initialising", "depth"} => Unused

JoinInv ==
  /\ Platform = "windows" => OneThread
  /\ owner # "using" => Unused

(* The Recorder's thread pushes nothing and destroys nothing. *)
LEMMA ThreadPushesNone ==
  ASSUME RecorderSteps
  PROVE  pushed' = pushed /\ facesPushed' = facesPushed /\ (owner = "using" => owner' = "using")
BY DEF RecorderSteps, BackgroundThread, TestTerminate, Sleep, SpuriousWakeup,
   SwapQueues, NullHeaderRead, StreamFrame, FinishFFmpeg, Handle, DropFaces, WriteFaces,
   Join, queueVars, controlVars

LEMMA JoinStep ==
  AppTypeOK /\ JoinInv /\ [CaptureNext]_capVars => JoinInv'
<1> SUFFICES ASSUME AppTypeOK, JoinInv, [CaptureNext]_capVars PROVE JoinInv'
  OBVIOUS
<1>1. ASSUME UNCHANGED <<cb, ui, player, pushed, facesPushed>>,
             owner = "using" => owner' = "using"
      PROVE  JoinInv'
  BY <1>1 DEF JoinInv, OneThread, Unused
<1>2. CASE UNCHANGED capVars
  BY <1>1, <1>2 DEF capVars, appVars, recVars, queueVars, controlVars
<1>3. CASE OnDepthBuffer \/ OnFaceData
  <2>1. /\ owner = "using" /\ cb = "idle" /\ UNCHANGED <<ui, player>> /\ Edge
        /\ \/ cb' = "depthWrite" /\ (Platform = "windows" => ui = "depth")
           \/ cb' = "faceWrite" /\ (Platform = "windows" => ui = "face")
    BY <1>3, CaptureAssumption DEF OnDepthBuffer, OnFaceData, Arrives, CanCall,
       CaptureAssumption
  <2>2. owner' = owner
    BY <2>1 DEF Edge, StartRecording, StopRecording, PushDepth, recVars, controlVars
  <2>3. QED
    BY <2>1, <2>2 DEF JoinInv, OneThread
<1>4. CASE DepthWrite
  <2>1. cb = "depthWrite" /\ cb' = "depthEnd" /\ UNCHANGED <<ui, player, owner>>
    BY <1>4 DEF DepthWrite, WriteFrame, PushDepth, recVars, controlVars
  <2>2. owner # "using" => UNCHANGED <<pushed, facesPushed>>
    BY <1>4 DEF DepthWrite, WriteFrame, PushDepth, CanCall, recVars, queueVars
  <2>3. QED
    BY <2>1, <2>2 DEF JoinInv, OneThread, Unused
<1>5. CASE DepthEnd
  <2>1. /\ cb = "depthEnd" /\ cb' = "idle" /\ UNCHANGED <<player, owner, pushed, facesPushed>>
        /\ ui' = IF Platform = "windows" THEN "face" ELSE ui
    BY <1>5 DEF DepthEnd, recVars, queueVars, controlVars
  <2>2. QED
    BY <2>1 DEF JoinInv, OneThread, Unused
<1>6. CASE FaceWrite
  <2>1. /\ cb = "faceWrite" /\ cb' = "idle" /\ UNCHANGED <<player, owner>>
        /\ ui' = IF Platform = "windows" THEN "tick" ELSE ui
    BY <1>6 DEF FaceWrite, WriteFaceFrame, recVars, controlVars
  <2>2. owner # "using" => UNCHANGED <<pushed, facesPushed>>
    BY <1>6 DEF FaceWrite, WriteFaceFrame, CanCall, recVars, queueVars
  <2>3. QED
    BY <2>1, <2>2 DEF JoinInv, OneThread, Unused
<1>7. CASE Initialize \/ Initialized \/ NoDepthDue \/ NoFaceDue \/ Tick \/ DrawToggle \/ Draw
           \/ ExitAborts
  <2>1. UNCHANGED <<cb, pushed, facesPushed, owner>>
    BY <1>7 DEF Initialize, Initialized, NoDepthDue, NoFaceDue, Tick, DrawToggle, Draw,
       ExitAborts, recVars, queueVars, controlVars
  <2>2. owner' # "using" => Unused'
    BY <2>1 DEF JoinInv, Unused
  <2>3. ASSUME Platform = "windows"  PROVE OneThread'
    BY <1>7, <2>1, <2>3 DEF Initialize, Initialized, NoDepthDue, NoFaceDue, Tick, DrawToggle,
       Draw, ExitAborts, AfterDraw, JoinInv, OneThread, Unused
  <2>4. QED
    BY <2>2, <2>3 DEF JoinInv
<1>8. CASE ExitJoins
  <2>1. /\ Platform = "windows" /\ ui \in {"start", "depth"} /\ cb = "idle" /\ ~player
        /\ ui' = "exiting" /\ UNCHANGED <<cb, player, pushed, facesPushed>>
    BY <1>8 DEF ExitJoins, Destroy, queueVars
  <2>2. QED
    BY <2>1 DEF JoinInv, OneThread, Unused
<1>9. CASE RecorderSteps
  <2>1. UNCHANGED <<cb, ui, player>>
    BY <1>9 DEF RecorderSteps, appVars
  <2>2. /\ pushed' = pushed /\ facesPushed' = facesPushed
        /\ owner = "using" => owner' = "using"
    BY <1>9, ThreadPushesNone
  <2>3. QED
    BY <1>1, <2>1, <2>2
<1>10. QED
  BY <1>2, <1>3, <1>4, <1>5, <1>6, <1>7, <1>8, <1>9 DEF CaptureNext

(* ~Application: whenever ~Recorder runs, the recorder was never used,     *)
(* because a Player, made by the first Tick after a callback, aborts       *)
(* before.                                                                 *)
THEOREM JoinsOnlyUnused == CaptureSpec => []JoinOnlyUnused
<1>1. CaptureInit => AppTypeOK
  BY DEF CaptureInit, AppTypeOK, CallbackStates, UiStates
<1>2. CaptureInit => JoinInv
  BY DEF CaptureInit, RecInit, JoinInv, OneThread, Unused
<1>3. JoinInv => JoinOnlyUnused
  BY DEF JoinInv, Unused, JoinOnlyUnused
<1>4. QED
  BY <1>1, <1>2, <1>3, AppTypeStep, JoinStep, PTL DEF CaptureSpec
-----------------------------------------------------------------------------
(* The documents directory: what stands in m_outputPath once there is      *)
(* something to record, or about to be.                                    *)
PathInv ==
  ~early /\ ~torn =>
    /\ wasrec \/ (cb \in {"depthWrite", "depthEnd"} /\ isrec) \/ pushed # << >>
         => outputPath = Documents
    /\ openedAt \in {None, Documents}

LEMMA HistoryStays ==
  ASSUME AppTypeOK, [CaptureNext]_capVars, ~early', ~torn'
  PROVE  ~early /\ ~torn
<1>1. ~torn
  BY DEF AppTypeOK, CaptureNext, capVars, appVars, OnDepthBuffer, DepthWrite, DepthEnd,
     OnFaceData, FaceWrite, Initialize, Initialized, NoDepthDue, NoFaceDue, Tick, DrawToggle,
     Draw, ExitAborts, ExitJoins, RecorderSteps
<1>2. ~early
  BY DEF AppTypeOK, CaptureNext, capVars, appVars, OnDepthBuffer, DepthWrite, DepthEnd,
     OnFaceData, Edge, FaceWrite, Initialize, Initialized, NoDepthDue, NoFaceDue, Tick,
     DrawToggle, Draw, ExitAborts, ExitJoins, RecorderSteps
<1>3. QED
  BY <1>1, <1>2

(* The thread opens the file where m_outputPath says, and only once there  *)
(* are header values.                                                      *)
LEMMA ThreadOpens ==
  ASSUME FaceInv, HeaderStands, RecorderSteps
  PROVE  /\ UNCHANGED <<pushed, outputPath>>
         /\ openedAt' # openedAt => openedAt = None /\ openedAt' = outputPath /\ pushed # << >>
<1>1. UNCHANGED <<pushed, outputPath>>
  BY DEF RecorderSteps, BackgroundThread, TestTerminate, Sleep, SpuriousWakeup,
     SwapQueues, NullHeaderRead, StreamFrame, FinishFFmpeg, Handle, DropFaces, WriteFaces,
     Join, queueVars, controlVars
<1>2. CASE WriteFaces
  <2>1. ASSUME openedAt' # openedAt
        PROVE  openedAt = None /\ openedAt' = outputPath /\ (depthVals # None \/ faceHeader)
    BY <1>2, <2>1 DEF WriteFaces
  <2>2. QED
    BY <1>1, <2>1 DEF FaceInv, FileBegun, HeaderStands
<1>3. CASE ~WriteFaces
  <2>1. openedAt' = openedAt
    BY <1>3 DEF RecorderSteps, BackgroundThread, TestTerminate, Sleep, SpuriousWakeup,
       SwapQueues, NullHeaderRead, StreamFrame, FinishFFmpeg, Handle, DropFaces, Join, fileVars
  <2>2. QED
    BY <1>1, <2>1
<1>4. QED
  BY <1>2, <1>3

LEMMA PathStep ==
  /\ TypeOK /\ AppTypeOK /\ FaceInv /\ HeaderStands /\ PathInv /\ [CaptureNext]_capVars
  => PathInv'
<1> SUFFICES ASSUME TypeOK, AppTypeOK, FaceInv, HeaderStands, PathInv, [CaptureNext]_capVars,
                    ~early', ~torn'
             PROVE  /\ wasrec' \/ (cb' \in {"depthWrite", "depthEnd"} /\ isrec')
                         \/ pushed' # << >> => outputPath' = Documents
                    /\ openedAt' \in {None, Documents}
  BY DEF PathInv
<1>1. /\ ~early /\ ~torn /\ openedAt \in {None, Documents}
      /\ wasrec \/ (cb \in {"depthWrite", "depthEnd"} /\ isrec) \/ pushed # << >>
           => outputPath = Documents
  BY HistoryStays DEF PathInv
<1>2. CASE UNCHANGED capVars
  BY <1>1, <1>2 DEF capVars, appVars, recVars, queueVars, fileVars, controlVars
<1>3. CASE OnDepthBuffer \/ OnFaceData
  <2>1. Edge /\ cb = "idle" /\ UNCHANGED <<isrec, wasrec>>
    BY <1>3 DEF OnDepthBuffer, OnFaceData, Arrives
  <2>2. openedAt' = openedAt
    BY <2>1 DEF Edge, StartRecording, StopRecording, PushDepth, recVars, fileVars
  <2>3. CASE isrec /\ ~wasrec
    <3>1. PICK p \in DocumentsRead : StartRecording(p)
      BY <2>1, <2>3 DEF Edge
    <3>2. ui \notin {"start", "initialising"}
      BY <2>1, <2>3 DEF Edge
    <3>3. p = Documents /\ outputPath' = Documents
      BY <3>1, <3>2 DEF DocumentsRead, StartRecording
    <3>4. QED
      BY <1>1, <2>2, <3>3
  <2>4. CASE ~(isrec /\ ~wasrec)
    <3>1. outputPath' = outputPath /\ (pushed' = pushed \/ wasrec)
      BY <2>1, <2>4 DEF Edge, StopRecording, PushDepth, recVars, queueVars, controlVars
    <3>2. QED
      BY <1>1, <2>1, <2>2, <2>4, <3>1 DEF AppTypeOK
  <2>5. QED
    BY <2>3, <2>4
<1>4. CASE DepthWrite
  <2>1. cb = "depthWrite" /\ UNCHANGED <<isrec, wasrec, outputPath, openedAt>>
    BY <1>4 DEF DepthWrite, WriteFrame, PushDepth, recVars, fileVars, controlVars
  <2>2. isrec \/ pushed' = pushed
    BY <1>4 DEF DepthWrite, recVars, queueVars
  <2>3. QED
    BY <1>1, <2>1, <2>2
<1>5. CASE DepthEnd
  BY <1>1, <1>5 DEF DepthEnd, recVars, queueVars, fileVars, controlVars
<1>6. CASE FaceWrite
  <2>1. /\ cb = "faceWrite" /\ cb' = "idle"
        /\ UNCHANGED <<isrec, wasrec, outputPath, openedAt, pushed>>
    BY <1>6 DEF FaceWrite, WriteFaceFrame, recVars, queueVars, fileVars, controlVars
  <2>2. QED
    BY <1>1, <2>1
<1>7. CASE DrawToggle
  <2>1. /\ UNCHANGED <<wasrec, cb, outputPath, openedAt, pushed>>
        /\ cb \notin {"depthWrite", "depthEnd"}
    BY <1>7 DEF DrawToggle, AppTypeOK, recVars, queueVars, fileVars, controlVars
  <2>2. QED
    BY <1>1, <2>1
<1>8. CASE Initialize \/ Initialized \/ NoDepthDue \/ NoFaceDue \/ Tick \/ Draw \/ ExitAborts
           \/ ExitJoins
  <2>1. UNCHANGED <<isrec, wasrec, cb, outputPath, openedAt, pushed>>
    BY <1>8 DEF Initialize, Initialized, NoDepthDue, NoFaceDue, Tick, Draw, ExitAborts,
       ExitJoins, Destroy, recVars, queueVars, fileVars, controlVars
  <2>2. QED
    BY <1>1, <2>1
<1>9. CASE RecorderSteps
  <2>1. UNCHANGED <<isrec, wasrec, cb>>
    BY <1>9 DEF RecorderSteps, appVars
  <2>2. QED
    BY <1>1, <1>9, <2>1, ThreadOpens
<1>10. QED
  BY <1>2, <1>3, <1>4, <1>5, <1>6, <1>7, <1>8, <1>9 DEF CaptureNext

(* WriteFileData opens face.bin in m_documentsPath, unless a callback came *)
(* before Initialize was through, or Draw flipped the button inside        *)
(* OnDepthBufferInst.                                                      *)
THEOREM FilesUnderDocuments == CaptureSpec => []FileUnderDocuments
<1>1. CaptureInit => AppTypeOK /\ PathInv
  BY DEF CaptureInit, RecInit, AppTypeOK, CallbackStates, UiStates, PathInv
<1>2. PathInv => FileUnderDocuments
  BY DEF PathInv, FileUnderDocuments
<1>3. HeaderOfFirstFrame => HeaderStands
  BY DEF HeaderOfFirstFrame, HeaderStands
<1>4. QED
  BY <1>1, <1>2, <1>3, AppTypeStep, PathStep, CaptureDrivesRecorder, TypeCorrect, FaceInvAlways,
     HeaderIsOfFirstFrame, PTL DEF CaptureSpec
=============================================================================
