------------------------------ MODULE Recorder ------------------------------
(***************************************************************************)
(* The Recorder of src/core/Record.h and src/core/Record.cpp: callers push *)
(* depth frames, face frames and stop markers into two queues under        *)
(* m_hasFramesMtx; a background thread waits on m_hasFramesCv, swaps the   *)
(* queues out and, still holding the mutex, streams every depth frame and  *)
(* writes the face frames to face.bin.                                     *)
(*                                                                         *)
(* A call is one step: it does all its work under the mutex, so nobody     *)
(* sees it half done.  The background thread takes one step per frame,     *)
(* because m_terminate and the two counters are read without the mutex.    *)
(***************************************************************************)
EXTENDS Naturals, Sequences, FiniteSets

CONSTANTS
  Frames,      \* depth frames with a timestamp >= 0: what WriteFrame is given
  Faces,       \* face frames
  Stop,        \* the frame StopRecording makes: timestamp -1, no depth data
  None,        \* no header values captured yet; m_fs not open
  Paths,       \* directories StartRecording may be given
  EmptyPath,   \* the empty string, m_outputPath of a new Recorder
  StreamMode,  \* the global streammode of Record.cpp
  MaxDepth,    \* bound: calls that push a depth frame or a stop marker
  MaxFace      \* bound: calls that push a face frame

ASSUME RecorderAssumption ==
  /\ Stop \notin Frames
  /\ None \notin Frames \cup {Stop}
  /\ EmptyPath \notin Paths
  /\ None \notin Paths \cup {EmptyPath}
  /\ StreamMode \in BOOLEAN
  /\ MaxDepth \in Nat
  /\ MaxFace \in Nat

VARIABLES
  depthQueue,   \* m_depthDataQueue
  faceQueue,    \* m_faceDataQueue
  hasFrames,    \* m_hasFrames
  terminate,    \* m_terminate
  owner,        \* the owning thread: "using" the object, "joining", "joined"
  bg,           \* where the background thread is
  depthFrames,  \* its local depthFrames, without those already handled
  faceFrames,   \* its local faceFrames
  depthVals,    \* the frame m_depthVals was copied from, None before
  faceHeader,   \* m_writeFaceHeader
  faceFile,     \* the blocks written to face.bin
  outputPath,   \* m_outputPath
  openedAt,     \* the m_outputPath with which m_fs was opened, None before
  framesPushed, \* g_framesPushed
  framesWritten,\* g_framesWritten
  pushed,       \* history: every entry pushed on the depth queue
  handled,      \* history: every entry given to StreamFrameBkg or FinishFFmpeg
  facesPushed,  \* history: every face frame pushed
  facesSwapped  \* history: how many of them the background thread has taken

queueVars   == <<depthQueue, faceQueue, hasFrames, framesPushed, pushed, facesPushed>>
batchVars   == <<depthFrames, faceFrames, facesSwapped>>
outputVars  == <<depthVals, handled, framesWritten>>
fileVars    == <<faceHeader, faceFile, openedAt>>
controlVars == <<terminate, owner, outputPath>>
recVars     == <<queueVars, batchVars, outputVars, fileVars, controlVars, bg>>

Entry == Frames \cup {Stop}

(* The background thread: "test" evaluates the loop condition, "lock" is   *)
(* about to take the mutex and look at m_hasFrames, "asleep" waits in the  *)
(* condition variable, "batch" holds the mutex and works on what it        *)
(* swapped out, "done" has returned, "fault" has read through the null     *)
(* data() of an empty depthData.                                           *)
BgStates == {"test", "lock", "asleep", "batch", "done", "fault"}

(* The header block of face.bin and the block of one face frame. *)
Block == [kind : {"header"}, vals : Frames, face : Faces]
           \cup [kind : {"face"}, face : Faces]

MutexFree == bg \notin {"batch", "fault"}

TypeOK ==
  /\ depthQueue \in Seq(Entry)
  /\ faceQueue \in Seq(Faces)
  /\ hasFrames \in BOOLEAN
  /\ terminate \in BOOLEAN
  /\ owner \in {"using", "joining", "joined"}
  /\ bg \in BgStates
  /\ depthFrames \in Seq(Entry)
  /\ faceFrames \in Seq(Faces)
  /\ depthVals \in Frames \cup {None}
  /\ faceHeader \in BOOLEAN
  /\ faceFile \in Seq(Block)
  /\ outputPath \in Paths \cup {EmptyPath}
  /\ openedAt \in Paths \cup {EmptyPath, None}
  /\ framesPushed \in Nat
  /\ framesWritten \in Nat
  /\ pushed \in Seq(Entry)
  /\ handled \in Seq(Entry)
  /\ facesPushed \in Seq(Faces)
  /\ facesSwapped \in Nat

(* The constructor sets every flag but m_hasFrames: it starts with         *)
(* whatever the memory held.                                               *)
RecInit ==
  /\ depthQueue = << >> /\ faceQueue = << >>
  /\ hasFrames \in BOOLEAN
  /\ terminate = FALSE
  /\ owner = "using"
  /\ bg = "test"
  /\ depthFrames = << >> /\ faceFrames = << >>
  /\ depthVals = None
  /\ faceHeader = FALSE
  /\ faceFile = << >>
  /\ outputPath = EmptyPath
  /\ openedAt = None
  /\ framesPushed = 0 /\ framesWritten = 0
  /\ pushed = << >> /\ handled = << >>
  /\ facesPushed = << >> /\ facesSwapped = 0
-----------------------------------------------------------------------------
(* The calls. *)

(* notify_one: the background thread, if it waits, is to look again. *)
Notify == bg' = IF bg = "asleep" THEN "lock" ELSE bg

CanCall == owner = "using" /\ bg # "fault"

StartRecording(path) ==
  /\ CanCall
  /\ outputPath' = path
  /\ UNCHANGED <<queueVars, batchVars, outputVars, fileVars, terminate, owner, bg>>

PushDepth(entry) ==
  /\ CanCall /\ MutexFree
  /\ Len(pushed) < MaxDepth
  /\ depthQueue' = Append(depthQueue, entry)
  /\ pushed' = Append(pushed, entry)
  /\ hasFrames' = TRUE
  /\ Notify
  /\ UNCHANGED <<faceQueue, facesPushed, batchVars, outputVars, fileVars, controlVars>>

(* Mutants of StopRecording and WriteFrame. *)
StopRecordingCounted == PushDepth(Stop) /\ framesPushed' = framesPushed + 1

StopRecording == PushDepth(Stop) /\ UNCHANGED framesPushed

WriteFrameForgetsFlag(frame) ==
  /\ CanCall /\ MutexFree
  /\ Len(pushed) < MaxDepth
  /\ depthQueue' = Append(depthQueue, frame)
  /\ pushed' = Append(pushed, frame)
  /\ framesPushed' = framesPushed + 1
  /\ Notify
  /\ UNCHANGED <<hasFrames, faceQueue, facesPushed, batchVars, outputVars, fileVars, controlVars>>

WriteFrame(frame) == PushDepth(frame) /\ framesPushed' = framesPushed + 1

(* Mutant of WriteFaceFrame: the missing notify_one. *)
WriteFaceFrameSilent(face) ==
  /\ CanCall /\ MutexFree
  /\ Len(facesPushed) < MaxFace
  /\ faceQueue' = Append(faceQueue, face)
  /\ facesPushed' = Append(facesPushed, face)
  /\ hasFrames' = TRUE
  /\ framesPushed' = framesPushed + 1
  /\ UNCHANGED <<bg, depthQueue, pushed, batchVars, outputVars, fileVars, controlVars>>

WriteFaceFrame(face) ==
  /\ CanCall /\ MutexFree
  /\ Len(facesPushed) < MaxFace
  /\ faceQueue' = Append(faceQueue, face)
  /\ facesPushed' = Append(facesPushed, face)
  /\ hasFrames' = TRUE
  /\ framesPushed' = framesPushed + 1
  /\ Notify
  /\ UNCHANGED <<depthQueue, pushed, batchVars, outputVars, fileVars, controlVars>>

(* ~Recorder sets m_terminate, wakes nobody, and joins the thread. *)
Destroy ==
  /\ CanCall
  /\ terminate' = TRUE
  /\ owner' = "joining"
  /\ UNCHANGED <<queueVars, batchVars, outputVars, fileVars, outputPath, bg>>

Join ==
  /\ owner = "joining" /\ bg = "done"
  /\ owner' = "joined"
  /\ UNCHANGED <<queueVars, batchVars, outputVars, fileVars, terminate, outputPath, bg>>
-----------------------------------------------------------------------------
(* The background thread. *)

(* Mutant of TestTerminate: while (true). *)
TestNothing ==
  /\ bg = "test"
  /\ bg' = "lock"
  /\ UNCHANGED <<queueVars, batchVars, outputVars, fileVars, controlVars>>

TestTerminate ==
  /\ bg = "test"
  /\ bg' = IF terminate THEN "done" ELSE "lock"
  /\ UNCHANGED <<queueVars, batchVars, outputVars, fileVars, controlVars>>

(* wait(mlock, pred): with the mutex, m_hasFrames is false. *)
Sleep ==
  /\ bg = "lock" /\ ~hasFrames
  /\ bg' = "asleep"
  /\ UNCHANGED <<queueVars, batchVars, outputVars, fileVars, controlVars>>

(* The condition variable may return without a notification. *)
SpuriousWakeup ==
  /\ bg = "asleep"
  /\ bg' = "lock"
  /\ UNCHANGED <<queueVars, batchVars, outputVars, fileVars, controlVars>>

(* Mutant of SwapQueues: the depth queue is copied and left as it was. *)
CopyQueues ==
  /\ bg = "lock" /\ hasFrames
  /\ bg' = "batch"
  /\ depthFrames' = depthQueue
  /\ faceFrames' = faceQueue /\ faceQueue' = << >>
  /\ facesSwapped' = facesSwapped + Len(faceQueue)
  /\ UNCHANGED <<depthQueue, hasFrames, framesPushed, pushed, facesPushed, outputVars,
                 fileVars, controlVars>>

(* m_hasFrames is true: both queues are swapped with empty local vectors. *)
(* m_hasFrames is never reset.                                            *)
SwapQueues ==
  /\ bg = "lock" /\ hasFrames
  /\ bg' = "batch"
  /\ depthFrames' = depthQueue /\ depthQueue' = << >>
  /\ faceFrames' = faceQueue /\ faceQueue' = << >>
  /\ facesSwapped' = facesSwapped + Len(faceQueue)
  /\ UNCHANGED <<hasFrames, framesPushed, pushed, facesPushed, outputVars, fileVars, controlVars>>

(* The frame the for loop is at. *)
AtEntry == bg = "batch" /\ depthFrames # << >>

(* The first frame of all gives the header values; a stop marker has none, *)
(* and memcpy reads 64 bytes from a null pointer: the process dies.        *)
NullHeaderRead ==
  /\ AtEntry /\ depthVals = None /\ Head(depthFrames) = Stop
  /\ bg' = "fault"
  /\ UNCHANGED <<queueVars, batchVars, outputVars, fileVars, controlVars>>

Handle == /\ handled' = Append(handled, Head(depthFrames))
          /\ depthFrames' = Tail(depthFrames)
          /\ UNCHANGED <<queueVars, faceFrames, facesSwapped, fileVars, controlVars, bg>>

(* Mutants of StreamFrame: the header values follow every frame; the batch *)
(* is streamed from its newest frame back.                                 *)
StreamFrameReheads ==
  /\ AtEntry /\ Head(depthFrames) # Stop
  /\ depthVals' = Head(depthFrames)
  /\ framesWritten' = framesWritten + 1
  /\ Handle

StreamLastFrame ==
  /\ AtEntry /\ Head(depthFrames) # Stop
  /\ depthVals' = IF depthVals = None THEN Head(depthFrames) ELSE depthVals
  /\ framesWritten' = framesWritten + 1
  /\ handled' = Append(handled, depthFrames[Len(depthFrames)])
  /\ depthFrames' = SubSeq(depthFrames, 1, Len(depthFrames) - 1)
  /\ UNCHANGED <<queueVars, faceFrames, facesSwapped, fileVars, controlVars, bg>>

StreamFrame ==
  /\ AtEntry /\ Head(depthFrames) # Stop
  /\ depthVals' = IF depthVals = None THEN Head(depthFrames) ELSE depthVals
  /\ framesWritten' = framesWritten + 1
  /\ Handle

FinishFFmpeg ==
  /\ AtEntry /\ Head(depthFrames) = Stop /\ depthVals # None
  /\ Handle
  /\ UNCHANGED <<depthVals, framesWritten>>

HeaderBlock(face) == [kind |-> "header", vals |-> depthVals, face |-> face]
FaceBlock(face)   == [kind |-> "face", face |-> face]

(* Mutant of WriteFaces: m_writeFaceHeader is not set. *)
WriteFacesReheads ==
  /\ bg = "batch" /\ depthFrames = << >> /\ ~StreamMode
  /\ LET header == depthVals # None /\ faceFrames # << >>
         blocks == (IF header THEN <<HeaderBlock(faceFrames[1])>> ELSE << >>)
                   \o IF header THEN [i \in DOMAIN faceFrames |-> FaceBlock(faceFrames[i])]
                                ELSE << >>
     IN /\ faceFile' = faceFile \o blocks
        /\ openedAt' = IF openedAt = None /\ blocks # << >> THEN outputPath ELSE openedAt
  /\ bg' = "test"
  /\ faceFrames' = << >>
  /\ UNCHANGED <<faceHeader, queueVars, depthFrames, facesSwapped, outputVars, controlVars>>

(* streammode: the face frames are dropped.  The mutex is released at the *)
(* end of the block.                                                      *)
DropFaces ==
  /\ bg = "batch" /\ depthFrames = << >> /\ StreamMode
  /\ bg' = "test"
  /\ faceFrames' = << >>
  /\ UNCHANGED <<queueVars, depthFrames, facesSwapped, outputVars, fileVars, controlVars>>

(* Otherwise face.bin gets one header block, once header values and a face *)
(* frame are there, and from then on every face frame.  WriteFileData      *)
(* opens the file on the first write.                                      *)
WriteFaces ==
  /\ bg = "batch" /\ depthFrames = << >> /\ ~StreamMode
  /\ LET header == depthVals # None /\ ~faceHeader /\ faceFrames # << >>
         blocks == (IF header THEN <<HeaderBlock(faceFrames[1])>> ELSE << >>)
                   \o IF header \/ faceHeader
                      THEN [i \in DOMAIN faceFrames |-> FaceBlock(faceFrames[i])]
                      ELSE << >>
     IN /\ faceHeader' = (faceHeader \/ header)
        /\ faceFile' = faceFile \o blocks
        /\ openedAt' = IF openedAt = None /\ blocks # << >> THEN outputPath ELSE openedAt
  /\ bg' = "test"
  /\ faceFrames' = << >>
  /\ UNCHANGED <<queueVars, depthFrames, facesSwapped, outputVars, controlVars>>

BackgroundThread ==
  \/ TestTerminate \/ Sleep \/ SwapQueues
  \/ NullHeaderRead \/ StreamFrame \/ FinishFFmpeg
  \/ DropFaces \/ WriteFaces

Calls ==
  \/ \E p \in Paths \cup {EmptyPath} : StartRecording(p)
  \/ StopRecording
  \/ \E f \in Frames : WriteFrame(f)
  \/ \E f \in Faces : WriteFaceFrame(f)
  \/ Destroy \/ Join

RecNext == Calls \/ BackgroundThread \/ SpuriousWakeup

RecSpec == RecInit /\ [][RecNext]_recVars

(* The operating system keeps running the background thread.  Callers hold *)
(* the mutex only inside one call, so the thread gets it when it wants it. *)
FairRecSpec == RecSpec /\ WF_recVars(BackgroundThread) /\ WF_recVars(Join)
-----------------------------------------------------------------------------
(* Properties. *)

(* The swap in BackgroundThread, the frame by frame loop and the callers'  *)
(* push_back never lose, repeat or reorder an entry: what was pushed is    *)
(* what was handed on, then the rest of the batch, then the queue.         *)
NothingLost == pushed = handled \o depthFrames \o depthQueue

(* With WriteFrame, WriteFaceFrame and StopRecording each setting          *)
(* m_hasFrames and notifying, the thread is never asleep on a queue that   *)
(* holds something, nor about to go to sleep on it.                        *)
NoLostWakeup ==
  depthQueue # << >> \/ faceQueue # << >> => hasFrames /\ bg # "asleep"

(* m_depthVals comes from the first entry ever pushed and stays; the null  *)
(* read of the memcpy happens only if that first entry is a stop marker.   *)
HeaderOfFirstFrame ==
  /\ depthVals # None => pushed # << >> /\ depthVals = pushed[1]
  /\ bg = "fault" => pushed # << >> /\ pushed[1] = Stop

(* The two counters the Hud shows: they differ by the depth frames not     *)
(* streamed yet and by every face frame ever pushed, because face frames   *)
(* count as pushed and never as written, and stop markers as neither.      *)
CountersAgree ==
  LET waiting == {i \in Len(handled) + 1 .. Len(pushed) : pushed[i] # Stop}
  IN framesPushed = framesWritten + Cardinality(waiting) + Len(facesPushed)

(* face.bin is empty or starts with its only header block, which carries   *)
(* the first depth frame's values and the first face written; from there   *)
(* on no face frame the thread has dealt with is missing or out of order.  *)
FaceFileComplete ==
  LET n == Len(faceFile)
      dealtWith == facesSwapped - Len(faceFrames)
  IN faceFile # << >> =>
       /\ n >= 2 /\ n - 1 <= dealtWith
       /\ faceFile[1] = [kind |-> "header", vals |-> pushed[1], face |-> faceFile[2].face]
       /\ \A i \in 2..n : faceFile[i] = FaceBlock(facesPushed[dealtWith - n + i])

(* The recorder implements the stream of FrameStream: pushing accepts,     *)
(* streaming (or finishing on a stop marker) delivers.                     *)
FS == INSTANCE FrameStream WITH Entries <- Entry, accepted <- pushed, delivered <- handled
ImplementsFrameStream == FS!Spec

(* While the recorder lives, every entry pushed is handed on in the end.   *)
EveryFrameHandled ==
  \A n \in 1..MaxDepth :
    Len(pushed) >= n ~> Len(handled) >= n \/ terminate \/ bg = "fault"

(* ~Recorder does not notify the condition variable, so join() returns for *)
(* certain only if m_hasFrames is set by then (any earlier call sets it    *)
(* for good): the thread then never waits and sees m_terminate.            *)
DestructorReturns ==
  owner = "joining" /\ hasFrames ~> owner = "joined" \/ bg = "fault"
=============================================================================
