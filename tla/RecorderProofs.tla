-------------------------- MODULE RecorderProofs --------------------------
(***************************************************************************)
(* Theorems about the Recorder, for any sets of frames, faces and paths,   *)
(* any bounds, and streammode either way.                                  *)
(***************************************************************************)
EXTENDS Recorder, SequenceTheorems, FiniteSetTheorems, TLAPS

(***************************************************************************)
(* Sequences: moving the head of one to the end of another does not change *)
(* their concatenation.                                                    *)
(***************************************************************************)
LEMMA MoveHead ==
  ASSUME NEW S, NEW h \in Seq(S), NEW d \in Seq(S), d # << >>
  PROVE  Append(h, Head(d)) \o Tail(d) = h \o d
<1> DEFINE a == Append(h, Head(d))
<1>1. /\ Head(d) \in S /\ Tail(d) \in Seq(S) /\ Len(Tail(d)) = Len(d) - 1
      /\ \A i \in 1 .. Len(Tail(d)) : Tail(d)[i] = d[i + 1]
  BY HeadTailProperties
<1>2. /\ a \in Seq(S) /\ Len(a) = Len(h) + 1
      /\ \A i \in 1 .. Len(h) : a[i] = h[i]
      /\ a[Len(h) + 1] = Head(d)
  BY <1>1, AppendProperties
<1>3. /\ a \o Tail(d) \in Seq(S) /\ h \o d \in Seq(S)
      /\ Len(a \o Tail(d)) = Len(a) + Len(Tail(d))
      /\ Len(h \o d) = Len(h) + Len(d)
      /\ \A i \in 1 .. Len(a) + Len(Tail(d)) :
           (a \o Tail(d))[i] = IF i <= Len(a) THEN a[i] ELSE Tail(d)[i - Len(a)]
      /\ \A i \in 1 .. Len(h) + Len(d) :
           (h \o d)[i] = IF i <= Len(h) THEN h[i] ELSE d[i - Len(h)]
  <2> HIDE DEF a
  <2> QED BY <1>1, <1>2, ConcatProperties
<1>4. Len(h) \in Nat /\ Len(d) \in Nat /\ Len(d) # 0 /\ Head(d) = d[1]
  BY EmptySeq
<1> HIDE DEF a
<1>5. Len(a \o Tail(d)) = Len(h \o d)
  BY <1>1, <1>2, <1>3, <1>4
<1>6. ASSUME NEW i \in 1 .. Len(a \o Tail(d))
      PROVE  (a \o Tail(d))[i] = (h \o d)[i]
  <2>1. i \in 1 .. Len(h) + Len(d) /\ Len(a) + Len(Tail(d)) = Len(h) + Len(d)
    BY <1>1, <1>2, <1>3, <1>4
  <2>2. CASE i <= Len(h)
    BY <2>1, <2>2, <1>2, <1>3, <1>4
  <2>3. CASE i = Len(h) + 1
    BY <2>1, <2>3, <1>2, <1>3, <1>4
  <2>4. CASE i > Len(h) + 1
    <3>1. /\ (a \o Tail(d))[i] = Tail(d)[i - (Len(h) + 1)]
          /\ (h \o d)[i] = d[i - Len(h)]
      BY <2>1, <2>4, <1>2, <1>3, <1>4
    <3>2. i - (Len(h) + 1) \in 1 .. Len(Tail(d))
      BY <2>1, <2>4, <1>1, <1>4
    <3>3. Tail(d)[i - (Len(h) + 1)] = d[(i - (Len(h) + 1)) + 1]
      BY <3>2, <1>1
    <3>4. (i - (Len(h) + 1)) + 1 = i - Len(h)
      BY <2>1, <1>4
    <3> QED BY <3>1, <3>3, <3>4
  <2> QED BY <2>1, <2>2, <2>3, <2>4, <1>4
<1> QED BY <1>3, <1>5, <1>6, SeqEqual DEF a
-----------------------------------------------------------------------------
(* The blocks WriteFaces adds to face.bin are blocks. *)
LEMMA NewBlocks ==
  ASSUME TypeOK, NEW header \in BOOLEAN, NEW all \in BOOLEAN,
         header => depthVals # None /\ faceFrames # << >>
  PROVE  (IF header THEN <<HeaderBlock(faceFrames[1])>> ELSE << >>)
           \o (IF all THEN [i \in DOMAIN faceFrames |-> FaceBlock(faceFrames[i])] ELSE << >>)
         \in Seq(Block)
<1> DEFINE first == IF header THEN <<HeaderBlock(faceFrames[1])>> ELSE << >>
           rest  == IF all THEN [i \in DOMAIN faceFrames |-> FaceBlock(faceFrames[i])] ELSE << >>
<1>1. /\ Len(faceFrames) \in Nat /\ DOMAIN faceFrames = 1 .. Len(faceFrames)
      /\ \A i \in 1 .. Len(faceFrames) : faceFrames[i] \in Faces
  BY LenProperties, ElementOfSeq DEF TypeOK
<1>2. first \in Seq(Block)
  <2>1. CASE header
    <3>1. faceFrames[1] \in Faces
      BY <2>1, <1>1, EmptySeq DEF TypeOK
    <3>2. HeaderBlock(faceFrames[1]) \in Block
      BY <2>1, <3>1 DEF HeaderBlock, Block, TypeOK
    <3> QED BY <2>1, <3>2
  <2>2. CASE ~header
    BY <2>2
  <2> QED BY <2>1, <2>2
<1>3. rest \in Seq(Block)
  <2>1. \A i \in 1 .. Len(faceFrames) : FaceBlock(faceFrames[i]) \in Block
    BY <1>1 DEF FaceBlock, Block
  <2> QED BY <1>1, <2>1
<1> HIDE DEF first, rest
<1>4. first \o rest \in Seq(Block)
  BY <1>2, <1>3, ConcatProperties
<1> QED BY <1>4 DEF first, rest
-----------------------------------------------------------------------------
(* What a step of each kind does to the types: calls first. *)
LEMMA CallsType == TypeOK /\ Calls => TypeOK'
<1> SUFFICES ASSUME TypeOK, Calls PROVE TypeOK'
  OBVIOUS
<1> USE DEF queueVars, batchVars, outputVars, fileVars, controlVars
<1>1. ASSUME NEW p \in Paths \cup {EmptyPath}, StartRecording(p) PROVE TypeOK'
  BY <1>1 DEF TypeOK, StartRecording
<1>2. ASSUME NEW e \in Entry, PushDepth(e), framesPushed' \in Nat PROVE TypeOK'
  <2>1. depthQueue' \in Seq(Entry) /\ pushed' \in Seq(Entry)
    BY <1>2, AppendProperties DEF TypeOK, PushDepth
  <2>2. bg' \in BgStates
    BY <1>2 DEF TypeOK, PushDepth, Notify, BgStates
  <2> QED BY <1>2, <2>1, <2>2 DEF TypeOK, PushDepth
<1>3. CASE StopRecording
  <2>1. Stop \in Entry /\ PushDepth(Stop) /\ framesPushed' \in Nat
    BY <1>3 DEF StopRecording, Entry, TypeOK
  <2> QED BY <1>2, <2>1
<1>4. ASSUME NEW f \in Frames, WriteFrame(f) PROVE TypeOK'
  <2>1. f \in Entry /\ PushDepth(f) /\ framesPushed' \in Nat
    BY <1>4 DEF WriteFrame, Entry, TypeOK
  <2> QED BY <1>2, <2>1
<1>5. ASSUME NEW f \in Faces, WriteFaceFrame(f) PROVE TypeOK'
  <2>1. faceQueue' \in Seq(Faces) /\ facesPushed' \in Seq(Faces)
    BY <1>5, AppendProperties DEF TypeOK, WriteFaceFrame
  <2>2. bg' \in BgStates
    BY <1>5 DEF TypeOK, WriteFaceFrame, Notify, BgStates
  <2> QED BY <1>5, <2>1, <2>2 DEF TypeOK, WriteFaceFrame
<1>6. CASE Destroy
  BY <1>6 DEF TypeOK, Destroy
<1>7. CASE Join
  BY <1>7 DEF TypeOK, Join
<1> QED BY <1>1, <1>3, <1>4, <1>5, <1>6, <1>7 DEF Calls

(* Then the steps of the background thread. *)
LEMMA ThreadType == TypeOK /\ (BackgroundThread \/ SpuriousWakeup) => TypeOK'
<1> SUFFICES ASSUME TypeOK, BackgroundThread \/ SpuriousWakeup PROVE TypeOK'
  OBVIOUS
<1> USE DEF queueVars, batchVars, outputVars, fileVars, controlVars
<1>1. CASE TestTerminate
  BY <1>1 DEF TypeOK, TestTerminate, BgStates
<1>2. CASE Sleep
  BY <1>2 DEF TypeOK, Sleep, BgStates
<1>3. CASE SpuriousWakeup
  BY <1>3 DEF TypeOK, SpuriousWakeup, BgStates
<1>4. CASE SwapQueues
  <2>1. depthQueue' \in Seq(Entry) /\ faceQueue' \in Seq(Faces)
    BY <1>4, EmptySeq DEF SwapQueues
  <2>2. facesSwapped' \in Nat
    BY <1>4, LenProperties DEF SwapQueues, TypeOK
  <2> QED BY <1>4, <2>1, <2>2 DEF TypeOK, SwapQueues, BgStates
<1>5. CASE NullHeaderRead
  BY <1>5 DEF TypeOK, NullHeaderRead, BgStates
<1>6. ASSUME Handle, AtEntry, depthVals' \in Frames \cup {None}, framesWritten' \in Nat
      PROVE  TypeOK'
  <2>1. Head(depthFrames) \in Entry /\ Tail(depthFrames) \in Seq(Entry)
    BY <1>6, HeadTailProperties DEF AtEntry, TypeOK
  <2>2. handled' \in Seq(Entry) /\ depthFrames' \in Seq(Entry)
    BY <1>6, <2>1, AppendProperties DEF Handle, TypeOK
  <2> QED BY <1>6, <2>2 DEF Handle, TypeOK
<1>7. CASE StreamFrame
  <2>1. Head(depthFrames) \in Frames
    BY <1>7, HeadTailProperties DEF StreamFrame, AtEntry, TypeOK, Entry
  <2>2. depthVals' \in Frames \cup {None} /\ framesWritten' \in Nat
    BY <1>7, <2>1 DEF StreamFrame, TypeOK
  <2> QED BY <1>6, <1>7, <2>2 DEF StreamFrame
<1>8. CASE FinishFFmpeg
  BY <1>6, <1>8 DEF FinishFFmpeg, TypeOK
<1>9. CASE DropFaces
  BY <1>9, EmptySeq DEF TypeOK, DropFaces, BgStates
<1>10. CASE WriteFaces
  <2> DEFINE header == depthVals # None /\ ~faceHeader /\ faceFrames # << >>
             blocks == (IF header THEN <<HeaderBlock(faceFrames[1])>> ELSE << >>)
                       \o IF header \/ faceHeader
                          THEN [i \in DOMAIN faceFrames |-> FaceBlock(faceFrames[i])]
                          ELSE << >>
  <2>1. blocks \in Seq(Block)
    BY NewBlocks DEF TypeOK
  <2> HIDE DEF blocks
  <2>2. /\ faceHeader' = (faceHeader \/ header)
        /\ faceFile' = faceFile \o blocks
        /\ openedAt' = IF openedAt = None /\ blocks # << >> THEN outputPath ELSE openedAt
    BY <1>10 DEF WriteFaces, blocks
  <2>3. faceFile' \in Seq(Block)
    BY <2>1, <2>2, ConcatProperties DEF TypeOK
  <2>4. openedAt' \in Paths \cup {EmptyPath, None} /\ faceHeader' \in BOOLEAN
    BY <2>2 DEF TypeOK
  <2>5. /\ bg' \in BgStates /\ faceFrames' \in Seq(Faces)
        /\ UNCHANGED <<queueVars, depthFrames, facesSwapped, outputVars, controlVars>>
    BY <1>10, EmptySeq DEF WriteFaces, BgStates
  <2> QED BY <2>3, <2>4, <2>5 DEF TypeOK
<1> QED BY <1>1, <1>2, <1>3, <1>4, <1>5, <1>7, <1>8, <1>9, <1>10 DEF BackgroundThread

LEMMA InitType == RecInit => TypeOK
<1> SUFFICES ASSUME RecInit PROVE TypeOK
  OBVIOUS
<1>1. /\ depthQueue \in Seq(Entry) /\ depthFrames \in Seq(Entry)
      /\ pushed \in Seq(Entry) /\ handled \in Seq(Entry)
  BY EmptySeq DEF RecInit
<1>2. /\ faceQueue \in Seq(Faces) /\ faceFrames \in Seq(Faces) /\ facesPushed \in Seq(Faces)
      /\ faceFile \in Seq(Block)
  BY EmptySeq DEF RecInit
<1>3. /\ hasFrames \in BOOLEAN /\ terminate \in BOOLEAN /\ faceHeader \in BOOLEAN
      /\ owner \in {"using", "joining", "joined"} /\ bg \in BgStates
  BY DEF RecInit, BgStates
<1>4. /\ depthVals \in Frames \cup {None} /\ outputPath \in Paths \cup {EmptyPath}
      /\ openedAt \in Paths \cup {EmptyPath, None}
      /\ framesPushed \in Nat /\ framesWritten \in Nat /\ facesSwapped \in Nat
  BY DEF RecInit
<1> QED BY <1>1, <1>2, <1>3, <1>4 DEF TypeOK

(* Every variable of the Recorder keeps its type, whatever the callers and *)
(* BackgroundThread do: in particular m_depthVals only ever comes from a   *)
(* frame with depth data, and face.bin only ever gets well-formed blocks.  *)
THEOREM TypeCorrect == RecSpec => []TypeOK
<1>2. TypeOK /\ [RecNext]_recVars => TypeOK'
  <2>1. TypeOK /\ UNCHANGED recVars => TypeOK'
    BY DEF TypeOK, recVars, queueVars, batchVars, outputVars, fileVars, controlVars
  <2> QED BY <2>1, CallsType, ThreadType DEF RecNext
<1> QED BY InitType, <1>2, PTL DEF RecSpec
-----------------------------------------------------------------------------
(* Between two batches the thread's local depthFrames is empty. *)
BatchEmpty == bg \notin {"batch", "fault"} => depthFrames = << >>

(* BatchEmpty is what makes NothingLost inductive: without it the swap     *)
(* could overwrite frames of the batch before.                             *)
StreamInv == TypeOK /\ BatchEmpty /\ NothingLost

LEMMA StreamInvInit == RecInit => StreamInv
<1>1. RecInit => BatchEmpty /\ NothingLost
  <2>1. << >> \in Seq(Entry)
    BY EmptySeq
  <2> QED BY <2>1, ConcatEmptySeq DEF RecInit, BatchEmpty, NothingLost
<1> QED BY InitType, <1>1 DEF StreamInv

LEMMA StreamInvStep == StreamInv /\ [RecNext]_recVars => StreamInv'
<1> SUFFICES ASSUME StreamInv, [RecNext]_recVars PROVE BatchEmpty' /\ NothingLost'
  BY CallsType, ThreadType DEF StreamInv, RecNext, TypeOK,
     recVars, queueVars, batchVars, outputVars, fileVars, controlVars
<1> USE DEF StreamInv
<1>1. /\ handled \in Seq(Entry) /\ depthFrames \in Seq(Entry) /\ depthQueue \in Seq(Entry)
      /\ handled \o depthFrames \in Seq(Entry)
  BY ConcatProperties DEF TypeOK
<1>2. ASSUME UNCHANGED <<depthQueue, pushed, handled, depthFrames>>,
             bg' = bg \/ bg' = "fault" \/ depthFrames = << >>
      PROVE  BatchEmpty' /\ NothingLost'
  BY <1>2 DEF BatchEmpty, NothingLost
<1>3. CASE UNCHANGED recVars
  BY <1>2, <1>3 DEF recVars, queueVars, batchVars, outputVars, fileVars, controlVars
<1>4. ASSUME NEW e \in Entry, PushDepth(e) PROVE BatchEmpty' /\ NothingLost'
  <2>1. pushed' = Append(pushed, e) /\ depthQueue' = Append(depthQueue, e)
        /\ handled' = handled /\ depthFrames' = depthFrames
    BY <1>4 DEF PushDepth, batchVars, outputVars
  <2>2. depthFrames = << >>
    BY <1>4 DEF PushDepth, MutexFree, BatchEmpty
  <2>3. pushed' = pushed \o <<e>> /\ depthQueue' = depthQueue \o <<e>> /\ <<e>> \in Seq(Entry)
    BY <2>1, AppendIsConcat DEF TypeOK
  <2>4. pushed' = (handled \o depthFrames) \o (depthQueue \o <<e>>)
    BY <1>1, <2>3, ConcatAssociative DEF NothingLost
  <2> QED BY <2>1, <2>2, <2>3, <2>4 DEF BatchEmpty, NothingLost
<1>5. ASSUME Calls PROVE BatchEmpty' /\ NothingLost'
  <2>1. CASE StopRecording
    BY <1>4, <2>1 DEF StopRecording, Entry
  <2>2. CASE \E f \in Frames : WriteFrame(f)
    BY <1>4, <2>2 DEF WriteFrame, Entry
  <2>3. CASE \E p \in Paths \cup {EmptyPath} : StartRecording(p)
    BY <1>2, <2>3 DEF StartRecording, queueVars, batchVars, outputVars
  <2>4. CASE \E f \in Faces : WriteFaceFrame(f)
    BY <1>2, <2>4 DEF WriteFaceFrame, Notify, MutexFree, BatchEmpty, batchVars, outputVars
  <2>5. CASE Destroy \/ Join
    BY <1>2, <2>5 DEF Destroy, Join, queueVars, batchVars, outputVars
  <2> QED BY <1>5, <2>1, <2>2, <2>3, <2>4, <2>5 DEF Calls
<1>6. CASE TestTerminate \/ Sleep \/ SpuriousWakeup \/ NullHeaderRead
  BY <1>2, <1>6 DEF TestTerminate, Sleep, SpuriousWakeup, NullHeaderRead, AtEntry, BatchEmpty,
     queueVars, batchVars, outputVars
<1>7. CASE SwapQueues
  <2>1. /\ depthFrames = << >> /\ bg' = "batch"
        /\ depthFrames' = depthQueue /\ depthQueue' = << >>
        /\ handled' = handled /\ pushed' = pushed
    BY <1>7 DEF SwapQueues, BatchEmpty, outputVars
  <2>2. pushed = handled \o depthQueue /\ (handled \o depthQueue) \o << >> = handled \o depthQueue
    BY <1>1, <2>1, ConcatEmptySeq, ConcatProperties DEF NothingLost
  <2> QED BY <2>1, <2>2 DEF BatchEmpty, NothingLost
<1>8. CASE StreamFrame \/ FinishFFmpeg
  <2>1. Handle /\ bg = "batch" /\ depthFrames # << >>
    BY <1>8 DEF StreamFrame, FinishFFmpeg, AtEntry
  <2>2. handled' \o depthFrames' = handled \o depthFrames
    BY <1>1, <2>1, MoveHead DEF Handle
  <2>3. bg' = "batch" /\ pushed' = pushed /\ depthQueue' = depthQueue
    BY <2>1 DEF Handle, queueVars
  <2> QED BY <2>2, <2>3 DEF BatchEmpty, NothingLost
<1>9. CASE DropFaces \/ WriteFaces
  BY <1>2, <1>9 DEF DropFaces, WriteFaces, queueVars, outputVars
<1> QED BY <1>3, <1>5, <1>6, <1>7, <1>8, <1>9 DEF RecNext, BackgroundThread

(* No entry pushed by WriteFrame or StopRecording is lost, duplicated or   *)
(* overtaken on its way through the swap and the background thread's loop. *)
THEOREM NothingIsLost == RecSpec => []NothingLost
<1>1. StreamInv => NothingLost
  BY DEF StreamInv
<1> QED BY <1>1, StreamInvInit, StreamInvStep, PTL DEF RecSpec
-----------------------------------------------------------------------------
(* The entry the loop is at is the oldest one pushed and not handled yet. *)
LEMMA OldestFirst ==
  ASSUME TypeOK, NothingLost, depthFrames # << >>
  PROVE  /\ Len(handled) \in Nat /\ Len(handled) < Len(pushed)
         /\ Head(depthFrames) = pushed[Len(handled) + 1]
<1>1. /\ Len(handled) \in Nat /\ Len(depthFrames) \in Nat /\ Len(depthQueue) \in Nat
      /\ Len(depthFrames) # 0 /\ Head(depthFrames) = depthFrames[1]
  BY EmptySeq, LenProperties DEF TypeOK
<1>2. /\ handled \o depthFrames \in Seq(Entry)
      /\ Len(handled \o depthFrames) = Len(handled) + Len(depthFrames)
      /\ \A i \in 1 .. Len(handled) + Len(depthFrames) :
           (handled \o depthFrames)[i]
             = IF i <= Len(handled) THEN handled[i] ELSE depthFrames[i - Len(handled)]
  BY ConcatProperties DEF TypeOK
<1>3. /\ Len(pushed) = Len(handled \o depthFrames) + Len(depthQueue)
      /\ \A i \in 1 .. Len(handled \o depthFrames) + Len(depthQueue) :
           i <= Len(handled \o depthFrames) => pushed[i] = (handled \o depthFrames)[i]
  BY <1>2, ConcatProperties DEF TypeOK, NothingLost
<1> DEFINE n == Len(handled) + 1
<1>4. /\ n \in 1 .. Len(handled \o depthFrames) + Len(depthQueue)
      /\ n <= Len(handled \o depthFrames) /\ ~(n <= Len(handled)) /\ n - Len(handled) = 1
  BY <1>1, <1>2
<1> QED BY <1>1, <1>2, <1>3, <1>4

(* Every push of a caller is an Accept of FrameStream, every frame streamed *)
(* or stop marker dealt with a Deliver, every other step a stutter.         *)
LEMMA StepRefines == StreamInv /\ [RecNext]_recVars => [FS!Next]_FS!vars
<1> SUFFICES ASSUME StreamInv, [RecNext]_recVars PROVE [FS!Next]_FS!vars
  OBVIOUS
<1>1. ASSUME UNCHANGED <<pushed, handled>> PROVE [FS!Next]_FS!vars
  BY <1>1 DEF FS!vars
<1>2. ASSUME NEW e \in Entry, PushDepth(e) PROVE [FS!Next]_FS!vars
  BY <1>2 DEF PushDepth, outputVars, FS!Next, FS!Accept
<1>3. CASE UNCHANGED recVars
  BY <1>1, <1>3 DEF recVars, queueVars, outputVars
<1>4. CASE Calls
  <2>1. CASE StopRecording
    BY <1>2, <2>1 DEF StopRecording, Entry
  <2>2. CASE \E f \in Frames : WriteFrame(f)
    BY <1>2, <2>2 DEF WriteFrame, Entry
  <2>3. CASE (\E p \in Paths \cup {EmptyPath} : StartRecording(p)) \/ (\E f \in Faces : WriteFaceFrame(f))
              \/ Destroy \/ Join
    BY <1>1, <2>3 DEF StartRecording, WriteFaceFrame, Destroy, Join, queueVars, outputVars
  <2> QED BY <1>4, <2>1, <2>2, <2>3 DEF Calls
<1>5. CASE StreamFrame \/ FinishFFmpeg
  <2>1. Handle /\ depthFrames # << >>
    BY <1>5 DEF StreamFrame, FinishFFmpeg, AtEntry
  <2>2. /\ Len(handled) < Len(pushed) /\ Head(depthFrames) = pushed[Len(handled) + 1]
    BY <2>1, OldestFirst DEF StreamInv
  <2> QED BY <2>1, <2>2 DEF Handle, queueVars, FS!Next, FS!Deliver
<1>6. CASE TestTerminate \/ Sleep \/ SpuriousWakeup \/ SwapQueues \/ NullHeaderRead
           \/ DropFaces \/ WriteFaces
  BY <1>1, <1>6 DEF TestTerminate, Sleep, SpuriousWakeup, SwapQueues, NullHeaderRead,
     DropFaces, WriteFaces, queueVars, outputVars
<1> QED BY <1>3, <1>4, <1>5, <1>6 DEF RecNext, BackgroundThread

(* The two queues, the flag, the swap and the loop of BackgroundThread     *)
(* implement the FIFO that FrameStream promises.                           *)
THEOREM RecorderImplementsFrameStream == RecSpec => ImplementsFrameStream
<1>1. RecInit => FS!Init
  BY DEF RecInit, FS!Init
<1> QED BY <1>1, StreamInvInit, StreamInvStep, StepRefines, PTL
        DEF RecSpec, ImplementsFrameStream, FS!Spec
-----------------------------------------------------------------------------
(* WriteFrame, WriteFaceFrame, StopRecording and the waiting thread: the   *)
(* thread never sleeps on a queue with something in it.  The formula is    *)
(* inductive by itself: only a push puts something in a queue, and it sets *)
(* m_hasFrames, which nothing resets, and wakes the thread.                *)
THEOREM NoWakeupIsLost == RecSpec => []NoLostWakeup
<1>1. RecInit => NoLostWakeup
  BY DEF RecInit, NoLostWakeup
<1>2. NoLostWakeup /\ [RecNext]_recVars => NoLostWakeup'
  <2> SUFFICES ASSUME NoLostWakeup, [RecNext]_recVars PROVE NoLostWakeup'
    OBVIOUS
  <2>1. CASE UNCHANGED recVars
    BY <2>1 DEF NoLostWakeup, recVars, queueVars
  <2>2. ASSUME NEW e \in Entry, PushDepth(e) PROVE NoLostWakeup'
    BY <2>2 DEF PushDepth, Notify, NoLostWakeup
  <2>3. CASE StopRecording \/ \E f \in Frames : WriteFrame(f)
    BY <2>2, <2>3 DEF StopRecording, WriteFrame, Entry
  <2>4. CASE \E f \in Faces : WriteFaceFrame(f)
    BY <2>4 DEF WriteFaceFrame, Notify, NoLostWakeup
  <2>5. CASE (\E p \in Paths \cup {EmptyPath} : StartRecording(p)) \/ Destroy \/ Join
    BY <2>5 DEF StartRecording, Destroy, Join, queueVars, NoLostWakeup
  <2>6. CASE TestTerminate \/ Sleep \/ SpuriousWakeup
    BY <2>6 DEF TestTerminate, Sleep, SpuriousWakeup, queueVars, NoLostWakeup
  <2>7. CASE SwapQueues
    BY <2>7 DEF SwapQueues, NoLostWakeup
  <2>8. CASE NullHeaderRead \/ DropFaces \/ WriteFaces
    BY <2>8 DEF NullHeaderRead, DropFaces, WriteFaces, queueVars, NoLostWakeup
  <2>9. CASE StreamFrame \/ FinishFFmpeg
    BY <2>9 DEF StreamFrame, FinishFFmpeg, Handle, queueVars, NoLostWakeup
  <2> QED BY <2>1, <2>3, <2>4, <2>5, <2>6, <2>7, <2>8, <2>9 DEF RecNext, Calls, BackgroundThread
<1> QED BY <1>1, <1>2, PTL DEF RecSpec
-----------------------------------------------------------------------------
(* What ties m_depthVals to the entries handled: it is set with the first  *)
(* of them, which is therefore a frame, and a fault comes before any.      *)
HeaderInv ==
  /\ depthVals = None => handled = << >>
  /\ depthVals # None => handled # << >> /\ handled[1] = depthVals
  /\ bg = "fault" => handled = << >> /\ depthFrames # << >> /\ Head(depthFrames) = Stop

LEMMA HeaderInvStep ==
  TypeOK /\ HeaderInv /\ [RecNext]_recVars => HeaderInv'
<1> SUFFICES ASSUME TypeOK, HeaderInv, [RecNext]_recVars PROVE HeaderInv'
  OBVIOUS
<1>1. ASSUME UNCHANGED <<depthVals, handled, depthFrames>>, bg' = "fault" => bg = "fault"
      PROVE  HeaderInv'
  BY <1>1 DEF HeaderInv
<1>2. CASE UNCHANGED recVars
  BY <1>1, <1>2 DEF recVars, outputVars, batchVars
<1>3. CASE Calls
  <2>1. ASSUME NEW e \in Entry, PushDepth(e) PROVE HeaderInv'
    BY <1>1, <2>1 DEF PushDepth, Notify, batchVars, outputVars
  <2>2. CASE StopRecording \/ \E f \in Frames : WriteFrame(f)
    BY <2>1, <2>2 DEF StopRecording, WriteFrame, Entry
  <2>3. CASE (\E p \in Paths \cup {EmptyPath} : StartRecording(p)) \/ (\E f \in Faces : WriteFaceFrame(f))
              \/ Destroy \/ Join
    BY <1>1, <2>3 DEF StartRecording, WriteFaceFrame, Destroy, Join, Notify, batchVars, outputVars
  <2> QED BY <1>3, <2>2, <2>3 DEF Calls
<1>4. CASE TestTerminate \/ Sleep \/ SpuriousWakeup \/ DropFaces \/ WriteFaces
  BY <1>1, <1>4 DEF TestTerminate, Sleep, SpuriousWakeup, DropFaces, WriteFaces,
     batchVars, outputVars
<1>5. CASE SwapQueues
  BY <1>5 DEF SwapQueues, outputVars, HeaderInv
<1>6. CASE NullHeaderRead
  BY <1>6 DEF NullHeaderRead, AtEntry, outputVars, batchVars, HeaderInv
<1>7. CASE StreamFrame \/ FinishFFmpeg
  <2>1. /\ Handle /\ bg = "batch" /\ bg' = "batch" /\ depthFrames # << >>
        /\ Head(depthFrames) \in Entry
        /\ handled' = Append(handled, Head(depthFrames))
    BY <1>7, HeadTailProperties DEF StreamFrame, FinishFFmpeg, AtEntry, Handle, TypeOK
  <2>2. depthVals' # None
    BY <1>7, <2>1, RecorderAssumption DEF StreamFrame, FinishFFmpeg, Entry
  <2>3. handled' # << >> /\ handled'[1] = depthVals'
    <3>1. CASE depthVals = None
      <4>1. handled = << >> /\ depthVals' = Head(depthFrames)
        BY <1>7, <3>1 DEF StreamFrame, FinishFFmpeg, HeaderInv
      <4>2. handled' = <<Head(depthFrames)>>
        BY <2>1, <4>1
      <4> QED BY <4>1, <4>2
    <3>2. CASE depthVals # None
      <4>1. depthVals' = depthVals /\ handled # << >> /\ handled[1] = depthVals
        BY <1>7, <3>2 DEF StreamFrame, FinishFFmpeg, HeaderInv
      <4>2. 1 \in 1 .. Len(handled)
        BY <4>1, EmptySeq DEF TypeOK
      <4> QED BY <2>1, <4>1, <4>2, AppendProperties DEF TypeOK
    <3> QED BY <3>1, <3>2
  <2> QED BY <2>1, <2>2, <2>3 DEF HeaderInv
<1> QED BY <1>2, <1>3, <1>4, <1>5, <1>6, <1>7 DEF RecNext, BackgroundThread

(* The header m_depthVals, and the null read of Record.cpp's memcpy, are   *)
(* decided by the first entry the callers ever push: a recorder whose      *)
(* first entry is a frame never faults, one that starts with a stop marker *)
(* never gets a header.                                                    *)
THEOREM HeaderIsOfFirstFrame == RecSpec => []HeaderOfFirstFrame
<1>1. RecInit => HeaderInv
  BY DEF RecInit, HeaderInv
<1>2. StreamInv /\ HeaderInv => HeaderOfFirstFrame
  <2> SUFFICES ASSUME StreamInv, HeaderInv PROVE HeaderOfFirstFrame
    OBVIOUS
  <2>1. ASSUME handled # << >> PROVE pushed # << >> /\ pushed[1] = handled[1]
    <3>1. /\ handled \o depthFrames \in Seq(Entry) /\ depthQueue \in Seq(Entry)
          /\ Len(handled) \in Nat \ {0} /\ Len(depthFrames) \in Nat /\ Len(depthQueue) \in Nat
      BY <2>1, EmptySeq, LenProperties, ConcatProperties DEF StreamInv, TypeOK
    <3>2. /\ Len(handled \o depthFrames) = Len(handled) + Len(depthFrames)
          /\ (handled \o depthFrames)[1] = handled[1]
      BY <3>1, ConcatProperties DEF StreamInv, TypeOK
    <3>3. /\ Len(pushed) = Len(handled) + Len(depthFrames) + Len(depthQueue)
          /\ pushed[1] = (handled \o depthFrames)[1]
      BY <3>1, <3>2, ConcatProperties DEF StreamInv, NothingLost
    <3>4. Len(pushed) # 0
      BY <3>1, <3>3
    <3> QED BY <3>2, <3>3, <3>4, EmptySeq
  <2>2. ASSUME bg = "fault" PROVE pushed # << >> /\ pushed[1] = Stop
    <3>1. handled = << >> /\ depthFrames # << >> /\ Head(depthFrames) = Stop
      BY <2>2 DEF HeaderInv
    <3>2. Len(handled) = 0 /\ Len(handled) < Len(pushed) /\ Stop = pushed[Len(handled) + 1]
      BY <3>1, OldestFirst, EmptySeq DEF StreamInv
    <3> QED BY <3>2, EmptySeq
  <2> QED BY <2>1, <2>2 DEF HeaderInv, HeaderOfFirstFrame
<1>3. StreamInv => TypeOK
  BY DEF StreamInv
<1> QED BY <1>1, <1>2, <1>3, StreamInvInit, StreamInvStep, HeaderInvStep, PTL DEF RecSpec
-----------------------------------------------------------------------------
(* The frames pushed and not streamed yet, by their place in pushed. *)
Waiting == {i \in Len(handled) + 1 .. Len(pushed) : pushed[i] # Stop}

LEMMA WaitingFinite ==
  ASSUME TypeOK PROVE IsFiniteSet(Waiting) /\ Cardinality(Waiting) \in Nat
<1>1. Len(handled) + 1 \in Int /\ Len(pushed) \in Int
  BY LenProperties DEF TypeOK
<1>2. IsFiniteSet(Len(handled) + 1 .. Len(pushed))
  BY <1>1, FS_Interval
<1>3. Waiting \subseteq Len(handled) + 1 .. Len(pushed)
  BY DEF Waiting
<1> QED BY <1>2, <1>3, FS_Subset, FS_CardinalityType

(* A push makes one more frame wait, unless it is a stop marker. *)
LEMMA PushWaits ==
  ASSUME StreamInv, NEW e \in Entry, pushed' = Append(pushed, e), handled' = handled
  PROVE  Cardinality(Waiting') = Cardinality(Waiting) + (IF e = Stop THEN 0 ELSE 1)
<1> DEFINE n == Len(pushed) + 1
<1>1. /\ Len(handled) \in Nat /\ Len(pushed) \in Nat /\ Len(handled) <= Len(pushed)
  <2>1. /\ Len(handled) \in Nat /\ Len(depthFrames) \in Nat /\ Len(depthQueue) \in Nat
        /\ handled \o depthFrames \in Seq(Entry)
        /\ Len(handled \o depthFrames) = Len(handled) + Len(depthFrames)
    BY LenProperties, ConcatProperties DEF StreamInv, TypeOK
  <2>2. Len(pushed) = Len(handled \o depthFrames) + Len(depthQueue)
    BY <2>1, ConcatProperties DEF StreamInv, TypeOK, NothingLost
  <2> QED BY <2>1, <2>2
<1>2. /\ Len(pushed') = n /\ pushed'[n] = e
      /\ \A i \in 1 .. Len(pushed) : pushed'[i] = pushed[i]
  BY AppendProperties DEF StreamInv, TypeOK
<1>3. CASE e = Stop
  <2>1. Waiting' = Waiting
    BY <1>1, <1>2, <1>3 DEF Waiting
  <2> QED BY <1>3, <2>1, WaitingFinite DEF StreamInv
<1>4. CASE e # Stop
  <2>1. Waiting' = Waiting \cup {n} /\ n \notin Waiting
    BY <1>1, <1>2, <1>4 DEF Waiting
  <2> QED BY <1>4, <2>1, WaitingFinite, FS_AddElement DEF StreamInv
<1> QED BY <1>3, <1>4

(* Handling an entry takes it from those that wait, unless it is a marker. *)
LEMMA HandleUnwaits ==
  ASSUME StreamInv, depthFrames # << >>, pushed' = pushed, TypeOK',
         handled' = Append(handled, Head(depthFrames))
  PROVE  Cardinality(Waiting) = Cardinality(Waiting')
                                  + (IF Head(depthFrames) = Stop THEN 0 ELSE 1)
<1> DEFINE n == Len(handled) + 1
<1>1. /\ Len(handled) \in Nat /\ Len(pushed) \in Nat /\ Len(handled) < Len(pushed)
      /\ Head(depthFrames) = pushed[n] /\ Head(depthFrames) \in Entry
  BY OldestFirst, LenProperties, HeadTailProperties DEF StreamInv, TypeOK
<1>2. Len(handled') = n
  BY <1>1, AppendProperties DEF StreamInv, TypeOK
<1>3. IsFiniteSet(Waiting') /\ Cardinality(Waiting') \in Nat
  <2>1. Waiting' \subseteq Waiting
    BY <1>1, <1>2 DEF Waiting
  <2> QED BY <2>1, WaitingFinite, FS_Subset, FS_CardinalityType DEF StreamInv
<1>4. CASE Head(depthFrames) = Stop
  <2>1. Waiting' = Waiting
    BY <1>1, <1>2, <1>4 DEF Waiting
  <2> QED BY <1>3, <1>4, <2>1
<1>5. CASE Head(depthFrames) # Stop
  <2>1. Waiting = Waiting' \cup {n} /\ n \notin Waiting'
    BY <1>1, <1>2, <1>5 DEF Waiting
  <2> QED BY <1>3, <1>5, <2>1, FS_AddElement
<1> QED BY <1>4, <1>5

LEMMA CountersStep == StreamInv /\ CountersAgree /\ [RecNext]_recVars => CountersAgree'
<1> SUFFICES ASSUME StreamInv, CountersAgree, [RecNext]_recVars PROVE CountersAgree'
  OBVIOUS
<1>1. /\ framesPushed = framesWritten + Cardinality(Waiting) + Len(facesPushed)
      /\ framesPushed \in Nat /\ framesWritten \in Nat /\ Cardinality(Waiting) \in Nat
      /\ Len(facesPushed) \in Nat /\ TypeOK
  BY WaitingFinite, LenProperties DEF CountersAgree, Waiting, StreamInv, TypeOK
<1>2. TypeOK'
  BY StreamInvStep DEF StreamInv
<1>3. SUFFICES framesPushed' = framesWritten' + Cardinality(Waiting') + Len(facesPushed')
  BY DEF CountersAgree, Waiting
<1>4. ASSUME UNCHANGED <<framesPushed, framesWritten, pushed, handled, facesPushed>>
      PROVE  framesPushed' = framesWritten' + Cardinality(Waiting') + Len(facesPushed')
  <2>1. Waiting' = Waiting
    BY <1>4 DEF Waiting
  <2> QED BY <1>1, <1>4, <2>1
<1>5. ASSUME NEW e \in Entry, PushDepth(e),
             framesPushed' = framesPushed + (IF e = Stop THEN 0 ELSE 1)
      PROVE  framesPushed' = framesWritten' + Cardinality(Waiting') + Len(facesPushed')
  <2>1. /\ pushed' = Append(pushed, e) /\ handled' = handled
        /\ framesWritten' = framesWritten /\ facesPushed' = facesPushed
    BY <1>5 DEF PushDepth, outputVars
  <2>2. Cardinality(Waiting') = Cardinality(Waiting) + (IF e = Stop THEN 0 ELSE 1)
    BY <2>1, PushWaits
  <2> QED BY <1>1, <1>5, <2>1, <2>2
<1>6. CASE Calls
  <2>1. CASE StopRecording
    <3>1. Stop \in Entry /\ framesPushed' = framesPushed + 0
      BY <1>1, <2>1 DEF StopRecording, Entry
    <3> QED BY <1>5, <2>1, <3>1 DEF StopRecording
  <2>2. ASSUME NEW f \in Frames, WriteFrame(f)
        PROVE framesPushed' = framesWritten' + Cardinality(Waiting') + Len(facesPushed')
    <3>1. f \in Entry /\ f # Stop
      BY RecorderAssumption DEF Entry
    <3> QED BY <1>5, <2>2, <3>1 DEF WriteFrame
  <2>3. ASSUME NEW f \in Faces, WriteFaceFrame(f)
        PROVE framesPushed' = framesWritten' + Cardinality(Waiting') + Len(facesPushed')
    <3>1. /\ framesPushed' = framesPushed + 1 /\ framesWritten' = framesWritten
          /\ Waiting' = Waiting
      BY <2>3 DEF WriteFaceFrame, outputVars, Waiting
    <3>2. Len(facesPushed') = Len(facesPushed) + 1
      BY <1>1, <2>3, AppendProperties DEF WriteFaceFrame, TypeOK
    <3> QED BY <1>1, <3>1, <3>2
  <2>4. CASE (\E p \in Paths \cup {EmptyPath} : StartRecording(p)) \/ Destroy \/ Join
    BY <1>4, <2>4 DEF StartRecording, Destroy, Join, queueVars, outputVars
  <2> QED BY <1>6, <2>1, <2>2, <2>3, <2>4 DEF Calls
<1>7. ASSUME Handle, AtEntry,
             framesWritten' = framesWritten + (IF Head(depthFrames) = Stop THEN 0 ELSE 1)
      PROVE  framesPushed' = framesWritten' + Cardinality(Waiting') + Len(facesPushed')
  <2>1. /\ depthFrames # << >> /\ handled' = Append(handled, Head(depthFrames))
        /\ UNCHANGED <<pushed, framesPushed, facesPushed>>
    BY <1>7 DEF Handle, AtEntry, queueVars
  <2>2. Cardinality(Waiting) = Cardinality(Waiting') + (IF Head(depthFrames) = Stop THEN 0 ELSE 1)
    BY <1>2, <2>1, HandleUnwaits
  <2>3. Cardinality(Waiting') \in Nat
    <3>1. /\ handled' \in Seq(Entry) /\ pushed' \in Seq(Entry)
      BY <1>2 DEF TypeOK
    <3>2. IsFiniteSet(Len(handled') + 1 .. Len(pushed'))
      BY <3>1, LenProperties, FS_Interval
    <3>3. Waiting' \subseteq Len(handled') + 1 .. Len(pushed')
      BY DEF Waiting
    <3> QED BY <3>2, <3>3, FS_Subset, FS_CardinalityType
  <2> QED BY <1>1, <1>7, <2>1, <2>2, <2>3
<1>8. CASE StreamFrame
  BY <1>7, <1>8 DEF StreamFrame
<1>9. CASE FinishFFmpeg
  BY <1>1, <1>7, <1>9 DEF FinishFFmpeg
<1>10. CASE TestTerminate \/ Sleep \/ SpuriousWakeup \/ SwapQueues \/ NullHeaderRead
            \/ DropFaces \/ WriteFaces \/ UNCHANGED recVars
  BY <1>4, <1>10 DEF TestTerminate, Sleep, SpuriousWakeup, SwapQueues, NullHeaderRead,
     DropFaces, WriteFaces, recVars, queueVars, outputVars
<1> QED BY <1>6, <1>8, <1>9, <1>10 DEF RecNext, BackgroundThread

(* The two numbers the Hud prints, g_framesPushed and g_framesWritten,     *)
(* drift apart by one with every face frame and by nothing else that stays.*)
THEOREM CountersAlwaysAgree == RecSpec => []CountersAgree
<1>1. RecInit => CountersAgree
  <2> SUFFICES ASSUME RecInit PROVE CountersAgree
    OBVIOUS
  <2>1. Len(handled) = 0 /\ Len(pushed) = 0 /\ Len(facesPushed) = 0
    BY EmptySeq DEF RecInit
  <2>2. {i \in Len(handled) + 1 .. Len(pushed) : pushed[i] # Stop} = {}
    BY <2>1
  <2> QED BY <2>1, <2>2, FS_EmptySet DEF RecInit, CountersAgree
<1> QED BY <1>1, StreamInvInit, StreamInvStep, CountersStep, PTL DEF RecSpec
-----------------------------------------------------------------------------
(* Where the face frames are: those the thread has taken and those that    *)
(* wait are all that were pushed, in order.                                *)
FacesTaken ==
  /\ Len(faceFrames) <= facesSwapped
  /\ \A i \in 1 .. Len(faceFrames) :
       faceFrames[i] = facesPushed[(facesSwapped - Len(faceFrames)) + i]
  /\ bg \notin {"batch", "fault"} => faceFrames = << >>

FacesWaiting ==
  /\ Len(facesPushed) = facesSwapped + Len(faceQueue)
  /\ \A i \in 1 .. Len(faceQueue) : faceQueue[i] = facesPushed[facesSwapped + i]

(* The file is begun with the header block and never in streammode. *)
FileBegun ==
  /\ faceHeader <=> faceFile # << >>
  /\ faceHeader => depthVals # None /\ openedAt # None
  /\ StreamMode => ~faceHeader

FaceInv == FacesTaken /\ FacesWaiting /\ FileBegun /\ FaceFileComplete

(* The numbers of face frames. *)
LEMMA FaceCounts ==
  ASSUME TypeOK
  PROVE  /\ Len(faceFrames) \in Nat /\ Len(faceQueue) \in Nat /\ Len(facesPushed) \in Nat
         /\ facesSwapped \in Nat /\ Len(faceFile) \in Nat
         /\ faceFile # << >> => Len(faceFile) > 0
         /\ faceFrames # << >> => Len(faceFrames) > 0
BY LenProperties, EmptySeq DEF TypeOK

(* A face frame pushed is the last that waits. *)
LEMMA FacePushed ==
  ASSUME TypeOK, FaceInv, NEW f \in Faces, WriteFaceFrame(f)
  PROVE  FaceInv'
<1>1. /\ faceQueue' = Append(faceQueue, f) /\ facesPushed' = Append(facesPushed, f)
      /\ bg \notin {"batch", "fault"} /\ bg' \notin {"batch", "fault"}
      /\ UNCHANGED <<faceFrames, facesSwapped, depthVals, faceHeader, faceFile, openedAt, pushed>>
  BY DEF WriteFaceFrame, MutexFree, Notify, batchVars, outputVars, fileVars
<1>2. /\ Len(facesPushed') = Len(facesPushed) + 1 /\ Len(faceQueue') = Len(faceQueue) + 1
      /\ \A i \in 1 .. Len(facesPushed) : facesPushed'[i] = facesPushed[i]
      /\ \A i \in 1 .. Len(faceQueue) : faceQueue'[i] = faceQueue[i]
      /\ facesPushed'[Len(facesPushed) + 1] = f /\ faceQueue'[Len(faceQueue) + 1] = f
  BY <1>1, AppendProperties DEF TypeOK
<1>3. faceFrames = << >> /\ Len(faceFrames) = 0
  BY <1>1, EmptySeq DEF FaceInv, FacesTaken
<1>4. FacesTaken'
  BY <1>1, <1>3, FaceCounts DEF FacesTaken
<1>5. FacesWaiting'
  <2>1. Len(facesPushed) = facesSwapped + Len(faceQueue)
    BY DEF FaceInv, FacesWaiting
  <2>2. ASSUME NEW i \in 1 .. Len(faceQueue')
        PROVE  faceQueue'[i] = facesPushed'[facesSwapped + i]
    <3>1. CASE i = Len(faceQueue) + 1
      <4>1. facesSwapped + i = Len(facesPushed) + 1
        BY <2>1, <3>1, FaceCounts
      <4>2. QED
        BY <1>2, <3>1, <4>1
    <3>2. CASE i # Len(faceQueue) + 1
      <4>1. i \in 1 .. Len(faceQueue) /\ facesSwapped + i \in 1 .. Len(facesPushed)
        BY <1>2, <2>1, <2>2, <3>2, FaceCounts
      <4>2. faceQueue[i] = facesPushed[facesSwapped + i]
        BY <4>1 DEF FaceInv, FacesWaiting
      <4>3. QED
        BY <1>2, <4>1, <4>2
    <3>3. QED
      BY <3>1, <3>2
  <2>3. Len(facesPushed') = facesSwapped' + Len(faceQueue')
    BY <1>1, <1>2, <2>1, FaceCounts
  <2>4. \A i \in 1 .. Len(faceQueue') : faceQueue'[i] = facesPushed'[facesSwapped' + i]
    BY <1>1, <2>2
  <2>5. QED
    BY <2>3, <2>4 DEF FacesWaiting
<1>6. FileBegun'
  BY <1>1 DEF FaceInv, FileBegun
<1>7. FaceFileComplete'
  <2> DEFINE n == Len(faceFile)
  <2>1. SUFFICES ASSUME faceFile # << >>
                 PROVE  /\ n >= 2 /\ n - 1 <= facesSwapped
                        /\ faceFile[1] = [kind |-> "header", vals |-> pushed[1],
                                          face |-> faceFile[2].face]
                        /\ \A i \in 2 .. n :
                             faceFile[i] = FaceBlock(facesPushed'[(facesSwapped - n) + i])
    <3>1. facesSwapped - Len(faceFrames) = facesSwapped
      BY <1>3, FaceCounts
    <3>2. QED
      BY <1>1, <3>1 DEF FaceFileComplete
  <2>2. /\ n >= 2 /\ n - 1 <= facesSwapped
        /\ faceFile[1] = [kind |-> "header", vals |-> pushed[1], face |-> faceFile[2].face]
        /\ \A i \in 2 .. n : faceFile[i] = FaceBlock(facesPushed[(facesSwapped - n) + i])
    <3>1. facesSwapped - Len(faceFrames) = facesSwapped
      BY <1>3, FaceCounts
    <3>2. QED
      BY <2>1, <3>1 DEF FaceInv, FaceFileComplete
  <2>3. ASSUME NEW i \in 2 .. n PROVE (facesSwapped - n) + i \in 1 .. Len(facesPushed)
    <3>1. facesSwapped <= Len(facesPushed)
      BY FaceCounts DEF FaceInv, FacesWaiting
    <3>2. QED
      BY <2>2, <2>3, <3>1, FaceCounts
  <2>4. ASSUME NEW i \in 2 .. n
        PROVE  faceFile[i] = FaceBlock(facesPushed'[(facesSwapped - n) + i])
    <3>1. facesPushed'[(facesSwapped - n) + i] = facesPushed[(facesSwapped - n) + i]
      BY <1>2, <2>3
    <3>2. QED
      BY <2>2, <3>1
  <2>5. QED
    BY <2>2, <2>4
<1>8. QED
  BY <1>4, <1>5, <1>6, <1>7 DEF FaceInv

(* The swap takes all that wait. *)
LEMMA FacesSwap ==
  ASSUME TypeOK, FaceInv, SwapQueues
  PROVE  FaceInv'
<1>1. /\ faceFrames' = faceQueue /\ faceQueue' = << >> /\ bg' = "batch"
      /\ facesSwapped' = facesSwapped + Len(faceQueue)
      /\ UNCHANGED <<facesPushed, depthVals, faceHeader, faceFile, openedAt, pushed>>
  BY DEF SwapQueues, outputVars, fileVars
<1>2. faceFrames = << >> /\ Len(faceFrames) = 0 /\ Len(faceQueue') = 0
  <2>1. bg = "lock"
    BY DEF SwapQueues
  <2>2. QED
    BY <1>1, <2>1, EmptySeq DEF FaceInv, FacesTaken
<1>3. facesSwapped' - Len(faceFrames') = facesSwapped /\ Len(faceFrames') <= facesSwapped'
  BY <1>1, FaceCounts
<1>4. FacesTaken'
  BY <1>1, <1>3 DEF FaceInv, FacesWaiting, FacesTaken
<1>5. FacesWaiting'
  BY <1>1, <1>2, FaceCounts DEF FaceInv, FacesWaiting
<1>6. FileBegun'
  BY <1>1 DEF FaceInv, FileBegun
<1>7. FaceFileComplete'
  <2>1. facesSwapped - Len(faceFrames) = facesSwapped
    BY <1>2, FaceCounts
  <2>2. QED
    BY <1>1, <1>3, <2>1 DEF FaceInv, FaceFileComplete
<1>8. QED
  BY <1>4, <1>5, <1>6, <1>7 DEF FaceInv

(* What WriteFaces makes of the face frames it has. *)
Written == [i \in DOMAIN faceFrames |-> FaceBlock(faceFrames[i])]

LEMMA FaceBlocks ==
  ASSUME TypeOK
  PROVE  /\ Written \in Seq(Block) /\ Len(Written) = Len(faceFrames)
         /\ \A i \in 1 .. Len(faceFrames) : Written[i] = FaceBlock(faceFrames[i])
<1>1. /\ Len(faceFrames) \in Nat /\ DOMAIN faceFrames = 1 .. Len(faceFrames)
      /\ \A i \in 1 .. Len(faceFrames) : faceFrames[i] \in Faces
  BY LenProperties, ElementOfSeq DEF TypeOK
<1>2. \A i \in 1 .. Len(faceFrames) : FaceBlock(faceFrames[i]) \in Block
  BY <1>1 DEF FaceBlock, Block
<1>3. Written \in Seq(Block) /\ DOMAIN Written = 1 .. Len(faceFrames)
  BY <1>1, <1>2 DEF Written
<1>4. Len(Written) \in Nat /\ 1 .. Len(Written) = 1 .. Len(faceFrames)
  BY <1>3, LenProperties
<1>5. Len(Written) = Len(faceFrames)
  BY <1>1, <1>4
<1>6. QED
  BY <1>1, <1>3, <1>5 DEF Written

(* The blocks of face frames behind what face.bin has. *)
LEMMA FileGrows ==
  ASSUME TypeOK, NEW old \in Seq(Block), NEW all, all = old \o Written
  PROVE  /\ Len(all) = Len(old) + Len(faceFrames)
         /\ \A i \in 1 .. Len(old) : all[i] = old[i]
         /\ \A i \in Len(old) + 1 .. Len(all) : all[i] = FaceBlock(faceFrames[i - Len(old)])
<1>1. /\ Len(faceFrames) \in Nat /\ Len(old) \in Nat
      /\ Written \in Seq(Block) /\ Len(Written) = Len(faceFrames)
      /\ \A i \in 1 .. Len(faceFrames) : Written[i] = FaceBlock(faceFrames[i])
  BY FaceCounts, FaceBlocks, LenProperties
<1>2. /\ Len(all) = Len(old) + Len(faceFrames)
      /\ \A i \in 1 .. Len(old) + Len(faceFrames) :
           all[i] = IF i <= Len(old) THEN old[i] ELSE Written[i - Len(old)]
  <2>1. /\ Len(old \o Written) = Len(old) + Len(Written)
        /\ \A i \in 1 .. Len(old) + Len(Written) :
             (old \o Written)[i] = IF i <= Len(old) THEN old[i] ELSE Written[i - Len(old)]
    BY <1>1, ConcatProperties, Zenon
  <2>2. QED
    BY <1>1, <2>1
<1>3. ASSUME NEW i \in Len(old) + 1 .. Len(all)
      PROVE  all[i] = FaceBlock(faceFrames[i - Len(old)])
  <2>1. i - Len(old) \in 1 .. Len(faceFrames) /\ ~(i <= Len(old))
        /\ i \in 1 .. Len(old) + Len(faceFrames)
    BY <1>1, <1>2, <1>3
  <2>2. QED
    BY <1>1, <1>2, <2>1
<1>4. QED
  BY <1>1, <1>2, <1>3

(* The header values, once there, are those of the first entry. *)
HeaderStands == depthVals # None => pushed # << >> /\ depthVals = pushed[1]

(* A batch of face frames is written: behind a new header, behind what is  *)
(* there, or not at all.                                                   *)
LEMMA FacesWritten ==
  ASSUME TypeOK, TypeOK', FaceInv, HeaderStands, WriteFaces
  PROVE  FaceInv'
<1> DEFINE header == depthVals # None /\ ~faceHeader /\ faceFrames # << >>
           blocks == (IF header THEN <<HeaderBlock(faceFrames[1])>> ELSE << >>)
                     \o IF header \/ faceHeader THEN Written ELSE << >>
<1>1. /\ bg = "batch" /\ bg' = "test" /\ faceFrames' = << >> /\ ~StreamMode
      /\ faceHeader' = (faceHeader \/ header)
      /\ faceFile' = faceFile \o blocks
      /\ openedAt' = IF openedAt = None /\ blocks # << >> THEN outputPath ELSE openedAt
      /\ UNCHANGED <<faceQueue, facesPushed, facesSwapped, depthVals, pushed>>
  BY DEF WriteFaces, Written, queueVars, outputVars
<1>2. FacesTaken'
  BY <1>1, EmptySeq, FaceCounts DEF FacesTaken
<1>3. FacesWaiting'
  BY <1>1 DEF FaceInv, FacesWaiting
<1>4. facesSwapped' - Len(faceFrames') = facesSwapped
  BY <1>1, EmptySeq, FaceCounts
<1>5. outputPath # None
  BY RecorderAssumption DEF TypeOK
<1>6. faceFile \in Seq(Block) /\ faceFile' \in Seq(Block)
  BY DEF TypeOK
<1>7. CASE header
  <2>1. faceFile = << >> /\ ~faceHeader /\ depthVals # None /\ faceFrames # << >>
    BY <1>7 DEF FaceInv, FileBegun
  <2> DEFINE top == <<HeaderBlock(faceFrames[1])>>
  <2>2. blocks = top \o Written
    BY <1>7
  <2>3. top \in Seq(Block) /\ Len(top) = 1 /\ top[1] = HeaderBlock(faceFrames[1])
    <3>1. faceFrames[1] \in Faces
      <4>1. faceFrames \in Seq(Faces) /\ 1 \in 1 .. Len(faceFrames)
        BY <2>1, FaceCounts DEF TypeOK
      <4>2. QED
        BY <4>1, ElementOfSeq
    <3>2. HeaderBlock(faceFrames[1]) \in Block
      BY <2>1, <3>1 DEF HeaderBlock, Block, TypeOK
    <3>3. QED
      BY <3>2
  <2> HIDE DEF top
  <2>4. faceFile' = top \o Written
    <3>1. faceFile' = << >> \o (top \o Written)
      BY <1>1, <2>1, <2>2
    <3>2. top \o Written \in Seq(Block)
      BY <2>3, FaceBlocks, ConcatProperties
    <3>3. QED
      BY <3>1, <3>2, ConcatEmptySeq
  <2>5. /\ Len(faceFile') = 1 + Len(faceFrames)
        /\ faceFile'[1] = HeaderBlock(faceFrames[1])
        /\ \A i \in 2 .. Len(faceFile') : faceFile'[i] = FaceBlock(faceFrames[i - 1])
    <3>1. /\ Len(faceFile') = Len(top) + Len(faceFrames)
          /\ \A i \in 1 .. Len(top) : faceFile'[i] = top[i]
          /\ \A i \in Len(top) + 1 .. Len(faceFile') :
               faceFile'[i] = FaceBlock(faceFrames[i - Len(top)])
      BY <1>6, <2>3, <2>4, FileGrows
    <3>2. QED
      BY <2>3, <3>1
  <2>6. Len(faceFrames) \in Nat /\ Len(faceFrames) > 0 /\ Len(faceFrames) <= facesSwapped
        /\ facesSwapped \in Nat
    BY <2>1, FaceCounts DEF FaceInv, FacesTaken
  <2>7. FileBegun'
    <3>1. faceFile' # << >> /\ blocks # << >>
      BY <2>1, <2>5, <2>6, <1>1, <1>6, EmptySeq, <2>2, <2>4
    <3>2. QED
      BY <1>1, <1>5, <1>7, <2>1, <3>1 DEF FileBegun
  <2>8. FaceFileComplete'
    <3> DEFINE n == Len(faceFile')
    <3>1. n >= 2 /\ n - 1 <= facesSwapped /\ n = 1 + Len(faceFrames)
      BY <2>5, <2>6
    <3>2. ASSUME NEW i \in 2 .. n
          PROVE  faceFile'[i] = FaceBlock(facesPushed[(facesSwapped - n) + i])
      <4>1. i - 1 \in 1 .. Len(faceFrames)
            /\ (facesSwapped - Len(faceFrames)) + (i - 1) = (facesSwapped - n) + i
        BY <2>6, <3>1, <3>2
      <4>2. faceFrames[i - 1] = facesPushed[(facesSwapped - n) + i]
        BY <4>1 DEF FaceInv, FacesTaken
      <4>3. QED
        BY <2>5, <4>2
    <3>3. faceFile'[1] = [kind |-> "header", vals |-> pushed[1], face |-> faceFile'[2].face]
      <4>1. faceFile'[2].face = faceFrames[1]
        <5>1. 2 \in 2 .. n /\ 2 - 1 = 1
          BY <2>6, <3>1
        <5>2. faceFile'[2] = FaceBlock(faceFrames[1])
          BY <2>5, <5>1
        <5>3. QED
          BY <5>2 DEF FaceBlock
      <4>2. QED
        BY <2>1, <2>5, <4>1 DEF HeaderBlock, HeaderStands
    <3>4. QED
      BY <1>1, <1>4, <3>1, <3>2, <3>3 DEF FaceFileComplete
  <2>9. QED
    BY <1>2, <1>3, <2>7, <2>8 DEF FaceInv
<1>8. CASE faceHeader
  <2>1. faceFile # << >> /\ depthVals # None /\ openedAt # None /\ ~header
    BY <1>8 DEF FaceInv, FileBegun
  <2>2. faceFile' = faceFile \o Written
    <3>1. blocks = << >> \o Written
      BY <1>8, <2>1
    <3>2. blocks = Written
      BY <3>1, FaceBlocks, ConcatEmptySeq
    <3>3. QED
      BY <1>1, <3>2
  <2>3. /\ Len(faceFile') = Len(faceFile) + Len(faceFrames)
        /\ \A i \in 1 .. Len(faceFile) : faceFile'[i] = faceFile[i]
        /\ \A i \in Len(faceFile) + 1 .. Len(faceFile') :
             faceFile'[i] = FaceBlock(faceFrames[i - Len(faceFile)])
    BY <1>6, <2>2, FileGrows
  <2> DEFINE n == Len(faceFile)
             before == facesSwapped - Len(faceFrames)
  <2>4. /\ n >= 2 /\ n - 1 <= before
        /\ faceFile[1] = [kind |-> "header", vals |-> pushed[1], face |-> faceFile[2].face]
        /\ \A i \in 2 .. n : faceFile[i] = FaceBlock(facesPushed[(before - n) + i])
    BY <2>1 DEF FaceInv, FaceFileComplete
  <2>5. /\ n \in Nat /\ Len(faceFrames) \in Nat /\ facesSwapped \in Nat /\ before \in Nat
        /\ facesSwapped - (n + Len(faceFrames)) = before - n
    BY FaceCounts DEF FaceInv, FacesTaken
  <2>6. FileBegun'
    <3>1. faceFile' # << >>
      BY <2>3, <2>4, <2>5, <1>6, EmptySeq
    <3>2. QED
      BY <1>1, <1>8, <2>1, <3>1 DEF FileBegun
  <2>7. FaceFileComplete'
    <3>1. ASSUME NEW i \in 2 .. Len(faceFile')
          PROVE  faceFile'[i] = FaceBlock(facesPushed[(before - n) + i])
      <4>1. CASE i <= n
        BY <2>3, <2>4, <2>5, <3>1, <4>1
      <4>2. CASE i > n
        <5>1. /\ i - n \in 1 .. Len(faceFrames) /\ i \in n + 1 .. Len(faceFile')
              /\ before + (i - n) = (before - n) + i
          BY <2>3, <2>5, <3>1, <4>2
        <5>2. faceFrames[i - n] = facesPushed[(before - n) + i]
          BY <5>1 DEF FaceInv, FacesTaken
        <5>3. QED
          BY <2>3, <5>1, <5>2
      <4>3. QED
        BY <2>5, <3>1, <4>1, <4>2
    <3>2. faceFile'[1] = faceFile[1] /\ faceFile'[2] = faceFile[2]
      BY <2>3, <2>4, <2>5
    <3>3. Len(faceFile') >= 2 /\ Len(faceFile') - 1 <= facesSwapped
          /\ facesSwapped - Len(faceFile') = before - n
      BY <2>3, <2>4, <2>5
    <3>4. \A i \in 2 .. Len(faceFile') :
            faceFile'[i] = FaceBlock(facesPushed[(facesSwapped - Len(faceFile')) + i])
      BY <3>1, <3>3
    <3>5. QED
      BY <1>1, <1>4, <2>4, <3>2, <3>3, <3>4 DEF FaceFileComplete
  <2>8. QED
    BY <1>2, <1>3, <2>6, <2>7 DEF FaceInv
<1>9. CASE ~header /\ ~faceHeader
  <2>1. faceFile = << >>
    BY <1>9 DEF FaceInv, FileBegun
  <2>2. blocks = << >>
    BY <1>9
  <2>3. faceFile' = << >> /\ ~faceHeader'
    BY <1>1, <1>9, <2>1, <2>2
  <2>4. QED
    BY <1>2, <1>3, <2>3 DEF FaceInv, FileBegun, FaceFileComplete
<1>10. QED
  BY <1>7, <1>8, <1>9

(* Steps that leave the face frames alone. *)
LEMMA FacesKept ==
  ASSUME TypeOK, FaceInv, HeaderStands,
         UNCHANGED <<faceQueue, faceFrames, facesPushed, facesSwapped, fileVars>>,
         bg' \in {"batch", "fault"} \/ bg \notin {"batch", "fault"},
         depthVals # None => depthVals' # None,
         pushed # << >> => pushed'[1] = pushed[1]
  PROVE  FaceInv'
<1>1. FacesTaken' /\ FacesWaiting'
  BY DEF FaceInv, FacesTaken, FacesWaiting
<1>2. FileBegun'
  BY DEF FaceInv, FileBegun, fileVars
<1>3. FaceFileComplete'
  <2>1. SUFFICES ASSUME faceFile # << >>  PROVE FaceFileComplete'
    BY DEF FaceFileComplete, fileVars
  <2>2. pushed'[1] = pushed[1]
    BY <2>1 DEF FaceInv, FileBegun, HeaderStands
  <2>3. QED
    BY <2>2 DEF FaceInv, FaceFileComplete, fileVars
<1>4. QED
  BY <1>1, <1>2, <1>3 DEF FaceInv

LEMMA FaceInvStep ==
  TypeOK /\ TypeOK' /\ FaceInv /\ HeaderStands /\ [RecNext]_recVars => FaceInv'
<1> SUFFICES ASSUME TypeOK, TypeOK', FaceInv, HeaderStands, [RecNext]_recVars
             PROVE  FaceInv'
  OBVIOUS
<1>1. CASE UNCHANGED recVars
  BY <1>1, FacesKept DEF recVars, queueVars, batchVars, outputVars
<1>2. ASSUME NEW e \in Entry, PushDepth(e)  PROVE FaceInv'
  <2>1. pushed # << >> => pushed'[1] = pushed[1]
    <3>1. SUFFICES ASSUME pushed # << >>  PROVE pushed'[1] = pushed[1]
      OBVIOUS
    <3>2. 1 \in 1 .. Len(pushed)
      BY <3>1, EmptySeq DEF TypeOK
    <3>3. QED
      BY <1>2, <3>2, AppendProperties DEF PushDepth, TypeOK
  <2>2. QED
    BY <1>2, <2>1, FacesKept DEF PushDepth, MutexFree, batchVars, outputVars
<1>3. CASE Calls
  <2>1. CASE StopRecording \/ \E f \in Frames : WriteFrame(f)
    BY <1>2, <2>1 DEF StopRecording, WriteFrame, Entry
  <2>2. CASE \E f \in Faces : WriteFaceFrame(f)
    BY <2>2, FacePushed
  <2>3. CASE (\E p \in Paths \cup {EmptyPath} : StartRecording(p)) \/ Destroy \/ Join
    BY <2>3, FacesKept DEF StartRecording, Destroy, Join, queueVars, batchVars, outputVars
  <2>4. QED
    BY <1>3, <2>1, <2>2, <2>3 DEF Calls
<1>4. CASE TestTerminate \/ Sleep \/ SpuriousWakeup \/ NullHeaderRead
  BY <1>4, FacesKept DEF TestTerminate, Sleep, SpuriousWakeup, NullHeaderRead,
     queueVars, batchVars, outputVars
<1>5. CASE StreamFrame \/ FinishFFmpeg
  <2>1. /\ Handle /\ bg = "batch" /\ bg' = "batch" /\ pushed' = pushed
        /\ UNCHANGED <<faceQueue, faceFrames, facesPushed, facesSwapped, fileVars>>
    BY <1>5 DEF StreamFrame, FinishFFmpeg, AtEntry, Handle, queueVars
  <2>2. depthVals # None => depthVals' # None
    BY <1>5 DEF StreamFrame, FinishFFmpeg
  <2>3. QED
    BY <2>1, <2>2, FacesKept
<1>6. CASE SwapQueues
  BY <1>6, FacesSwap
<1>7. CASE DropFaces
  <2>1. /\ StreamMode /\ faceFrames' = << >> /\ bg' = "test"
        /\ UNCHANGED <<faceQueue, facesPushed, facesSwapped, depthVals, fileVars>>
    BY <1>7 DEF DropFaces, queueVars, outputVars
  <2>2. faceFile' = << >> /\ ~faceHeader /\ faceHeader' = faceHeader
    BY <2>1 DEF FaceInv, FileBegun, fileVars
  <2>3. FacesTaken' /\ FacesWaiting'
    BY <2>1, EmptySeq, FaceCounts DEF FaceInv, FacesTaken, FacesWaiting
  <2>4. QED
    BY <2>2, <2>3 DEF FaceInv, FileBegun, FaceFileComplete
<1>8. CASE WriteFaces
  BY <1>8, FacesWritten
<1>9. QED
  BY <1>1, <1>3, <1>4, <1>5, <1>6, <1>7, <1>8 DEF RecNext, BackgroundThread

LEMMA FaceInvAlways == RecSpec => []FaceInv
<1>1. RecInit => FaceInv
  BY EmptySeq DEF RecInit, FaceInv, FacesTaken, FacesWaiting, FileBegun, FaceFileComplete
<1>2. HeaderOfFirstFrame => HeaderStands
  BY DEF HeaderOfFirstFrame, HeaderStands
<1>3. QED
  BY <1>1, <1>2, FaceInvStep, TypeCorrect, HeaderIsOfFirstFrame, PTL DEF RecSpec

(* WriteFaceFrame, the swap and the loop over faceFrames: face.bin begins  *)
(* with one header block, of the first depth frame and the first face      *)
(* written, and from there on has every face frame dealt with, in order.   *)
THEOREM FaceFileIsComplete == RecSpec => []FaceFileComplete
<1>1. FaceInv => FaceFileComplete
  BY DEF FaceInv
<1>2. QED
  BY <1>1, FaceInvAlways, PTL
=============================================================================
