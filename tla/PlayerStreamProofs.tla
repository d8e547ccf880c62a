------------------------- MODULE PlayerStreamProofs -------------------------
(***************************************************************************)
(* Theorems about the Player, for any bounds on pictures and turns.        *)
(***************************************************************************)
EXTENDS PlayerStream, SequenceTheorems, TLAPS

(* The pictures that More makes are pictures. *)
LEMMA MoreType ==
  ASSUME NEW k \in 0 .. MaxPerPacket, lastDecoded \in Nat, lastDecoded + k <= MaxDecoded
  PROVE  /\ More(k) \in Seq(Pictures) /\ Len(More(k)) = k
         /\ \A i \in 1 .. k : More(k)[i] = lastDecoded + i
<1>1. k \in Nat /\ MaxDecoded \in Nat
  BY PlayerAssumption DEF PlayerAssumption
<1>2. \A i \in 1 .. k : lastDecoded + i \in Pictures
  BY <1>1 DEF Pictures
<1> QED BY <1>1, <1>2 DEF More

LEMMA InitType == PlayerInit => PlayerTypeOK
<1>1. 0 \in Pictures
  BY PlayerAssumption DEF Pictures, PlayerAssumption
<1>2. << >> \in Seq(Pictures)
  BY EmptySeq
<1> QED BY <1>1, <1>2 DEF PlayerInit, PlayerTypeOK, BgStates

(* Every step keeps the types. *)
LEMMA StepType == PlayerTypeOK /\ [PlayerNext]_playerVars => PlayerTypeOK'
<1> SUFFICES ASSUME PlayerTypeOK, [PlayerNext]_playerVars PROVE PlayerTypeOK'
  OBVIOUS
<1>1. CASE Initialize
  BY <1>1 DEF PlayerTypeOK, Initialize, viewVars, BgStates
<1>2. CASE StartTurn
  <2>1. 0 \in Pictures
    BY PlayerAssumption DEF Pictures, PlayerAssumption
  <2> QED BY <1>2, <2>1 DEF PlayerTypeOK, StartTurn, decoderVars, viewVars, BgStates
<1>3. CASE Decode
  <2>1. PICK k \in 0 .. MaxPerPacket :
           /\ lastDecoded + k <= MaxDecoded
           /\ decoded' = More(k) /\ lastDecoded' = lastDecoded + k
    BY <1>3 DEF Decode
  <2>2. lastDecoded \in Nat /\ k \in Nat /\ MaxDecoded \in Nat
    BY PlayerAssumption DEF PlayerTypeOK, PlayerAssumption, Pictures
  <2>3. decoded' \in Seq(Pictures) /\ lastDecoded' \in Pictures
    BY <2>1, <2>2, MoreType DEF Pictures
  <2> QED BY <1>3, <2>3 DEF PlayerTypeOK, Decode, viewVars, BgStates
<1>4. CASE TakePicture
  <2>1. Head(decoded) \in Pictures /\ Tail(decoded) \in Seq(Pictures)
    BY <1>4, HeadTailProperties DEF PlayerTypeOK, TakePicture
  <2> QED BY <1>4, <2>1 DEF PlayerTypeOK, TakePicture, viewVars, BgStates
<1>5. CASE Push
  <2>1. Append(frames, picture) \in Seq(Pictures) /\ Append(pushed, picture) \in Seq(Pictures)
    BY AppendProperties DEF PlayerTypeOK
  <2> QED BY <1>5, <2>1 DEF PlayerTypeOK, Push, decoderVars, viewVars, BgStates
<1>6. CASE MakePlayer
  BY <1>6 DEF PlayerTypeOK, MakePlayer, decoderVars, viewVars, BgStates
<1>7. CASE Tick
  <2>1. Head(frames) \in Pictures /\ Tail(frames) \in Seq(Pictures)
    BY <1>7, HeadTailProperties DEF PlayerTypeOK, Tick
  <2>2. Append(taken, Head(frames)) \in Seq(Pictures)
        /\ Append(shown, Head(frames)) \in Seq(Pictures)
    BY <2>1, AppendProperties DEF PlayerTypeOK
  <2>3. shown' \in Seq(Pictures) /\ dead' \in BOOLEAN
    BY <1>7, <2>2 DEF PlayerTypeOK, Tick, OnDepthBuffer
  <2> QED BY <1>7, <2>1, <2>2, <2>3 DEF PlayerTypeOK, Tick, decoderVars
<1>8. CASE TogglePause
  BY <1>8 DEF PlayerTypeOK, TogglePause, decoderVars
<1>9. CASE UNCHANGED playerVars
  BY <1>9 DEF PlayerTypeOK, playerVars, decoderVars, viewVars
<1> QED BY <1>1, <1>2, <1>3, <1>4, <1>5, <1>6, <1>7, <1>8, <1>9 DEF PlayerNext, Background

(* Whatever the stream yields and whenever a read fails, the frames pushed *)
(* and taken are picture numbers, and the queues hold nothing else.        *)
THEOREM PlayerTypeCorrect == PlayerSpec => []PlayerTypeOK
BY InitType, StepType, PTL DEF PlayerSpec
-----------------------------------------------------------------------------
(* The queue between the threads is the part of pushed that is not taken.  *)
Queued ==
  /\ Len(pushed) = Len(taken) + Len(frames)
  /\ \A i \in 1 .. Len(frames) : frames[i] = pushed[Len(taken) + i]

LEMMA QueuedStep == PlayerTypeOK /\ Queued /\ [PlayerNext]_playerVars => Queued'
<1> SUFFICES ASSUME PlayerTypeOK, Queued, [PlayerNext]_playerVars PROVE Queued'
  OBVIOUS
<1>0. /\ pushed \in Seq(Pictures) /\ taken \in Seq(Pictures) /\ frames \in Seq(Pictures)
      /\ Len(pushed) \in Nat /\ Len(taken) \in Nat /\ Len(frames) \in Nat
      /\ picture \in Pictures
  BY LenProperties DEF PlayerTypeOK
<1>1. CASE Push
  <2>1. frames' = Append(frames, picture) /\ pushed' = Append(pushed, picture) /\ taken' = taken
    BY <1>1 DEF Push
  <2>2. Len(frames') = Len(frames) + 1 /\ Len(pushed') = Len(pushed) + 1
    BY <1>0, <2>1, AppendProperties
  <2>3. ASSUME NEW i \in 1 .. Len(frames') PROVE frames'[i] = pushed'[Len(taken') + i]
    <3>1. CASE i <= Len(frames)
      BY <1>0, <2>1, <2>2, <3>1, AppendProperties DEF Queued
    <3>2. CASE i = Len(frames) + 1
      BY <1>0, <2>1, <2>2, <3>2, AppendProperties DEF Queued
    <3> QED BY <1>0, <2>2, <3>1, <3>2
  <2>4. Len(pushed') = Len(taken') + Len(frames')
    BY <1>0, <2>1, <2>2 DEF Queued
  <2> QED BY <2>3, <2>4 DEF Queued
<1>2. CASE Tick
  <2>1. frames # << >> /\ frames' = Tail(frames) /\ taken' = Append(taken, Head(frames))
        /\ pushed' = pushed
    BY <1>2 DEF Tick
  <2>2. /\ Len(frames') = Len(frames) - 1 /\ Head(frames) \in Pictures
        /\ \A i \in 1 .. Len(frames') : frames'[i] = frames[i + 1]
    BY <1>0, <2>1, HeadTailProperties
  <2>3. Len(taken') = Len(taken) + 1
    BY <1>0, <2>1, <2>2, AppendProperties
  <2>4. ASSUME NEW i \in 1 .. Len(frames') PROVE frames'[i] = pushed'[Len(taken') + i]
    <3>1. i + 1 \in 1 .. Len(frames) /\ Len(taken') + i = Len(taken) + (i + 1)
      BY <1>0, <2>2, <2>3
    <3> QED BY <2>1, <2>2, <3>1 DEF Queued
  <2>5. Len(pushed') = Len(taken') + Len(frames')
    <3>1. Len(pushed') = Len(pushed)
      BY <2>1
    <3> QED BY <1>0, <2>2, <2>3, <3>1 DEF Queued
  <2> QED BY <2>4, <2>5 DEF Queued
<1>3. CASE UNCHANGED <<frames, pushed, taken>>
  BY <1>3 DEF Queued
<1> QED BY <1>1, <1>2, <1>3
     DEF PlayerNext, Background, Initialize, StartTurn, Decode, TakePicture, MakePlayer,
         TogglePause, playerVars

(* A Push is an Accept of FrameStream, a Tick that finds a frame a Deliver, *)
(* every other step a stutter.                                             *)
LEMMA StepRefines ==
  PlayerTypeOK /\ Queued /\ [PlayerNext]_playerVars => [FS!Next]_FS!vars
<1> SUFFICES ASSUME PlayerTypeOK, Queued, [PlayerNext]_playerVars PROVE [FS!Next]_FS!vars
  OBVIOUS
<1>0. /\ taken \in Seq(Pictures) /\ frames \in Seq(Pictures) /\ picture \in Pictures
      /\ Len(taken) \in Nat /\ Len(frames) \in Nat
  BY LenProperties DEF PlayerTypeOK
<1>1. CASE Push
  BY <1>0, <1>1 DEF Push, FS!Next, FS!Accept
<1>2. CASE Tick
  <2>1. frames # << >> /\ taken' = Append(taken, Head(frames)) /\ pushed' = pushed
    BY <1>2 DEF Tick
  <2>2. Len(frames) >= 1 /\ Head(frames) = frames[1]
    BY <1>0, <2>1, EmptySeq
  <2>3. Len(taken) < Len(pushed) /\ Head(frames) = pushed[Len(taken) + 1]
    BY <1>0, <2>2 DEF Queued
  <2> QED BY <2>1, <2>3 DEF FS!Next, FS!Deliver
<1>3. CASE UNCHANGED <<pushed, taken>>
  BY <1>3 DEF FS!vars
<1> QED BY <1>1, <1>2, <1>3
     DEF PlayerNext, Background, Initialize, StartTurn, Decode, TakePicture, MakePlayer,
         TogglePause, playerVars

(* GetNextFrame and BackgroundThread, under one mutex, implement the FIFO  *)
(* that FrameStream promises, as the Recorder's queue does.                *)
THEOREM PlayerImplementsFrameStream == PlayerSpec => ImplementsFrameStream
<1>1. PlayerInit => FS!Init /\ Queued
  BY DEF PlayerInit, FS!Init, Queued
<1> QED BY <1>1, InitType, StepType, QueuedStep, StepRefines, PTL
        DEF PlayerSpec, ImplementsFrameStream, FS!Spec
-----------------------------------------------------------------------------
(* Where the pictures are: in decoded those decoded last, in picture at    *)
(* most the one before them; Out have left for the queue.                  *)
Held == IF bg = "push" /\ picture # 0 THEN 1 ELSE 0

Out == lastDecoded - Len(decoded) - Held

Decoding ==
  /\ bg = "read" => picture = 0
  /\ 0 <= Out
  /\ \A i \in 1 .. Len(decoded) : decoded[i] = lastDecoded - Len(decoded) + i
  /\ Held = 1 => picture = Out + 1

(* Frames wait in the order of decoding, and nothing shown is behind them. *)
InOrder ==
  /\ \A j \in 1 .. Len(frames) : frames[j] <= Out
  /\ \A j, k \in 1 .. Len(frames) :
        j < k /\ frames[j] # 0 /\ frames[k] # 0 => frames[j] < frames[k]
  /\ \A i \in 1 .. Len(shown) :
        /\ shown[i] <= Out
        /\ \A j \in 1 .. Len(frames) : frames[j] # 0 => shown[i] < frames[j]
  /\ \A i, j \in 1 .. Len(shown) : i < j => shown[i] < shown[j]

(* Until the first pause, a picture that is not shown still waits.         *)
NoneMissed ==
  ~everPaused =>
    /\ ~isPaused
    /\ \A i \in 1 .. Len(shown) : shown[i] = i
    /\ \A p \in Len(shown) + 1 .. Out : \E j \in 1 .. Len(frames) : frames[j] = p

PipelineInv == Decoding /\ InOrder /\ NoneMissed

LEMMA InitPipeline == PlayerInit => PipelineInv
BY DEF PlayerInit, PipelineInv, Decoding, InOrder, NoneMissed, Out, Held

LEMMA PipelineTypes ==
  ASSUME PlayerTypeOK
  PROVE  /\ lastDecoded \in Nat /\ picture \in Nat /\ Len(decoded) \in Nat
         /\ Len(frames) \in Nat /\ Len(shown) \in Nat
         /\ Held \in {0, 1} /\ Out \in Int
         /\ \A i \in 1 .. Len(decoded) : decoded[i] \in Nat
         /\ \A i \in 1 .. Len(frames) : frames[i] \in Nat
         /\ \A i \in 1 .. Len(shown) : shown[i] \in Nat
<1>1. Pictures \subseteq Nat
  BY PlayerAssumption DEF Pictures, PlayerAssumption
<1>2. /\ Len(decoded) \in Nat /\ Len(frames) \in Nat /\ Len(shown) \in Nat
      /\ \A i \in 1 .. Len(decoded) : decoded[i] \in Pictures
      /\ \A i \in 1 .. Len(frames) : frames[i] \in Pictures
      /\ \A i \in 1 .. Len(shown) : shown[i] \in Pictures
  BY LenProperties, ElementOfSeq DEF PlayerTypeOK
<1>3. lastDecoded \in Nat /\ picture \in Nat
  BY <1>1 DEF PlayerTypeOK
<1>4. Held \in {0, 1}
  BY DEF Held
<1>5. Out \in Int
  BY <1>2, <1>3, <1>4 DEF Out
<1>6. /\ \A i \in 1 .. Len(decoded) : decoded[i] \in Nat
      /\ \A i \in 1 .. Len(frames) : frames[i] \in Nat
      /\ \A i \in 1 .. Len(shown) : shown[i] \in Nat
  BY <1>1, <1>2
<1> QED BY <1>2, <1>3, <1>4, <1>5, <1>6

(* What a turn does to the decoded pictures, and that only a Push of a     *)
(* picture lets one out.                                                   *)
LEMMA DecodingStep ==
  ASSUME PlayerTypeOK, PlayerTypeOK', Decoding, [PlayerNext]_playerVars
  PROVE  /\ Decoding'
         /\ Out' = IF Push THEN Out + Held ELSE Out
<1> DEFINE Goal == Decoding' /\ Out' = IF Push THEN Out + Held ELSE Out
<1>0. /\ lastDecoded \in Nat /\ picture \in Nat /\ Len(decoded) \in Nat
      /\ \A i \in 1 .. Len(decoded) : decoded[i] \in Nat
      /\ decoded \in Seq(Pictures)
  BY PipelineTypes DEF PlayerTypeOK
<1>1. CASE Initialize
  <2>1. ~Push /\ Held' = Held /\ UNCHANGED <<decoded, lastDecoded, picture>> /\ bg' # "read"
    BY <1>1 DEF Initialize, Push, Held
  <2> QED BY <2>1 DEF Decoding, Out
<1>2. CASE StartTurn
  <2>1. ~Push /\ Held' = 0 /\ Held = 0 /\ UNCHANGED <<decoded, lastDecoded>> /\ picture' = 0
    BY <1>2 DEF StartTurn, Push, Held, decoderVars
  <2> QED BY <2>1 DEF Decoding, Out
<1>3. CASE Decode
  <2>1. PICK k \in 0 .. MaxPerPacket :
           /\ lastDecoded + k <= MaxDecoded
           /\ decoded' = More(k) /\ lastDecoded' = lastDecoded + k
    BY <1>3 DEF Decode
  <2>2. Len(decoded') = k /\ \A i \in 1 .. k : decoded'[i] = lastDecoded + i
    BY <1>0, <2>1, MoreType
  <2>3. decoded = << >> /\ Len(decoded) = 0 /\ picture = 0 /\ picture' = 0
        /\ ~Push /\ Held = 0 /\ Held' = 0
    BY <1>3 DEF Decode, Decoding, Push, Held
  <2>4. k \in Nat
    BY PlayerAssumption DEF PlayerAssumption
  <2>5. Out' = lastDecoded /\ Out = lastDecoded
    BY <1>0, <2>1, <2>2, <2>3, <2>4 DEF Out
  <2>6. \A i \in 1 .. Len(decoded') : decoded'[i] = lastDecoded' - Len(decoded') + i
    BY <1>0, <2>1, <2>2, <2>4
  <2> QED BY <1>0, <2>3, <2>5, <2>6 DEF Decoding
<1>4. CASE TakePicture
  <2>1. /\ decoded # << >> /\ decoded' = Tail(decoded) /\ picture' = Head(decoded)
        /\ ~Push /\ Held = 0 /\ lastDecoded' = lastDecoded /\ bg' = "push"
    BY <1>4 DEF TakePicture, Push, Held
  <2>2. /\ Len(decoded') = Len(decoded) - 1 /\ Len(decoded) >= 1 /\ picture' = decoded[1]
        /\ \A i \in 1 .. Len(decoded') : decoded'[i] = decoded[i + 1]
    BY <1>0, <2>1, HeadTailProperties, EmptySeq
  <2>3. picture' = Out + 1 /\ 0 <= Out
    BY <1>0, <2>1, <2>2 DEF Decoding, Out
  <2>4. Held' = 1
    BY <1>0, <2>1, <2>3 DEF Held, Out
  <2>5. Out' = Out
    BY <1>0, <2>1, <2>2, <2>4 DEF Out
  <2>6. \A i \in 1 .. Len(decoded') : decoded'[i] = lastDecoded' - Len(decoded') + i
    BY <1>0, <2>1, <2>2 DEF Decoding
  <2> QED BY <2>1, <2>3, <2>4, <2>5, <2>6 DEF Decoding
<1>5. CASE Push
  <2>1. Held' = 0 /\ UNCHANGED <<decoded, lastDecoded, picture>> /\ bg' = "turn"
    BY <1>5 DEF Push, Held, decoderVars
  <2>2. Held \in {0, 1}
    BY DEF Held
  <2>3. Out' = Out + Held
    BY <1>0, <2>1, <2>2 DEF Out
  <2>4. Out \in Int /\ 0 <= Out'
    BY <2>2, <2>3, PipelineTypes DEF Decoding
  <2>5. \A i \in 1 .. Len(decoded') : decoded'[i] = lastDecoded' - Len(decoded') + i
    BY <2>1 DEF Decoding
  <2> QED BY <1>5, <2>1, <2>3, <2>4, <2>5 DEF Decoding
<1>6. CASE MakePlayer
  <2>1. ~Push /\ Held' = Held /\ UNCHANGED <<decoded, lastDecoded, picture>> /\ bg' # "read"
    BY <1>6 DEF MakePlayer, Push, Held, decoderVars
  <2> QED BY <2>1 DEF Decoding, Out
<1>7. CASE (Tick \/ TogglePause \/ UNCHANGED playerVars) /\ ~Push
  <2>1. Held' = Held /\ UNCHANGED <<decoded, lastDecoded, picture, bg>>
    BY <1>7 DEF Tick, TogglePause, playerVars, Held, decoderVars
  <2> QED BY <1>7, <2>1 DEF Decoding, Out
<1> QED BY <1>1, <1>2, <1>3, <1>4, <1>5, <1>6, <1>7 DEF PlayerNext, Background

(* What a Push and a Tick do to the frames that wait and to those shown.   *)
LEMMA PushStep ==
  ASSUME PlayerTypeOK, Decoding, Push, Out' = Out + Held
  PROVE  /\ shown' = shown /\ Len(frames') = Len(frames) + 1
         /\ \A j \in 1 .. Len(frames) : frames'[j] = frames[j]
         /\ frames'[Len(frames) + 1] = IF Held = 1 THEN Out' ELSE 0
<1>1. frames' = Append(frames, picture) /\ bg = "push" /\ shown' = shown
  BY DEF Push, viewVars
<1>2. frames \in Seq(Pictures) /\ picture \in Pictures
  BY DEF PlayerTypeOK
<1>3. picture = IF Held = 1 THEN Out' ELSE 0
  BY <1>1 DEF Held, Decoding
<1> QED BY <1>1, <1>2, <1>3, AppendProperties

LEMMA TickStep ==
  ASSUME PlayerTypeOK, Tick
  PROVE  /\ Len(frames) >= 1 /\ Len(frames') = Len(frames) - 1
         /\ \A j \in 1 .. Len(frames') : frames'[j] = frames[j + 1]
         /\ \/ shown' = shown /\ (isPaused \/ frames[1] = 0)
            \/ /\ ~isPaused /\ frames[1] # 0
               /\ Len(shown') = Len(shown) + 1
               /\ \A i \in 1 .. Len(shown) : shown'[i] = shown[i]
               /\ shown'[Len(shown) + 1] = frames[1]
<1>1. frames # << >> /\ frames' = Tail(frames)
  BY DEF Tick
<1>2. frames \in Seq(Pictures) /\ shown \in Seq(Pictures) /\ isPaused \in BOOLEAN
  BY DEF PlayerTypeOK
<1>3. /\ Len(frames) >= 1 /\ Len(frames') = Len(frames) - 1
      /\ \A j \in 1 .. Len(frames') : frames'[j] = frames[j + 1]
      /\ Head(frames) = frames[1] /\ Head(frames) \in Pictures
  BY <1>1, <1>2, HeadTailProperties, EmptySeq
<1>4. /\ Len(Append(shown, frames[1])) = Len(shown) + 1
      /\ \A i \in 1 .. Len(shown) : Append(shown, frames[1])[i] = shown[i]
      /\ Append(shown, frames[1])[Len(shown) + 1] = frames[1]
  BY <1>2, <1>3, AppendProperties
<1>5. CASE isPaused \/ frames[1] = 0
  <2>1. shown' = shown
    BY <1>3, <1>5 DEF Tick, OnDepthBuffer
  <2> QED BY <1>3, <1>5, <2>1
<1>6. CASE ~isPaused /\ frames[1] # 0
  <2>1. shown' = Append(shown, frames[1])
    BY <1>3, <1>6 DEF Tick, OnDepthBuffer
  <2> QED BY <1>3, <1>4, <1>6, <2>1
<1> QED BY <1>5, <1>6

LEMMA InOrderStep ==
  ASSUME PlayerTypeOK, PlayerTypeOK', Decoding, InOrder, [PlayerNext]_playerVars
  PROVE  InOrder'
<1>0. /\ Len(frames) \in Nat /\ Len(shown) \in Nat /\ Out \in Int /\ Held \in {0, 1}
      /\ \A i \in 1 .. Len(frames) : frames[i] \in Nat
      /\ \A i \in 1 .. Len(shown) : shown[i] \in Nat
      /\ 0 <= Out
  BY PipelineTypes DEF Decoding
<1>1. CASE Push
  <2>1. Out' = Out + Held
    BY <1>1, DecodingStep
  <2>2. /\ shown' = shown /\ Len(frames') = Len(frames) + 1
        /\ \A j \in 1 .. Len(frames) : frames'[j] = frames[j]
        /\ frames'[Len(frames) + 1] = IF Held = 1 THEN Out' ELSE 0
    BY <1>1, <2>1, PushStep
  <2>3. ASSUME NEW j \in 1 .. Len(frames') PROVE frames'[j] <= Out'
    <3>1. CASE j \in 1 .. Len(frames)
      <4>1. frames'[j] = frames[j] /\ frames[j] <= Out /\ frames[j] \in Nat
        BY <1>0, <2>2, <3>1 DEF InOrder
      <4> QED BY <1>0, <2>1, <4>1
    <3>2. CASE j = Len(frames) + 1
      BY <1>0, <2>1, <2>2, <3>2
    <3> QED BY <1>0, <2>2, <3>1, <3>2
  <2>4. ASSUME NEW j \in 1 .. Len(frames'), NEW k \in 1 .. Len(frames'), j < k,
               frames'[j] # 0, frames'[k] # 0
        PROVE  frames'[j] < frames'[k]
    BY <1>0, <2>1, <2>2, <2>4 DEF InOrder
  <2>5. ASSUME NEW i \in 1 .. Len(shown') PROVE shown'[i] <= Out'
    BY <1>0, <2>1, <2>2 DEF InOrder
  <2>6. ASSUME NEW i \in 1 .. Len(shown'), NEW j \in 1 .. Len(frames'), frames'[j] # 0
        PROVE  shown'[i] < frames'[j]
    BY <1>0, <2>1, <2>2, <2>6 DEF InOrder
  <2> QED BY <2>2, <2>3, <2>4, <2>5, <2>6 DEF InOrder
<1>2. CASE Tick /\ ~Push
  <2>1. Out' = Out
    BY <1>2, DecodingStep
  <2>2. /\ Len(frames) >= 1 /\ Len(frames') = Len(frames) - 1
        /\ \A j \in 1 .. Len(frames') : frames'[j] = frames[j + 1]
    BY <1>2, TickStep
  <2>3. ASSUME NEW j \in 1 .. Len(frames')
        PROVE  j + 1 \in 1 .. Len(frames) /\ frames'[j] = frames[j + 1]
    BY <1>0, <2>2
  <2>4. /\ \A j \in 1 .. Len(frames') : frames'[j] <= Out'
        /\ \A j, k \in 1 .. Len(frames') :
              j < k /\ frames'[j] # 0 /\ frames'[k] # 0 => frames'[j] < frames'[k]
    <3>1. ASSUME NEW j \in 1 .. Len(frames') PROVE frames'[j] <= Out'
      BY <2>1, <2>3 DEF InOrder
    <3>2. ASSUME NEW j \in 1 .. Len(frames'), NEW k \in 1 .. Len(frames'), j < k,
                 frames'[j] # 0, frames'[k] # 0
          PROVE  frames'[j] < frames'[k]
      <4>1. /\ j + 1 \in 1 .. Len(frames) /\ frames'[j] = frames[j + 1]
            /\ k + 1 \in 1 .. Len(frames) /\ frames'[k] = frames[k + 1]
        BY <2>3
      <4>2. j + 1 < k + 1
        BY <1>0, <2>2, <3>2
      <4> QED BY <3>2, <4>1, <4>2 DEF InOrder
    <3> QED BY <3>1, <3>2
  <2>5. CASE shown' = shown
    BY <2>1, <2>3, <2>4, <2>5 DEF InOrder
  <2>6. CASE /\ frames[1] # 0
             /\ Len(shown') = Len(shown) + 1
             /\ \A i \in 1 .. Len(shown) : shown'[i] = shown[i]
             /\ shown'[Len(shown) + 1] = frames[1]
    <3>1. 1 \in 1 .. Len(frames) /\ frames[1] <= Out
          /\ \A i \in 1 .. Len(shown) : shown[i] < frames[1]
      BY <1>0, <2>2, <2>6 DEF InOrder
    <3>2. \A i \in 1 .. Len(shown') : shown'[i] <= Out'
      BY <1>0, <2>1, <2>6, <3>1 DEF InOrder
    <3>3. ASSUME NEW i \in 1 .. Len(shown'), NEW j \in 1 .. Len(frames'), frames'[j] # 0
          PROVE  shown'[i] < frames'[j]
      <4>1. j + 1 \in 1 .. Len(frames) /\ frames'[j] = frames[j + 1] /\ 1 < j + 1
        BY <1>0, <2>2, <2>3
      <4>2. CASE i \in 1 .. Len(shown)
        BY <2>6, <3>3, <4>1, <4>2 DEF InOrder
      <4>3. CASE i = Len(shown) + 1
        BY <2>6, <3>1, <3>3, <4>1, <4>3 DEF InOrder
      <4> QED BY <1>0, <2>6, <4>2, <4>3
    <3>4. ASSUME NEW i \in 1 .. Len(shown'), NEW j \in 1 .. Len(shown'), i < j
          PROVE  shown'[i] < shown'[j]
      <4>1. i \in 1 .. Len(shown) /\ shown'[i] = shown[i]
        BY <1>0, <2>6, <3>4
      <4>2. CASE j \in 1 .. Len(shown)
        BY <2>6, <3>4, <4>1, <4>2 DEF InOrder
      <4>3. CASE j = Len(shown) + 1
        BY <2>6, <3>1, <4>1, <4>3
      <4> QED BY <1>0, <2>6, <4>2, <4>3
    <3> QED BY <2>4, <3>2, <3>3, <3>4 DEF InOrder
  <2> QED BY <1>2, <2>5, <2>6, TickStep
<1>3. CASE UNCHANGED <<frames, shown>> /\ ~Push
  <2>1. Out' = Out
    BY <1>3, DecodingStep
  <2> QED BY <1>3, <2>1 DEF InOrder
<1> QED BY <1>1, <1>2, <1>3
     DEF PlayerNext, Background, Initialize, StartTurn, Decode, TakePicture, MakePlayer,
         TogglePause, playerVars, viewVars

LEMMA NoneMissedStep ==
  ASSUME PlayerTypeOK, PlayerTypeOK', Decoding, InOrder, NoneMissed, [PlayerNext]_playerVars
  PROVE  NoneMissed'
<1> SUFFICES ASSUME ~everPaused' PROVE NoneMissed'
  BY DEF NoneMissed
<1>0. /\ Len(frames) \in Nat /\ Len(shown) \in Nat /\ Out \in Int /\ Held \in {0, 1}
      /\ \A i \in 1 .. Len(frames) : frames[i] \in Nat
      /\ \A i \in 1 .. Len(shown) : shown[i] \in Nat
  BY PipelineTypes
<1>1. CASE Push
  <2>1. Out' = Out + Held
    BY <1>1, DecodingStep
  <2>2. /\ shown' = shown /\ Len(frames') = Len(frames) + 1
        /\ \A j \in 1 .. Len(frames) : frames'[j] = frames[j]
        /\ frames'[Len(frames) + 1] = IF Held = 1 THEN Out' ELSE 0
    BY <1>1, <2>1, PushStep
  <2>3. ~everPaused /\ isPaused' = isPaused
    BY <1>1 DEF Push, viewVars
  <2>4. ASSUME NEW p \in Len(shown') + 1 .. Out'
        PROVE  \E j \in 1 .. Len(frames') : frames'[j] = p
    <3>1. CASE p = Out' /\ Held = 1
      <4>1. Len(frames) + 1 \in 1 .. Len(frames') /\ frames'[Len(frames) + 1] = p
        BY <1>0, <2>2, <3>1
      <4> QED BY <4>1
    <3>2. CASE p \in Len(shown) + 1 .. Out
      <4>1. PICK j \in 1 .. Len(frames) : frames[j] = p
        BY <2>3, <3>2 DEF NoneMissed
      <4>2. j \in 1 .. Len(frames') /\ frames'[j] = p
        BY <1>0, <2>2, <4>1
      <4> QED BY <4>2
    <3> QED BY <1>0, <2>1, <2>2, <3>1, <3>2
  <2> QED BY <2>2, <2>3, <2>4 DEF NoneMissed
<1>2. CASE Tick /\ ~Push
  <2>1. Out' = Out /\ ~everPaused /\ ~isPaused /\ ~isPaused'
    BY <1>2, DecodingStep DEF Tick, NoneMissed
  <2>2. /\ Len(frames) >= 1 /\ Len(frames') = Len(frames) - 1
        /\ \A j \in 1 .. Len(frames') : frames'[j] = frames[j + 1]
    BY <1>2, TickStep
  <2>3. ASSUME NEW p \in Len(shown) + 1 .. Out, p # frames[1]
        PROVE  \E j \in 1 .. Len(frames') : frames'[j] = p
    <3>1. PICK k \in 1 .. Len(frames) : frames[k] = p
      BY <2>1 DEF NoneMissed
    <3>2. k - 1 \in 1 .. Len(frames') /\ frames'[k - 1] = frames[(k - 1) + 1]
      BY <1>0, <2>2, <2>3, <3>1
    <3>3. (k - 1) + 1 = k
      OBVIOUS
    <3> QED BY <3>1, <3>2, <3>3
  <2>4. CASE shown' = shown /\ frames[1] = 0
    <3>1. \A p \in Len(shown) + 1 .. Out : p # frames[1]
      BY <1>0, <2>4
    <3> QED BY <2>1, <2>3, <2>4, <3>1 DEF NoneMissed
  <2>5. CASE /\ frames[1] # 0
             /\ Len(shown') = Len(shown) + 1
             /\ \A i \in 1 .. Len(shown) : shown'[i] = shown[i]
             /\ shown'[Len(shown) + 1] = frames[1]
    <3> DEFINE n == Len(shown) + 1
    <3>1. /\ 1 \in 1 .. Len(frames) /\ frames[1] \in Nat /\ frames[1] <= Out
          /\ \A k \in 1 .. Len(frames) : k # 1 /\ frames[k] # 0 => frames[1] < frames[k]
      BY <1>0, <2>2, <2>5 DEF InOrder
    <3>2. frames[1] >= n
      <4>1. CASE Len(shown) = 0
        BY <2>5, <3>1, <4>1
      <4>2. CASE Len(shown) >= 1
        <5>1. Len(shown) \in 1 .. Len(shown)
          BY <1>0, <4>2
        <5>2. shown[Len(shown)] = Len(shown) /\ shown[Len(shown)] < frames[1]
          BY <2>1, <2>5, <3>1, <5>1 DEF NoneMissed, InOrder
        <5> QED BY <1>0, <3>1, <5>2
      <4> QED BY <1>0, <4>1, <4>2
    <3>3. frames[1] = n
      <4>1. SUFFICES ASSUME frames[1] > n PROVE FALSE
        BY <1>0, <3>1, <3>2
      <4>2. n \in Len(shown) + 1 .. Out
        BY <1>0, <3>1, <4>1
      <4>3. PICK k \in 1 .. Len(frames) : frames[k] = n
        BY <2>1, <4>2 DEF NoneMissed
      <4>4. k # 1 /\ frames[k] # 0
        BY <1>0, <4>1, <4>3, <3>1
      <4> QED BY <1>0, <3>1, <4>1, <4>3, <4>4
    <3>4. \A i \in 1 .. Len(shown') : shown'[i] = i
      BY <1>0, <2>1, <2>5, <3>3 DEF NoneMissed
    <3>5. \A p \in Len(shown') + 1 .. Out : p \in Len(shown) + 1 .. Out /\ p # frames[1]
      BY <1>0, <2>5, <3>3
    <3> QED BY <2>1, <2>3, <3>4, <3>5 DEF NoneMissed
  <2> QED BY <1>2, <2>1, <2>4, <2>5, TickStep
<1>3. CASE UNCHANGED <<frames, shown, isPaused, everPaused>> /\ ~Push
  <2>1. Out' = Out
    BY <1>3, DecodingStep
  <2> QED BY <1>3, <2>1 DEF NoneMissed
<1> QED BY <1>1, <1>2, <1>3
     DEF PlayerNext, Background, Initialize, StartTurn, Decode, TakePicture, MakePlayer,
         TogglePause, playerVars, viewVars

(* However many pictures a packet yields, whichever reads fail in between  *)
(* and whenever Tick runs, World shows pictures in the order of decoding,  *)
(* and all of them if it is never paused.                                  *)
THEOREM PicturesAreShownInOrder == PlayerSpec => []ShownInOrder
<1>1. PlayerTypeOK /\ PipelineInv => ShownInOrder
  <2>1. PlayerTypeOK => DOMAIN shown = 1 .. Len(shown)
    BY LenProperties DEF PlayerTypeOK
  <2> QED BY <2>1 DEF PipelineInv, InOrder, NoneMissed, ShownInOrder
<1>2. PlayerTypeOK /\ PlayerTypeOK' /\ PipelineInv /\ [PlayerNext]_playerVars => PipelineInv'
  BY DecodingStep, InOrderStep, NoneMissedStep DEF PipelineInv
<1> QED BY <1>1, <1>2, InitType, StepType, InitPipeline, PTL DEF PlayerSpec
=============================================================================
