# sqwar: a verification development

TLA+ models of sqwar, with model checking (TLC) and machine-checked proofs
(TLAPS). sqwar records depth video and face meshes from an iPhone's camera,
streams them, and plays them back on Windows or on the phone. `PROJECT.json`
lists the components, the runs, the source lines of every definition, the
hazards and the theorems.

## 1. The system

The program's own code is `src/core`, `src/win/map.cpp`, `src/ios/main.mm`,
`src/ios/entry.cpp` and `src/mdns/mdns.c`. Everything else (asio, cppcoro, gmtl,
imgui, kdtree++, the bgfx examples under `src/ios`) is vendored.

| Part | State | Operations | Interacts with |
|---|---|---|---|
| Recorder (`core/Record.cpp`) | two queues, `m_hasFrames`, `m_terminate`, header values, face.bin, encoder | StartRecording, StopRecording, WriteFrame, WriteFaceFrame, constructor and destructor, background thread | called by Application; calls FFmpeg |
| Application (`core/Application.cpp`) | `m_isrecording`, `m_wasrecording`, `m_documentsPath`, `m_player`, `sStartTime` | OnDepthBuffer, OnFaceData, Initialize, Tick, Draw, destructor | camera callbacks, Recorder, Player, World, Engine |
| Network (`core/Network.cpp`) | the connection, `m_pCurPacket`, io_context | TcpClient::Send, TcpSession handlers, Server start and stop, Client | asio, mDNS, Application |
| File playback (`win/map.cpp`) | frame lists, indices, clock | ReadAllBlocks, Tick, message loop | Application's callbacks |
| Player (`core/Player.cpp`) | `m_frames`, its thread | GetNextFrame, BackgroundThread, Initialize | Application::Tick, FFmpeg |
| World and visuals (`core/World.cpp`, `FaceVis`, `PlanesVis`, `PtsVis`) | mode, visuals, pause, velocity, camera | OnDepthBuffer, OnFaceData, Update, touch and keys | camera callbacks, rendering |
| mDNS (`mdns/mdns.c`) | static buffers, terminate flag | service_with_hostname, send_mdns_query, mdns_shutdown | Server, Client |
| Depth codec (`core/DepthPts.cpp`) | none | ConvertDepthToYUV, ConvertYUVToDepth, levels of detail | Recorder, Player, World |
| Engine, scene, meshes; planes, alignment | matrices, meshes, animations | drawing, geometry | World |

**Threads.** On iOS the camera callbacks run on the main queue, `Initialize`,
`Tick` and `Draw` on bgfx's thread. On Windows one thread plays a file back,
calls the same callbacks and draws. Recorder, Player, TCP server and mDNS service
each have a thread of their own, and nothing but the Recorder's and Player's
queues is locked.

**What is hard**, and what has to hold because of it:

- *Recorder*: callers push while the thread swaps and works, `m_hasFrames` is not
  initialised and never reset, the destructor does not notify. No frame may be
  lost, repeated or reordered, no wake-up lost, the file's header must match its
  content.
- *Application*: the record button is a plain bool read three times in a callback.
  A recording must start with a frame and end with a stop marker, in the
  documents directory.
- *Network*: TCP is a byte stream; the framing relies on a reply per write, but
  replies are per read.
- *File playback*: two lists on one clock, and one of them is changed while it is
  shown.
- *Depth codec*: the decoder has to work out again which pixels the encoder let share
  a fraction; the levels are one vector without checked bounds. Depths must keep
  their step and order, and holes must get a depth from as near as there is one.
- *Player*: its thread pushes a frame per turn, read or not, to a queue from which
  Tick takes one; a read that fails may leave pictures behind for the next. Pictures
  must be shown in order, once.
- *World*: Update replaces the visuals while callbacks use them; FaceVis copies in two
  goes; two threads both find `sStartTime` negative. Faces must be drawn with their
  own indices, stamps must go forward.
- *Server, mDNS*: threads are started before the member they copy exists, `stop` may
  come before `run`, closed sessions go on for ever, accepts may fail. The destructor must return and
  leave nothing behind, no failure may end the acceptor, and no session may keep another
  from its turn.
- *Input*: keys and buttons are released where the window cannot see it; a velocity is
  shared by two keys; touches are compared once per frame. Nothing may go on moving
  or turning by itself.

## 2. The modules

| Module | Models | Of |
|---|---|---|
| `FrameStream` | the abstract specification: a stream that accepts entries and delivers them once, in order | what the Recorder's and the Player's queues promise |
| `Recorder` | every call and step of the Recorder | `core/Record.cpp` |
| `Capture` (EXTENDS `Recorder`) | Application driving its Recorder, for both platforms | `core/Application.cpp`, `win/map.cpp`, `ios/main.mm`, `ios/entry.cpp` |
| `TcpFraming` | one connection, both ends | `core/Network.cpp` |
| `PlayerStream` | the Player, its decoder's buffer, Tick and pause | `core/Player.cpp`, `core/FFmpeg.cpp`, `core/Application.cpp`, `core/World.cpp` |
| `WorldVis` | the visuals, the mode, and `sStartTime`, on iOS's two threads | `core/World.cpp`, `core/FaceVis.cpp`, `core/Application.cpp` |
| `ServerLife` | constructor, threads, sessions and destructor of Server, and Client's query | `core/Network.cpp`, `mdns/mdns.c` |
| `Input` | keys, mouse and touches up to the camera | `win/map.cpp`, `ios/main.mm`, `ios/entry.cpp`, `core/Application.cpp`, `core/World.cpp` |
| `FilePlayback` | Tick's playback and the stamps Application makes of it | `win/map.cpp`, `core/Application.cpp` |
| `DepthCodec` | one square of four depths to Y, U and V and back | `core/DepthPts.cpp` |
| `DepthLods` | the levels of detail, and the holes filled from them | `core/DepthPts.cpp` |
| `MC...` | constants and symmetry for TLC | |
| `RecorderProofs`, `CaptureProofs`, `FilePlaybackProofs`, `WorldProofs` (of `WorldVis` and `Input`), `PlayerStreamProofs`, `ServerLifeProofs`, `DepthProofs` (of `DepthCodec` and `DepthLods`), `TcpFramingProofs` | theorems | |

Definitions that begin with the words "Mutant of" in their comment are variants of
an operation with a plausible mistake. No specification uses them: they show that
each property can be broken by a change of the code it is about.

### Recorder

A call does all its work under `m_hasFramesMtx`, so it is one step. The background
thread holds the mutex from the swap to the end of the batch (`MutexFree`), but
reads `m_terminate` and writes the two atomic counters without regard to it; it
takes one step per frame. `bg` says where it is: `test` (the while condition),
`lock` and `asleep` (the wait), `batch`, `done`, and `fault` for the `memcpy` from
the null `data()` of a stop marker. `m_hasFrames` starts with any value. The
condition variable may wake spuriously. A depth frame is a model value; packing
it to YUV and encoding it is "the frame is handed on". `streammode` is a constant
of the model, because the code keeps both branches behind the global; as built it
is TRUE. `m_hasHeaderDepthVals` is `depthVals # None`.

Not in the model: exceptions, a full disk, the data race on `m_terminate` beyond
the thread seeing it at its next test, and on `m_outputPath`, which StartRecording
writes without the mutex.

### Capture

`OnDepthBufferInst` reads `m_isrecording` three times (edge test, write,
remember); these are three steps (`OnDepthBuffer`, `DepthWrite`, `DepthEnd`), so
that Draw, on its thread, can flip it in between. `OnFaceDataInst` has two reads
and does not remember. `cb` is the callback under way, `ui` what the other thread
does next. On Windows `Arrives` puts the callbacks in Tick's place in the single
thread. `Initialize` has two steps, because a callback may read
`m_documentsPath` while it is assigned; what it then reads is any path. `torn` and
`early` are history variables: they say that a flip fell in a depth callback, that
a recording began before Initialize was through. At the end of the Windows process
the members of `Application` are destroyed in reverse order: if a Player exists its
`std::thread` is joinable and the process aborts (`ExitAborts`), else the Recorder
is joined (`ExitJoins`).

### TcpFraming

A byte is its position on the wire. `Read(n)` returns any number of the bytes
written and not yet read, up to `MaxRead`; `ReadReply` any part of the replies.
`NewPacket` and `FillPacket` are the two halves of the loop in `do_read`, with the
header and the bytes always taken from the beginning of the buffer (`Base`), as in
the code. `GoWild` is where the code takes bytes for a length that are not one,
or subtracts the header size from less than that; nothing is said of what follows.
`StopServer` is `io_context::stop`. Exceptions of `asio::write` end the Send
(`WriteThrows`); the error code of `read_some` is ignored (`ReadError`).

Not in the model: a client that closes its end, a second client, and connecting.

### FilePlayback

One Tick is one step: everything is on one thread. `CaughtUp` is the while loop on
an index, `ShowDepth` and `ShowFace` the two calls of Application with the
subtraction of `sStartTime`, `Advance` the clock and the wrap-around. A file is two
sorted, nonempty lists of stamps (`Read`), which is what `ReadAllBlocks` and its two
sorts leave. Time is in integers; the sums of `1 / 60.0f` in the code are not exact,
but every statement here is about comparisons with the clock as it is.

### DepthCodec and DepthLods

The two halves of `ConvertDepthToYUV`. In `DepthCodec` a depth is counted in parts of
a step of Y and the arithmetic is exact; a square is coded (`Encode`) and decoded
(`Decode`), and squares do not depend on each other. What `(uint8_t)sv` gives for a
value that does not fit is any byte. Rounding of floats is not modelled: statements
are about which pixels share which fraction, within a level. The two sums the code adds up
and the two counts are `SumOver`, over the four pixels.

In `DepthLods` a depth is the set of pixels it was averaged from, so that two depths are
the same exactly if they come from the same place. `BuildLevel` is one turn of the loop
in `DepthBuildLods`, `EndBuild` its end, `FillLevel` and `FillData` the calls of
`DepthFillEmpty`. The levels lie in one vector and are read by index, so that a read
past the end of a level finds the next one. A read past the last one finds `Garbage`: a
NaN, an infinity or some number, one for each hole filled from there (`FilledBehind`);
`behind` is a history of what was found.
Sizes and coordinates are halved as often as the code halves them (`Shifted`), and a
level begins where the code's running size stands (`Offset`). Depths of 0 (whose inverse
is infinite) are not modelled, and neither are pictures narrower than 16, for which the
loop bound underflows.

### WorldVis

On iOS a callback and Tick or Draw run at the same time, so every read or write of a
shared member is a step of its own: `cam` says where the callback is, `draw` where
bgfx's thread is. A visual is a number, so that one that was dropped and remade
under the same name is another (`Alive`). The callback tests the pointer
(`TestVisual`) and reads it again for the call (`ReadVisual`); what it has read may
be gone when it is used (`UseDropped`), and then the process may also survive.
`Drop` and `Make` are the assignments of Update, one by one, because the null
pointers in between are what a callback may find. `FaceVis::Draw` has five steps
(`DrawEmpty` to `CopyIndices`): the copy of the indices is made after the lock
is released. `starts` and `torn` are histories. On Windows all of this is
one thread. Not in the model: pause (it is in `PlayerStream`), the contents of
PlanesVis and PtsVis, and the camera frame's transforms.

### PlayerStream

The background thread has a step for each of: opening (`Initialize`), the head of a
turn, a packet read and decoded, a picture taken, the push. A picture is the number
it was decoded as and 0 is none, which is a `vidData` that was never filled. `Decode`
with an error ends the read after some pictures, which then wait in
`m_decodedFrames`. Tick takes at most one frame; `TogglePause` is the key P on the
same thread. Undefined behaviour (a size not read from face.bin, the 16 values that
are not there) may end the process (`dead`) or not; writing through the null
`vidData` ends it. The branch for files is not reachable, because Initialize never
makes its reader, and the destructor of a started Player is in `Capture`.

### ServerLife

Main starts both threads before it constructs `m_onData`, and a TCP thread that copies it
before copies an object that is none, which may end the process then (`CopyOnData`) or when
the copy is called (`HandleRead`). `ready` is asio's queue of handlers of completed
operations: one io_context, one thread, in the order of completion. A completed accept may
be a failure (`AcceptFails`, with the peer `Nobody`; with or without a connection that is
given up by it), and `HandleAccept` is both branches of `if (!ec)`. A session reads again
after any result, also after an error, so that its handler runs for ever once the peer has
closed. A peer that closes leaves what it sent to be read; one that is cut off (`Reset`)
does not, and if it was not accepted yet, asio passes over it (`AcceptAborted`) or the
accept fails. What is sent is counted in pieces, of which a read takes one or several:
what a session makes of packets cut or joined is in `TcpFraming`, and `dead` also stands
for a session that has misread one, after which its loop may do anything. `stopped` may be
set before the thread calls `run`. `wsa` counts the WSAStartups of the two threads; asio
has one of its own, made with `m_iocontext`, so the query does not depend on theirs. It may
fail to open its sockets (`OpenQuery`), which leaves the count of addresses unset, and
writes answers beyond its array (`Answer`, with `Capacity`). Not in the model: what mDNS
packets say, their static buffers, exceptions other than that of a port in use, the
replies, and a second Server (`terminate` is never cleared, so its service would end at
once).

### Input

Both platforms in one module, with the platform chosen at the start: what is common is
Application's KeyDown, KeyUp and touches. On Windows a message is handled at once; a
key released while another window has the focus, and a button released outside, give
none (`missed`, `lost` are histories of that). On iOS the callbacks of the view only
change `mouse`, and `UpdateIos` compares it with the frame before, so a press and a
release between two frames are one change or none. The camera turns on one axis;
the other is the same code. The position the velocity adds up to is left out.

## 3. The runs

| Run | Checks | Bounds | States |
|---|---|---|---|
| `recorder` | NothingLost, NoLostWakeup, HeaderOfFirstFrame, CountersAgree, ImplementsFrameStream | 2 depth and 2 face frames (symmetric), 4 pushes of depth frames and stop markers, 1 face, streammode | 10,120 |
| `recorder_file` | FaceFileComplete, EveryFrameHandled, DestructorReturns | 1 depth frame, 2 faces, 2 and 3 pushes, face.bin, fairness | 19,932 |
| `capture_ios` | FaultOnlyIfTorn, RecordingEnds, FileUnderDocuments | 4 depth pushes, 1 face, 2 paths | 225,970 |
| `capture_windows` | JoinOnlyUnused | 3 depth pushes, 2 faces | 5,404 |
| `tcp_framing` | TcpTypeOK, Faithful, StopAndWait, SentIsDelivered, FirstPacketIntact, SendReturns | 3 packets of 0, 1 or 5 bytes; header, chunk and reply of 2; reads of up to 7 | 463,031 |
| `file_playback` | PlaybackTypeOK, DepthOnShow, FaceOnShow, NoFalseStop, DepthGoesForward | all files of 1 to 3 frames of each kind with stamps 0 to 5, a Tick of 2, three rounds | 59,545 |
| `depth_codec` | StepSurvives, FractionIsOwn, OrderSurvives | all squares of holes and depths up to 5 steps of 3 parts, Y up to 3, 4 levels of U and V | 846,786 |
| `depth_lods` | FilledFromNearest, HolesFromBehindOnly | 2 by 2 up to 8 by 8, no level narrower than 2, up to 2, 3 or 4 pixels measured, 3 kinds of garbage | 58,207 |
| `world_vis` | FaultNeedsButton, FaceDrawn, StampsForward | 3 camera frames from time 3 on, a tolerance of 2, 2 presses of the mode button | 598,663 |
| `player_stream` | ShownInOrder, ImplementsFrameStream, EveryFrameTaken | 5 turns, 4 pictures, up to 3 for a packet, fairness | 23,896 |
| `server_life` | NoneLeft, OneOperationEach, ServerDestructorReturns, EveryPieceIsRead | 2 peers, 2 pieces of one, 1 failing accept, an array of 1 for 2 answers, fairness | 237,181 |
| `input` | VelocityOfHeldKeys, DragOfLastPress | one axis with two keys, 2 fingers, places 2 and 4 in windows 1 and 2 wide, turns up to 8 | 234,896 |

**Why the bounds are enough.** Recorder: the interesting cases are a push before,
during and after a batch, a batch of more than one entry, and a stop marker first,
in the middle and last; four pushes give all of them. Capture: a recording that
starts, stops and starts again, with the flip at every place in a callback.
TcpFraming: a packet of 5 with chunks of 2 has full chunks and a last shorter one;
7 bytes in a read hold a header and a whole packet, or the end of one and the
header of the next; replies of 2 can be read in halves. FilePlayback: stamps that
are equal, closer than a Tick and further apart, at, before and after the end of
the clock; frames never reached; the third round meets stamps that were changed
twice. DepthCodec: three codable steps, so that U and V can both be shared by
several pixels and V by different steps, one step that is coded as a hole and one
that does not fit. DepthLods: 8 by 8 has two built levels and one that is not; 4 by 6
comes to a level of odd height as 640 by 480 does (20 by 15), 6 by 4 and 10 by 4 to
odd widths, 10 by 4 to a level of no height; with few pixels measured, holes are
filled from every level, and at odd sizes from behind the vector. WorldVis: three camera frames let a face be
stored, drawn and replaced while it is drawn; two presses drop visuals, make them
again and drop them once more under a callback that waits. PlayerStream: a packet of
three pictures of which one is taken and two wait over a failed read; five turns
with Tick behind. ServerLife: one peer that closes and spins, or is cut off,
while the other connects and sends; its two pieces may be sent before or after the accept
and read one by one or together; an accept may fail before, between and after the two.
Input: both
keys of one axis, a second finger that ends while the first stays, a drag across a
resize. The bounds `MaxTime`, `MaxPresses`, `MaxPerPacket`, `MaxDecoded`, `MaxTurns`,
`MaxAnswers`, `MaxPieces`, `MaxFailures`, `MaxTurn`, `MaxDepth`, `MaxFace`, `MaxPackets`, `MaxFrames`, `MaxWraps` stand
in guards and are the only limits that are not the code's.

Deadlock is checked in `input`. It is not in the others: the bounds let the system stop, the
Recorder's thread may wait for ever, a fault or an abort ends the process.

**What the runs show.**

- The Recorder's queue is right: it implements `FrameStream`. Frames still queued
  when the destructor runs are not handled (`EveryFrameHandled` excludes
  `terminate`), and the destructor returns for certain only if something was ever
  pushed (`DestructorReturns`). Without a push, and with `m_hasFrames` false by
  chance, it never does.
- The counters of the Hud differ for ever by the number of faces (`CountersAgree`).
- The null read at `Record.cpp:54` needs the button to be flipped inside a depth
  callback (`FaultOnlyIfTorn`), and so does a recording without a stop marker
  (`RecordingEnds`). With `torn` dropped from either, TLC finds the interleaving.
- face.bin goes astray when a callback comes before Initialize is through, or after
  a torn callback (`FileUnderDocuments`).
- The Recorder is never destroyed in order after use on Windows
  (`JoinOnlyUnused`): the Player's thread aborts the process first.
- The TCP framing is right as long as TCP gives a read that is one header or part
  of one packet (`Faithful`), and the replies bring that about as long as nothing
  is cut (`StopAndWait`, `SentIsDelivered`). Once a read is cut, the replies run
  ahead and the writes are no longer kept apart.
- Playback shows the depth frame that is due (`DepthOnShow`), except that a later
  round never shows its first frame again unless it catches up over it. Faces are
  on time in the first round; after it they come early, because
  `OnFaceDataInst` has subtracted the start time from the recorded stamps once for
  each time they were shown (`FaceOnShow`). The last frame of a file is shown
  only if the clock hits its stamp exactly or another frame is later.
- The codec keeps the step of every depth in range, and the order of the depths of a
  square, whatever is next to them (`StepSurvives`, `OrderSurvives`). A fraction is
  the pixel's own or of pixels it shared with (`FractionIsOwn`), unless the first
  depth of the square is one step too far: it is coded as a hole, the encoder keeps U
  for it and the decoder gives U to others. With that condition dropped TLC finds
  such a square.
- Holes are filled from the smallest block in which something was measured
  (`FilledFromNearest`); what no level reaches becomes depth 0, from a level that was made
  room for and never built. Where a size does not halve evenly down to that level, holes at
  the lower or right edge get the depth of another place, or what lies behind the vector.
  Of 640 by 480 that is the 32 lowest rows, since 20 by 15 halves to 10 by 7. Only such a
  read can leave a hole, or make a pixel infinite, and only with nothing measured around it
  (`HolesFromBehindOnly`); 640 by 512 halves evenly and reads nothing from there.
- A callback uses a visual that was dropped only once the mode button has been pressed
  (`FaultNeedsButton`): the first Update finds nothing to drop. After a press it can
  happen. Tick and a callback may both set `sStartTime`, and still the
  stamps of depth frames go forward (`StampsForward`), because the second to set it
  comes before its own frame is stamped.
- On iOS a face is drawn only if both threads set `sStartTime` (`FaceDrawn`): Tick is
  given a device time of 0, and a face's stamp is never near it unless that race
  happens. When it is drawn, the indices are its own unless a face was stored between
  the two copies.
- The Player's queue implements `FrameStream`, pictures come in order and once
  (`ShownInOrder`), and Tick takes all that was pushed (`EveryFrameTaken`). A
  frame of a failed read ends the process unless the playback is paused.
- Server's destructor returns wherever it meets its threads (`ServerDestructorReturns`), and
  then both have ended and each WSAStartup has its WSACleanup (`NoneLeft`). Sessions
  that spin take turns with the others, and failing accepts stop nobody who comes later:
  what a peer that is not cut off has sent is read (`EveryPieceIsRead`). The acceptor's
  socket and each session's buffer are used by one operation at a time and are never
  without one, whichever accepts and reads fail (`OneOperationEach`). A peer that has
  connected is in one place, unless it was cut off, or given up by a failed accept, before
  it was accepted.
- The camera moves along an axis only for a key that is down or was released where the
  window could not see it (`VelocityOfHeldKeys`); the other direction does not hold: KeyUp
  stops the axis whichever of its keys is still down. A drag outlives its button only
  after a release outside the window (`DragOfLastPress`).

**Fairness.** `FairRecSpec`: the background thread goes on whenever it can, which the
scheduler gives; callers hold the mutex only within one call, so the thread is not
kept out for ever; the join returns once the thread is done. Nothing is assumed
of the callers, and spurious wake-ups are not assumed to come. `FairTcpSpec`: a Send
that is under way goes on when it can, and the session's handler runs when bytes
have come, while the server is not stopped; nobody need call Send. `FairPlayerSpec`:
Application is ticked as long as the process lives, which is its message loop; nothing
is assumed of the background thread. `FairServerSpec`: both threads and the destructor go on
when they can, select times out after a second, and the system reports an operation
that can complete; nothing is assumed of peers, the query or failures, except that
accepts do not fail for ever (`MaxFailures`). One condition
for all of `TcpThread` is enough, since a single thread runs the handlers in order;
each session's completion has its own.

## 4. The proofs

All theorems hold for every value of the constants that meets the named assumptions
`RecorderAssumption`, `CaptureAssumption`, `PlaybackAssumption`, `WorldAssumption`,
`PlayerAssumption`, `ServerAssumption`, `InputAssumption`, `FramingAssumption`,
`CodecAssumption` and `LodsAssumption`: any sets of frames, faces, paths, stamps, peers,
keys, fingers, places and lengths of packets, any bounds, any sizes of header, chunk,
reply and buffer, pictures of any size, any depths and any number of steps and levels,
either value of streammode, either platform. `LodsAssumption` asks for a picture at
least as wide as the narrowest level (16): below, a loop bound of the code underflows.
`WorldAssumption` says that the device's clock is past the tolerance at the first camera
frame; it counts from when the device was started.

*Recorder* (`RecorderProofs`). `NothingLost` is not inductive alone: when the batch
is swapped out the local vectors must be empty, which the loop has seen to.
`StreamInv` adds that (`BatchEmpty`: outside the batch there is no batch) and the
types. From it come `TypeCorrect`, `NothingIsLost` and
`RecorderImplementsFrameStream`, whose steps map every push to Accept, every handled
entry to Deliver and the rest to stuttering. `HeaderIsOfFirstFrame` adds that
header values are there as soon as an entry has been handled. `CountersAlwaysAgree`
rests on two lemmas about the set of waiting frames: a push adds one element, a
handled frame removes one. `NoLostWakeup` is inductive as it is. `FaceFileIsComplete`
needs `FaceInv`: the faces in hand and those in the queue are, by their places, the last
ones of all that were pushed (`FacesTaken`, `FacesWaiting`), and the file is begun exactly
when `m_writeFaceHeader` is set (`FileBegun`).

*Capture* (`CaptureProofs`). `CaptureDrivesRecorder` shows that each step of the
composition is a step of the Recorder or leaves it alone, so that all theorems on
the Recorder hold for the application (`CapturedFramesNotLost`). `ButtonInv` is the
strengthening for the other two: as long as no flip fell in a depth callback, a
remembered "recording" means a frame was pushed, and a remembered "not recording"
that the last entry is a stop marker, with the places inside a callback spelled
out. `FaultNeedsTear` and `RecordingsEnd` follow. `FilesUnderDocuments` says (`PathInv`)
that the directory is set as soon as a frame was pushed or is about to be, and takes from
`FaceInv` that the file is opened only after a frame was handled. `JoinsOnlyUnused` needs
the order of the one thread on Windows (`OneThread`): before the first Tick is through
nothing is pushed, and after it there is a Player.

*FilePlayback* (`FilePlaybackProofs`). One invariant, `PlaybackInv`: all frames up to
the index are due; what is on show is the frame at the index if it was shown in
this round, else the index is the first; Application's start time is the first depth
stamp; the stamps of faces only shrink, and those still to be shown in the first
round are as they were read. From it `DepthIsOnShow`, `FacesNeverLate`,
`NoStopInFile`, `EncoderGoesForward` and the types. `CaughtUp` is a relation between
the index before and after the loop, so no induction over the list is needed.

*WorldVis* (`WorldProofs`). `StampsGoForward` needs how often `sStartTime` can be set:
once by the callback that found it negative and once by Tick, and by the callback
never after a depth frame was stamped. `FacesDrawn` rests on that and on where the
device time then is: with one setting, a stamp and the device time are further apart
than the tolerance. `NoFaultWithoutButton`: without a press the mode seen by Update
stays the one it was, so pointers go from null to a visual and never back.

*PlayerStream* (`PlayerStreamProofs`). `PlayerImplementsFrameStream` maps Push to Accept,
Tick to Deliver, the rest to stuttering, over the invariant that what was pushed is what
was taken followed by what waits. For `PicturesAreShownInOrder` the pictures not yet
shown (in the queue, in hand, in `m_decodedFrames`) are followed through, in this order,
each list increasing and below the next.

*ServerLife* (`ServerLifeProofs`). `NothingIsLeft` from the count of WSAStartups as the
sum of those of the two threads, and from where main can be past each join; the types
(`ServerTypeCorrect`) from the same, as `wsa` never falls below 0. For
`OperationsOneByOne` the property is inductive but for what precedes `run` (nothing is
begun then, so that `CopyOnData` begins the first accept). `ready` is split into the queue
of its peers (`CompletedOf`), which like the backlog only ever takes who is not in it and
loses its first (`AppendedOnce`, `FirstTaken`); so a handler moves its peer from one
place to the next. A failed accept is nobody's, and there is at most one, since while an
accept is under way no other is in `ready` (`AcceptAppended`).

*Input* (`WorldProofs`). `KeysInv`: a velocity is that of one of the keys in `keystate`,
and `keystate` only has keys that are held or missed. `DragInv` adds to the property
where the mouse state of the frame before can be.

*TcpFraming* (`TcpFramingProofs`). `BaseInv` has the types and where the packets lie:
one after the other on the wire, the client within the last or through with it
(`WireInv`). `FramingIsFaithful` adds `CleanInv`: while each read was a header or bytes
of one packet, the session is within the packet after those it handed on (`Within`: it
holds the first bytes of that packet and stands right behind them) or between two
(`Between`), and a read is used up at once except by an empty packet, which leaves the
next header for its second turn. That a header is then taken for a header, and bytes for
bytes of the right packet, comes from packets being apart on the wire.
`FirstIsIntact` needs none of this for later reads: `FirstInv` follows the first packet
alone. `RepliesKeepReadsApart` adds `WaitInv`: after a write either the write or its
answer is under way, never both, and a chunk begins a multiple of the chunk size into its
packet, so that a whole write is a header or bytes of one packet (`WholeRead`, by the
lemma `NextMultiple`). `SentIsAtOnData` then follows from the positions alone: everything
written is read, and the session stands at the end of the last packet, or at its header
if it is empty.

*DepthCodec* (`DepthProofs`). `CodecInv` says that the code is what `Encode` computes of
the square and what comes back what `Decode` computes of the code. The rest is
arithmetic. `MeanIsBetween`: an average lies, within a level, between two of the values it
was taken over, and is less than the largest byte; so what comes back is the step of Y
and less than a step more (`BackOfSeen`, `StepOfSeen`), which gives `StepsSurvive`, and
with it `OrderIsKept`, as two pixels with the same Y always share. For `FractionsAreOwn`
the pixels the decoder takes for measured are a subset of those that were, with the same
first one, and so it finds the same ones sharing U.

*DepthLods* (`DepthProofs`). `LodsInv` follows the vector level by level. While the levels
are built, each place of a built level holds the average of its block (`BuiltLevel`: the
set of the pixels measured in it), and what lies behind them zeros. While they are filled,
the levels not yet reached are as built, and each level that was filled holds, at the
place of each pixel whose block there lies in the picture, the average of the first block
from this level on in which anything was measured, or depth 0 (`FilledLevel`); and from there to the end of
the vector nothing is without a depth, or infinite, unless just that was found behind it
(`IsAccounted`, `FillIsAccounted`). `HolesOnlyFromBehind` is that, with `NothingBehind`: a
level that halves evenly is filled from within the vector. This needs where the levels lie:
one behind the other, each with a place for each of its rows and columns (`PlaceIs`,
`PlaceOf`, `LevelPlace`); that a block is made of four (`BlockOfFour`, `AverageIs`); and
that with a block all smaller ones around the pixel lie in the picture (`SmallerBlocks`),
so that the reads past the end of a level concern only pixels of which nothing is said.
Halving a size k times (`Shifted`) and the places of the levels (`Offset`) are recursive
functions, so what they compute is proved first, by an induction over a set of numbers
instead of a predicate: a set of naturals that holds 0 and with every number the next is
all of them (`AllNaturals`, from the library's well-foundedness of `<`), and so a function
that begins with a number and goes on with a given step exists (`RecursiveFunction`).

**Only model-checked.** Liveness (`EveryFrameHandled`, `DestructorReturns`,
`SendReturns`, `EveryFrameTaken`, `ServerDestructorReturns`, `EveryPieceIsRead`),
which the provers installed do not handle, ENABLED likewise. Every other property a run
checks is proved as well.

Some type invariants are only proved, or are there for the reader, and no run repeats them.

## 5. Not modelled, and the plan

What is left, in this order:

1. The packets of mDNS: the static buffers shared by the query and the service, and a
   second Server after `terminate`.
2. The list of animations in Engine and the parents of SceneGroup.
3. A client that closes its end of a `TcpFraming` connection.

Left out for good: plane finding, alignment and the points made of depths
(floating-point geometry), drawing, shaders and bgfx set-up, FFmpeg's writers (no
state machine of their own), the octree (not part of the build), and vendored code,
which is nearly all of `src`: the program's own code is some 9,000 lines, so the
share of all lines that any model could cover is small.
