\* The callbacks on one thread, Tick and Draw on another.
CONSTANTS
  Frames = {d1}
  Faces = {f1}
  Stop = Stop
  None = None
  Paths = {docs, garbage}
  EmptyPath = EmptyPath
  StreamMode = FALSE
  MaxDepth = 4
  MaxFace = 1
  Platform = "ios"
  Documents = docs
SPECIFICATION CaptureSpec
INVARIANT FaultOnlyIfTorn
INVARIANT RecordingEnds
INVARIANT FileUnderDocuments
\* The bounds stop the callbacks, a fault the process.
CHECK_DEADLOCK FALSE
