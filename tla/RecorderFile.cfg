\* The recorder writing face.bin, and its liveness.
CONSTANTS
  Frames = {d1}
  Faces = {f1, f2}
  Stop = Stop
  None = None
  Paths = {docs}
  EmptyPath = EmptyPath
  StreamMode = FALSE
  MaxDepth = 2
  MaxFace = 3
SPECIFICATION FairRecSpec
INVARIANT FaceFileComplete
PROPERTY EveryFrameHandled
PROPERTY DestructorReturns
\* The thread may wait for ever, die, or be joined.
CHECK_DEADLOCK FALSE
