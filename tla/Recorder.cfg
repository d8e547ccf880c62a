\* Safety of the recorder as it is built: streaming, face frames dropped.
CONSTANTS
  Frames = {d1, d2}
  Faces = {f1, f2}
  Stop = Stop
  None = None
  Paths = {docs}
  EmptyPath = EmptyPath
  StreamMode = TRUE
  MaxDepth = 4
  MaxFace = 1
SPECIFICATION RecSpec
SYMMETRY Symmetry
INVARIANT NothingLost
INVARIANT NoLostWakeup
INVARIANT HeaderOfFirstFrame
INVARIANT CountersAgree
PROPERTY ImplementsFrameStream
\* The thread may wait for ever, die, or be joined.
CHECK_DEADLOCK FALSE
