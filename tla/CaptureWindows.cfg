\* One thread for everything, and the end of the process.
CONSTANTS
  Frames = {d1}
  Faces = {f1}
  Stop = Stop
  None = None
  Paths = {docs, garbage}
  EmptyPath = EmptyPath
  StreamMode = FALSE
  MaxDepth = 3
  MaxFace = 2
  Platform = "windows"
  Documents = docs
SPECIFICATION CaptureSpec
INVARIANT JoinOnlyUnused
\* The bounds stop the callbacks, a fault the process.
CHECK_DEADLOCK FALSE
