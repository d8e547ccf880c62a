\* All files of up to three frames of each kind, played three times.
CONSTANTS
  Stamps <- MCStamps
  MaxFrames = 3
  FrameTime = 2
  MaxWraps = 2
SPECIFICATION PlaybackSpec
INVARIANT PlaybackTypeOK
INVARIANT DepthOnShow
INVARIANT FaceOnShow
INVARIANT NoFalseStop
PROPERTY DepthGoesForward
\* MaxWraps stops the playback.
CHECK_DEADLOCK FALSE
