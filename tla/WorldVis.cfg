\* Two threads over three camera frames and two presses of the mode button.
CONSTANTS
  FirstTime = 3
  Tolerance = 2
  MaxTime = 5
  MaxPresses = 2
SPECIFICATION WorldSpec
INVARIANT FaultNeedsButton
INVARIANT FaceDrawn
PROPERTY StampsForward
\* The camera may stop.
CHECK_DEADLOCK FALSE
