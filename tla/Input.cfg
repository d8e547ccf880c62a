\* One axis with its two keys, two fingers, and a drag that may go either way.
CONSTANTS
  x = x
  Axes = {x}
  f1 = f1
  f2 = f2
  Fingers = {f1, f2}
  Places = {2, 4}
  Widths = {1, 2}
  NoTouch = NoTouch
  MaxTurn = 8
SPECIFICATION InputSpec
INVARIANT VelocityOfHeldKeys
INVARIANT DragOfLastPress
