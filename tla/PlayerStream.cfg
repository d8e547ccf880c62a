\* Five turns, packets of up to three pictures, reads that fail.
CONSTANTS
  MaxPerPacket = 3
  MaxDecoded = 4
  MaxTurns = 5
SPECIFICATION FairPlayerSpec
INVARIANT ShownInOrder
PROPERTY ImplementsFrameStream
PROPERTY EveryFrameTaken
\* The process may end, and the bounds end the turns.
CHECK_DEADLOCK FALSE
