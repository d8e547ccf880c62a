\* Two peers, of which one may close or be cut off while the other sends.
CONSTANTS
  p1 = p1
  p2 = p2
  Peers = {p1, p2}
  Nobody = Nobody
  Capacity = 1
  MaxPieces <- MCPieces
  MaxAnswers = 2
  MaxFailures = 1
SPECIFICATION FairServerSpec
INVARIANT NoneLeft
INVARIANT OneOperationEach
PROPERTY ServerDestructorReturns
PROPERTY EveryPieceIsRead
\* The server may be destroyed, or the process end.
CHECK_DEADLOCK FALSE
