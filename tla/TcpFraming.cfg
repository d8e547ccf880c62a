\* Three packets over a connection that cuts and joins.
CONSTANTS
  Lengths <- MCLengths
  MaxPackets = 3
  HeaderSize = 2
  ChunkSize = 2
  ReplySize = 2
  MaxRead = 7
SPECIFICATION FairTcpSpec
INVARIANT TcpTypeOK
INVARIANT Faithful
INVARIANT StopAndWait
INVARIANT SentIsDelivered
INVARIANT FirstPacketIntact
PROPERTY SendReturns
\* All packets sent, or the connection closed.
CHECK_DEADLOCK FALSE
