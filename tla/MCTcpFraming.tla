---------------------------- MODULE MCTcpFraming ----------------------------
(* A connection for TLC: packets that are empty, shorter than a length,    *)
(* and of several chunks.                                                  *)
EXTENDS TcpFraming

MCLengths == {0, 1, 5}
=============================================================================
