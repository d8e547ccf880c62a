---------------------------- MODULE MCDepthCodec ----------------------------
(* The codec for TLC: every square of depths up to a step too far to fit.  *)
EXTENDS DepthCodec

MCMost == (Invalid + 2) * Fine - 1
=============================================================================
