--------------------------- MODULE MCForwardLatch ---------------------------
(* A small instance of ForwardLatch for TLC. *)
EXTENDS ForwardLatch
=============================================================================
