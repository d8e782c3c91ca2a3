------------------------------ MODULE MCRingBuf ------------------------------
(* Bounds for RingBuf: a pool of 3 bytes, so that blocks can be shorter than, *)
(* equal to and longer than the pool, over two byte values.                   *)
EXTENDS RingBuf

MCByte == {"a", "b"}
=============================================================================
