----------------------------- MODULE MCDataQueue -----------------------------
(* Bounds for DataQueue: a queue of two, threads that may each push, pop and  *)
(* reset, an interrupt handler, and few items.                                *)
EXTENDS DataQueue

FromInit == {0}
NearWrap == {65535}    \* reached by 65535 push and pop
BothEnds == FromInit \cup NearWrap
=============================================================================
