------------------------- MODULE MCThreadSuspension -------------------------
(* Bounds for TLC: three thread records, one of them unborn at the start.  *)
EXTENDS ThreadSuspension, TLC

CONSTANTS a, b, c

TwoThreads == {a, b}
ThreeThreads == {a, b, c}
Second == {b}
=============================================================================
