----------------------------- MODULE MCGCInhibit -----------------------------
(* Bounds for TLC: three threads, any of which may be in a body or ask.    *)
EXTENDS GCInhibit

CONSTANTS a, b, c

TwoThreads == {a, b}
ThreeThreads == {a, b, c}
=============================================================================
