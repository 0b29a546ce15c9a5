--------------------------- MODULE MCReadWriteLock ---------------------------
(* Finite instances of ReadWriteLock for TLC.                              *)
EXTENDS ReadWriteLock, TLC

CONSTANTS t1, t2, t3

Threads == {t1, t2, t3}
=============================================================================
