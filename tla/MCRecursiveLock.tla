--------------------------- MODULE MCRecursiveLock ---------------------------
(* Finite instances of RecursiveLock for TLC.                              *)
EXTENDS RecursiveLock, TLC

CONSTANTS t1, t2, t3

TwoThreads == {t1, t2}
ThreeThreads == {t1, t2, t3}

Both == {"c", "lisp"}
AllTries == {"try", "ctry"}
NoTries == {}
COnlyTry == {"ctry"}
=============================================================================
