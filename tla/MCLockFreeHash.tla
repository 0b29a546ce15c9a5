-------------------------- MODULE MCLockFreeHash --------------------------
(* Bounds for TLC: one thread for each operation, or two that store.       *)
EXTENDS LockFreeHash, TLC

CONSTANTS putter, putter2, remover, reader, k1, k2, v1, v2

OnePutter == {putter}
TwoPutters == {putter, putter2}
OneRemover == {remover}
OneReader == {reader}
Nobody == {}
OneKey == {k1}
TwoKeys == {k1, k2}
OneValue == {v1}
TwoValues == {v1, v2}
=============================================================================
