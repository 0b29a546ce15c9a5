--------------------------- MODULE MCLockedHash ---------------------------
(* Bounds for TLC: who calls which operation, two keys.                    *)
EXTENDS LockedHash

CONSTANTS putter, remover, reader, reader2, k1, k2, v1, v2

OnePutter == {putter}
OneRemover == {remover}
Nobody == {}
TwoReaders == {reader, reader2}
TwoKeys == {k1, k2}
OneValue == {v1}
TwoValues == {v1, v2}
=============================================================================
