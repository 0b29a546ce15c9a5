------------------------------ MODULE Probing ------------------------------
(***************************************************************************)
(* The walk through the slots of a hash vector, which the locked and the   *)
(* lock-free tables of level-0/l0-hash.lisp share.  A key hashes to its    *)
(* address, and the walk continues at the next slot.                       *)
(***************************************************************************)
EXTENDS Integers, Sequences, FiniteSetsExt

(* The slots that a probe for an address visits, in order.  The first of   *)
(* them is hash-mod's: the addresses of a model go round a small vector.   *)
At(slots, a, i) == 1 + ((a + 1 + i) % Len(slots))

(* The first slot on the way whose key is one of those wanted, or 0.       *)
Probe(slots, a, wanted) ==
    LET hits == {i \in 0..Len(slots) - 1 : slots[At(slots, a, i)].key \in wanted}
    IN  IF hits = {} THEN 0 ELSE At(slots, a, Min(hits))

(* The number of entries of a vector made for a count of them.             *)
MoreThan(count, increment) == IF increment = 0 THEN count + 1 ELSE count + increment
=============================================================================
