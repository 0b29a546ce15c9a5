-------------------------- MODULE MCWeakReferences --------------------------
(* Bounds for TLC: five heaps, their fields filled in every way given.     *)
EXTENDS WeakReferences

Foreign == 99

Obj(kind, choices) == [kind |-> kind, choices |-> choices]

(* Two hash vectors: an entry of one keeps the key of an entry of the      *)
(* other.                                                                  *)
TwoTables ==
    <<Obj("weak key", <<{0, 3}, {4}, {0, 4}, {2}>>),
      Obj("weak key", <<{0}, {0}, {3, 5}, {2, 4}>>),
      Obj("cons", <<{0, 5}, {0}>>), Obj("cons", <<{0, 5}, {0}>>),
      Obj("cons", <<{1}, {0}>>)>>

ByValue ==
    <<Obj("weak value", <<{0, 2}, {3}, {4}, {2}>>),
      Obj("cons", <<{0, 4}, {0}>>), Obj("cons", <<{2}, {0}>>),
      Obj("cons", <<{1}, {0, 3}>>)>>

(* A weak alist and a table hold each other's keys.                        *)
AlistAndTable ==
    <<Obj("alist", <<{2}>>), Obj("cons", <<{3}, {0, 6}>>),
      Obj("cons", <<{7}, {5}>>),
      Obj("weak key", <<{0}, {0}, {5}, {7}>>),
      Obj("cons", <<{0}, {0}>>),
      Obj("cons", <<{8}, {0}>>), Obj("cons", <<{0}, {0, 8}>>),
      Obj("cons", <<{1}, {4}>>)>>

(* Objects to be terminated, with a foreign pointer.                       *)
Termination ==
    <<Obj("alist", <<{2}, {0, 7}>>), Obj("cons", <<{3}, {4}>>),
      Obj("cons", <<{6}, {0}>>), Obj("cons", <<{5}, {0}>>),
      Obj("cons", <<{8, 9}, {0}>>), Obj("pointer", <<{0, Foreign}>>),
      Obj("cons", <<{9}, {0}>>), Obj("cons", <<{6}, {0}>>),
      Obj("cons", <<{1}, {0}>>)>>

(* A weak list reached only from an object to be terminated.               *)
WeakInTermination ==
    <<Obj("alist", <<{2}, {0}>>), Obj("cons", <<{3}, {0}>>),
      Obj("cons", <<{4}, {0}>>), Obj("cons", <<{5}, {0}>>),
      Obj("list", <<{6}>>), Obj("cons", <<{4, 7}, {0}>>),
      Obj("cons", <<{1}, {0}>>)>>

AllLayouts == {TwoTables, ByValue, AlistAndTable, Termination, WeakInTermination}
FirstPair == {TwoTables}

Roots == 0..9
=============================================================================
