---------------------------- MODULE MCAllocation ----------------------------
(***************************************************************************)
(* Two threads on each port.  A segment is of four dnodes, the heap of     *)
(* eight: a segment lasts for two to four small objects, and a large       *)
(* object is one the ARM takes off the pointer in two instructions, and    *)
(* that needs the heap to grow.                                            *)
(***************************************************************************)
EXTENDS Allocation

CONSTANTS a, b

TwoThreads == {a, b}
AllKinds == {"cons", "vector", "large", "list"}
SomeDnodes == [cons |-> 1, vector |-> 2, large |-> 34, list |-> 3]

Program(on, inhibit, kinds, allocations, interrupts, calls, traps) ==
    [port |-> on, inhibited |-> inhibit, kinds |-> kinds,
     allocations |-> allocations, interrupts |-> interrupts, calls |-> calls,
     traps |-> traps, controls |-> Cardinality(traps)]

(* On the ARM a program is not interrupted while it allocates, and asks    *)
(* for nothing that must be refused (see the README).                      *)
SomePrograms ==
    UNION {{Program(on, FALSE, {"vector"}, 3, 1, 0, {}),
            Program(on, FALSE, {"cons", "vector"}, 3, 0, 0, {}),
            Program(on, FALSE, {"vector", "list"}, 2, 0, 1, {}),
            Program(on, FALSE, {"vector"}, 2, 0, 0, {"gc", "use threshold"}),
            Program(on, TRUE, {"cons", "large"}, 2, 1, 0, {})} : on \in {"x86", "ppc"}}
      \cup {Program("arm", FALSE, {"cons", "large"}, 3, 0, 0, {}),
            Program("arm", FALSE, {"cons", "list"}, 2, 0, 1, {"gc"}),
            Program("arm", FALSE, {"cons"}, 2, 0, 0, {"disable", "enable"})}

(* The cases they leave out.                                               *)
InterruptedOnArm == {Program("arm", FALSE, {"cons"}, 2, 1, 0, {})}
RefusedOnArm == {Program("arm", TRUE, {"cons", "large"}, 3, 0, 0, {})}
=============================================================================
