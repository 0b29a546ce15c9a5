------------------------------ MODULE Consing -------------------------------
(***************************************************************************)
(* What the allocators of the three ports share: the heap a thread takes   *)
(* segments from (gc-common.c new_heap_segment), and the record of a       *)
(* thread.  A thread is                                                    *)
(*   pc, kind     the instruction it is at, and what it is allocating      *)
(*   reg, base    its allocptr register, and the limit it has in a         *)
(*                register (the PPC's allocbase, the word the ARM loads)   *)
(*   above        what the last comparison of the two said                 *)
(*   hdr          whether the header of the new object is stored           *)
(*   got          the last object its code has a pointer to                *)
(*   saved, limit tcr->save_allocptr and tcr->save_allocbase               *)
(*   in, why      Lisp or foreign code, or where it is in a handler        *)
(*   disp         what interrupt_handler was told to take off again        *)
(*   outer        the contexts its callbacks interrupted                   *)
(* An address is a number below Top; the byte accounting is left out.      *)
(***************************************************************************)
EXTENDS Integers, Sequences, FiniteSets, FiniteSetsExt

CONSTANTS
    Kinds,    \* what can be allocated: conses, vectors, and lists in one call
    Dnodes,   \* dnodes of each kind
    Top,      \* the end of the address space
    Low,      \* the start of the dynamic area
    Limit,    \* the end of the space reserved for it
    HeapSegment, \* dnodes of the unit the heap grows and shrinks by
    Quantum,  \* dnodes of an allocation segment
    Spare,    \* dnodes lisp_heap_gc_threshold leaves free
    Least     \* dnodes: no smaller extension is tried (4 << 20)

NoObject == [at |-> 0, size |-> 0, whole |-> TRUE]

(* A multiple of quantum, at or above n.                                   *)
Align(n, quantum) == ((n + quantum - 1) \div quantum) * quantum

-----------------------------------------------------------------------------
(* The heap: [active, high, reserved, tables], the end of what is in       *)
(* segments, the end of what is mapped, the start of what is still         *)
(* reserved, and the end of what the collector's tables cover.             *)
AllocateFromReservedArea(heap, size, dnode) ==
    LET n == Align(size, HeapSegment * dnode)
    IN  [ok |-> n <= Limit - heap.reserved, heap |-> [heap EXCEPT !.reserved = @ + n]]

MapInitialTables(heap) == [heap EXCEPT !.tables = heap.high]

AllocateDynamicArea(size, free, dnode) ==
    LET end == Low + Align(size, HeapSegment * dnode)
        none == [active |-> end - free, high |-> end, reserved |-> Low, tables |-> Low]
    IN  MapInitialTables(AllocateFromReservedArea(none, size, dnode).heap)

EnsureGcStructuresWritable(heap) == [heap EXCEPT !.tables = Max({@, heap.high})]

GrowDynamicArea(heap, delta, dnode) ==
    LET n == Align(delta, HeapSegment * dnode)
        r == AllocateFromReservedArea(heap, n, dnode)
    IN  IF r.ok
        THEN [ok |-> TRUE,
              heap |-> EnsureGcStructuresWritable([r.heap EXCEPT !.high = @ + n])]
        ELSE [ok |-> FALSE, heap |-> heap]

ShrinkDynamicArea(heap, delta, dnode) ==
    LET n == Align(delta, HeapSegment * dnode)
    IN  [heap EXCEPT !.high = @ - n, !.reserved = @ - n]

(* What is free is fitted to `free`, if that is not 0.                     *)
ResizeDynamicHeap(heap, free, dnode) ==
    LET limit == heap.active + Align(free, HeapSegment * dnode)
    IN  CASE free > 0 /\ limit > heap.high ->
               GrowDynamicArea(heap, limit - heap.high, dnode)
          [] free > 0 /\ limit <= heap.high /\ heap.active + free < heap.high ->
               [ok |-> TRUE, heap |-> ShrinkDynamicArea(heap, heap.high - limit, dnode)]
          [] OTHER -> [ok |-> FALSE, heap |-> heap]

(* What a growing heap grows by besides: half as much each time the system *)
(* refuses.                                                                *)
Extensions ==
    LET halves == {Align(Spare \div (2 ^ k), Quantum) : k \in 1 .. 4}
    IN  {Spare} \cup {e \in halves : e >= Least}

(* new_heap_segment takes the segment from the end of the heap; only when  *)
(* asked to extend does it grow the heap, and while collections are        *)
(* inhibited by no more than is needed.                                    *)
NewHeapSegment(heap, need, extend, inhibited, dnode) ==
    LET quantum == Quantum * dnode
        end == Align(heap.active, quantum) + Align(need, quantum)
        Resized(e) == ResizeDynamicHeap(heap, end - heap.active + e * dnode, dnode)
        tries == {Resized(e) : e \in IF inhibited THEN {0} ELSE Extensions}
        grown == {r.heap : r \in {r \in tries : r.ok}}
        From(h) == [ok |-> TRUE, low |-> heap.active, high |-> end,
                    heap |-> [h EXCEPT !.active = end]]
    IN  CASE end <= heap.high -> From(heap)
          [] end > heap.high /\ extend /\ grown # {} ->
               From(CHOOSE h \in grown : \A g \in grown : g.high <= h.high)
          [] OTHER -> [ok |-> FALSE]

-----------------------------------------------------------------------------
(* The context of a thread, which a handler may be entered from and a      *)
(* callback puts aside.                                                    *)
Context(x) == [pc |-> x.pc, kind |-> x.kind, reg |-> x.reg, base |-> x.base,
               above |-> x.above, hdr |-> x.hdr, got |-> x.got, disp |-> x.disp,
               why |-> x.why]

(* The callback's code starts with registers of its own.                   *)
Called(x, reg, base) ==
    [x EXCEPT !.outer = <<Context(x)>> \o @, !.pc = "idle", !.kind = "none",
              !.reg = reg, !.base = base, !.above = FALSE, !.hdr = FALSE,
              !.got = NoObject, !.disp = 0, !.in = "lisp", !.why = "none"]

Resumed(x) ==
    LET c == Head(x.outer)
    IN  [x EXCEPT !.outer = Tail(@), !.pc = c.pc, !.kind = c.kind,
                  !.reg = c.reg, !.base = c.base, !.above = c.above,
                  !.hdr = c.hdr, !.got = c.got, !.disp = c.disp]

(* The collector reaches a thread by its pending exception context or by   *)
(* the context it was suspended in, and not at all in foreign code.        *)
HasContext(x) == x.in # "foreign"

(* A handler is entered with the signals blocked, and is seen by the       *)
(* collector as a stopped thread until it has the exception lock.          *)
Pending(x, why) == [x EXCEPT !.in = "waiting", !.why = why]
=============================================================================
