---------------------------- MODULE ArmCollector ----------------------------
(***************************************************************************)
(* The collector and the gc traps of the ARM: lisp-kernel/arm-gc.c and     *)
(* arm-exceptions.c.  Memory, the marker's state and the traps are those   *)
(* of SaveApplication and Collector; what differs is here.                 *)
(*   - The code of a function is a code vector, an object of raw data.     *)
(*     The function has a reference to it and the address of its first     *)
(*     instruction; a stack frame has the function and an address in its   *)
(*     code.  Such addresses (locatives) are forwarded with the code.      *)
(*   - A vector is marked down to its header: no word is a boundary.       *)
(*   - The place of a dnode in the upper half of a word of mark bits is    *)
(*     counted down from the relocation of the next word.                  *)
(*   - purify moves ivectors, code vectors among them, and nothing else;   *)
(*     there is no managed static area and nothing is watched.             *)
(***************************************************************************)
EXTENDS Integers, Sequences, FiniteSets, FiniteSetsExt, SequencesExt

CONSTANTS WordBits, Programs, ReadonlyRoom, Biases

VARIABLES heap, roots, refbits, frozen, marks, pc, stack, prev, this, next, limit,
          todo, reloc, src, dest, was, calls, selector, bias, before

X86 == INSTANCE SaveApplication

marker == <<stack, prev, this, next, todo>>

Word(tag, at) == X86!Word(tag, at)

(* A frame holds a function, and then an address in its code.              *)
Framed ==
    \A i \in DOMAIN roots : roots[i].tag = "pc" =>
      /\ i > 1 /\ roots[i - 1].tag = "misc"
      /\ heap[roots[i - 1].at].tag = "entry header"
      /\ heap[roots[i - 1].at + 2] = Word("misc", roots[i].at - 2)

Init == \E p \in Programs : p.port = "arm" /\ X86!InitProgram(p) /\ Framed

----------------------------------------------------------------------------
(* mark_root and rmark.                                                    *)

(* Saved return addresses, and of the registers the pc and the lr.         *)
IsPcRoot == todo \in DOMAIN roots /\ roots[todo].tag = "pc"

MarkRoot == ~IsPcRoot /\ X86!MarkRoot

(* code_vector_from_pc: it looks for the zero after the instructions, and  *)
(* subtracts the zero from its address (the comment has the word after it).*)
CodeVectorFromPc(m, w) ==
    LET zero == Min({v \in DOMAIN m : v >= w /\ m[v].tag = "zero"})
    IN  Word("misc", zero - m[zero].at)

(* The function of the frame has been marked, and its code with it.        *)
MarkPcRoot ==
    /\ pc = "roots" /\ stack = <<>> /\ IsPcRoot
    /\ LET locative == roots[todo]
       IN  IF locative.at \in X86!Words /\ locative.at \div 2 \notin marks
             THEN X86!Call(CodeVectorFromPc(heap, locative.at))
             ELSE UNCHANGED <<marks, stack>>
    /\ todo' = todo + 1
    /\ UNCHANGED <<heap, roots, refbits, pc, prev, this, next, limit, reloc, src, dest, was>>

SkipElement == X86!SkipElement
Recur == X86!Recur
ReturnFromCall == X86!ReturnFromCall
Invert == X86!Invert
MarkCons == X86!MarkCons
MarkCdr == X86!MarkCdr

MarkVector ==
    LET header == heap[this.at]
    IN  /\ pc = "mark vector"
        /\ marks' = marks \cup X86!DnodesOf(heap, this)
        /\ IF header.tag \in X86!NodeHeaders
             THEN /\ pc' = "mark vector loop"
                  /\ this' = Word(this.tag, this.at + header.at + 1)
             ELSE pc' = "climb" /\ UNCHANGED this
        /\ UNCHANGED <<heap, roots, refbits, stack, prev, next, limit, todo, reloc, src,
                       dest, was>>

MarkVectorLoop ==
    LET w == this.at - 1
    IN  /\ pc = "mark vector loop"
        /\ IF X86!Markable(heap[w])
             THEN /\ X86!Mark(heap[w]) /\ X86!Descend(heap[w])
                  /\ heap' = [heap EXCEPT ![w] = prev]
                  /\ prev' = Word(this.tag, w)
             ELSE /\ this' = Word(this.tag, w)
                  /\ pc' = IF heap[w].tag \in X86!NodeHeaders THEN "climb" ELSE pc
                  /\ UNCHANGED <<heap, marks, prev>>
        /\ UNCHANGED <<roots, refbits, stack, next, limit, todo, reloc, src, dest, was>>

Climb == X86!Climb
ClimbRoot == X86!ClimbRoot

----------------------------------------------------------------------------
(* Relocation and compaction.                                              *)

CalculateRelocation == X86!CalculateRelocation

DnodeForwardingAddress(d) ==
    LET pagelet == d \div WordBits
        first == pagelet * WordBits
    IN  IF 2 * (d - first) < WordBits
          THEN reloc[pagelet] + Cardinality(marks \cap first..(d - 1))
          ELSE reloc[pagelet + 1] - Cardinality(marks \cap d..(first + WordBits - 1))

LocativeForwardingAddress(word) ==
    IF /\ word.tag \in X86!Addresses /\ word.at \in X86!Words
       /\ word.at \div 2 >= X86!FirstUnmarked
      THEN Word(word.tag, 2 * DnodeForwardingAddress(word.at \div 2) + (word.at % 2))
      ELSE word

(* A word of the heap as it will be; a hash vector is told if a key moves. *)
Forwarded(w) ==
    IF X86!HasFlags(heap, w) /\ \E k \in X86!KeysIn(heap, w - 1) :
                                  LocativeForwardingAddress(heap[k]) # heap[k]
      THEN Word("flags", 1) ELSE LocativeForwardingAddress(heap[w])

ForwardRange ==
    /\ pc = "forward"
    /\ heap' = [w \in DOMAIN heap |->
                  CASE X86!Reclaimed(w) -> Word("raw", 0)
                    [] w < 2 * X86!FirstUnmarked /\ w \div 2 \in marks -> Forwarded(w)
                    [] OTHER -> heap[w]]
    /\ pc' = "forward roots"
    /\ UNCHANGED <<roots, refbits, marks, marker, limit, reloc, src, dest, was>>

(* The stacks, with their frames, and the registers.                       *)
ForwardRoots ==
    /\ pc = "forward roots"
    /\ roots' = [i \in DOMAIN roots |-> LocativeForwardingAddress(roots[i])]
    /\ src' = 2 * X86!FirstUnmarked /\ dest' = src'
    /\ pc' = "compact"
    /\ UNCHANGED <<heap, refbits, marks, marker, limit, reloc, was>>

SkipUnmarked == X86!SkipUnmarked

SizeAt(w) == X86!SizeAt(w)

MoveObject ==
    LET size == SizeAt(src)
    IN  /\ pc = "compact" /\ src \in X86!Words /\ src \div 2 \in marks
        /\ heap' = [w \in DOMAIN heap |->
                      IF w \in dest..(dest + size - 1) THEN Forwarded(src + w - dest)
                                                       ELSE heap[w]]
        /\ src' = src + size /\ dest' = dest + size
        /\ UNCHANGED <<roots, refbits, marks, pc, marker, limit, reloc, was>>

Finish == X86!Finish

Collect ==
    /\ \/ MarkRoot \/ MarkPcRoot \/ SkipElement \/ Recur \/ ReturnFromCall
       \/ Invert \/ MarkCons \/ MarkCdr \/ MarkVector \/ MarkVectorLoop \/ Climb
       \/ ClimbRoot
       \/ CalculateRelocation \/ ForwardRange \/ ForwardRoots
       \/ SkipUnmarked \/ MoveObject \/ Finish
    /\ UNCHANGED <<frozen, calls, selector, bias, before>>

----------------------------------------------------------------------------
(* Purify, of memory m: copy_ivector_reference, first of a reference that  *)
(* may be nowhere in memory.                                               *)

CopyIvector(m, ref) ==
    CASE ~(ref.tag = "misc" /\ ref.at < X86!PureLow) -> [m |-> m, ref |-> ref]
      [] m[ref.at] = X86!ForwardMarker ->
           [m |-> m, ref |-> Word("misc", m[ref.at + 1].at)]
      [] X86!Ivector(m[ref.at]) ->
           [m |-> X86!CopyObject(m, ref.at, X86!PureLow),
            ref |-> Word("misc", X86!Active(m, X86!PureLow))]
      [] OTHER -> [m |-> m, ref |-> ref]

CopyIvectorReference(m, w) ==
    LET copied == CopyIvector(m, m[w]) IN [copied.m EXCEPT ![w] = copied.ref]

(* purify_locref: every dnode of a vector that was copied says where its   *)
(* copy is.                                                                *)
PurifyLocref(m, w) ==
    LET locative == m[w]
        dnode == locative.at - (locative.at % 2)
        n == IF m[dnode] = X86!ForwardMarker THEN m
               ELSE CopyIvector(m, CodeVectorFromPc(m, dnode)).m
    IN  IF locative.at >= X86!PureLow THEN m
          ELSE [n EXCEPT ![w] = Word(locative.tag, n[dnode + 1].at + (locative.at % 2))]

(* The address in a function becomes a reference for as long as it takes.  *)
PurifyEntry(m, w) ==
    LET copied == CopyIvector(m, Word("misc", m[w].at - 1))
    IN  IF m[w].at >= X86!PureLow THEN m
          ELSE [copied.m EXCEPT ![w] = Word("entry", copied.ref.at + 1)]

(* purify_range, for the object at w.                                      *)
PurifyObject(m, w) ==
    LET purify(n, v) == IF n[v].tag = "entry" THEN PurifyEntry(n, v)
                                              ELSE CopyIvectorReference(n, v)
    IN  IF m[w] = X86!ForwardMarker \/ m[w].tag \in X86!RawHeaders THEN m
          ELSE FoldLeft(purify, m, [i \in 1..X86!ObjectSize(m, w) |-> w + i - 1])

PurifyRange(m) == FoldLeft(PurifyObject, m, X86!ObjectsIn(m, 0))

(* The stacks and the registers.                                           *)
PurifyRoots(m) ==
    LET purify(n, i) == LET w == X86!RootsLow + i
                        IN  IF n[w].tag = "pc" THEN PurifyLocref(n, w)
                                               ELSE CopyIvectorReference(n, w)
    IN  FoldLeft(purify, m, [i \in DOMAIN roots |-> i])

PurifyAreas(m) == PurifyRoots(PurifyRange(m))

(* unboxed_bytes_in_range.                                                 *)
UnboxedWords ==
    LET size(w) == X86!ObjectSize(heap, w)
    IN  MapThenSumSet(size, {w \in ToSet(X86!ObjectsIn(heap, 0)) :
                               X86!Moveable(w) /\ heap[w].tag \in X86!RawHeaders})

HasReadonlyRoom ==
    Cardinality(X86!AreaWords(heap, X86!PureLow)) + UnboxedWords <= ReadonlyRoom

(* The areas are as in memory m, and are collected again.                  *)
Again(m, done) ==
    /\ heap' = X86!HeapOf(m) /\ roots' = X86!RootsOf(m)
    /\ X86!StartCollection(heap', roots')
    /\ selector' = selector \ {done}
    /\ UNCHANGED <<refbits, frozen, calls, bias, before>>

Purify ==
    /\ pc = "collected" /\ "impurify" \notin selector /\ "purify" \in selector
    /\ Again(IF HasReadonlyRoom THEN PurifyAreas(X86!Memory) ELSE X86!Memory, "purify")

----------------------------------------------------------------------------
(* Impurify: the readonly area goes to the end of the dynamic area, and    *)
(* references and locatives with it.                                       *)

(* impurify_noderef and impurify_locref.                                   *)
Impure(word, pure, delta) ==
    IF word.tag \in {"misc", "entry", "pc"} /\ word.at \in pure
      THEN Word(word.tag, word.at + delta) ELSE word

Impurified(m) ==
    LET low == X86!PureLow
        pure == X86!AreaWords(m, low)
        free == X86!Active(m, 0)
        moved == [w \in free..(free + Cardinality(pure) - 1) |-> m[w - free + low]]
        n == Restrict(moved @@ m, (DOMAIN m \cup DOMAIN moved) \ pure)
    IN  [w \in DOMAIN n |-> Impure(n[w], pure, free - low)]

Impurify ==
    /\ pc = "collected" /\ "impurify" \in selector
    /\ Again(Impurified(X86!Memory), "impurify")

----------------------------------------------------------------------------
(* handle_gc_trap.                                                         *)

GcTrap == X86!GcTrap
FlashFreeze == X86!FlashFreeze
FreezeCollected == X86!FreezeCollected
Save == X86!Save
Return == X86!Return

(* The program rehashes, and the kernel loads images, as on any port.      *)
Next ==
    \/ GcTrap \/ Collect \/ Impurify \/ Purify \/ FlashFreeze \/ FreezeCollected
    \/ Save \/ X86!Load \/ Return \/ X86!Rehash
=============================================================================
