----------------------------- MODULE Collector -----------------------------
(***************************************************************************)
(* One collection of the dynamic area by the mark-compact collector of     *)
(* lisp-kernel/x86-gc.c: mark_root and rmark, which recurs while there is  *)
(* stack and then inverts links (Schorr-Waite); calculate_relocation;      *)
(* forward_range; compact_dynamic_heap.  It runs while every other thread  *)
(* is stopped (ThreadSuspension); the choice of a generation and the       *)
(* memoized dnodes are in Generations, weak objects in WeakReferences.     *)
(*                                                                         *)
(* The area is a row of words 0, 1, ... two to a dnode, filled with        *)
(* objects.  A word is a record: a reference, with the tag and the address *)
(* of its object; a header, with the number of elements; or raw data.      *)
(* An element counted by a header stands for one word of the object.       *)
(* The first dnodes may be frozen: their objects are marked, not moved.     *)
(* The readonly and the managed static area, and watched areas of one      *)
(* object each, begin far above; the collector frees and moves nothing     *)
(* there, and of the managed static area looks only at the dnodes that are *)
(* memoized.  SaveApplication moves objects between areas.                 *)
(***************************************************************************)
EXTENDS Integers, Sequences, FiniteSets, FiniteSetsExt, SequencesExt

CONSTANT WordBits   \* bits of a word of the mark bits (a pagelet; 64)

Kinds == {"cons", "vector", "symbol", "function", "closure", "table", "hash",
          "raw", "macptr", "arm code", "arm function", "ppc code", "ppc function"}

ASSUME CollectorAssumption == WordBits \in Nat \ {0}

VARIABLES
    heap,    \* the words of the dynamic and the other areas
    roots,   \* stacks, registers and static area; the last is a static cell
    refbits, \* managed_static_refbits: dnodes that may refer to the dynamic area
    frozen,  \* static_dnodes: how many dnodes of the dynamic area are frozen
    marks,   \* GCmarkbits: the marked dnodes
    pc,      \* where the collection is
    stack,   \* the calls of mark_root and rmark: the words each has to visit
    prev, this, next,   \* the registers of the link-inverting marker
    limit,   \* GCstack_limit, as a number of calls
    todo,    \* the next root
    reloc,   \* GCrelocptr: dnodes marked before each pagelet
    src, dest,          \* the words compact_dynamic_heap reads and writes
    was      \* history: heap and roots when the collection began

marker == <<stack, prev, this, next, todo>>
collectorVars ==
    <<heap, roots, refbits, frozen, marks, pc, marker, limit, reloc, src, dest, was>>

----------------------------------------------------------------------------
(* Words and objects.                                                      *)

Word(tag, at) == [tag |-> tag, at |-> at]
Nil == Word("nil", 0)
Undefined == Word("undefined", 0)   \* RMARK_PREV_ROOT
NodeTags == {"cons", "misc", "symbol", "function", "tra", "pc"}
Addresses == NodeTags \cup {"entry"}
FunctionHeaders == {"function header", "closure header"}
NodeHeaders ==
    {"node header", "symbol header", "table header", "hash header", "entry header"}
      \cup FunctionHeaders
RawHeaders == {"raw header", "code header", "macptr header", "dead macptr header"}

(* Where the readonly, the managed static and the watched areas begin.     *)
PureLow == 100
ManagedLow == 200
WatchedLow == 300

(* The words of a fresh object; "slot" is an element to be filled in.  A   *)
(* function has code before its boundary word and constants after it (one  *)
(* that is changed as it runs, a closure or a generic function, is told by *)
(* a bit of its last word); a hash vector, to which only its hash table     *)
(* refers, has a header of odd length, pairs, and a word for alignment.    *)
(* On the ARM and the PPC the code of a function is an object of its own,  *)
(* of raw data: an ARM function has the address of the first instruction,  *)
(* and after the instructions there is a zero, and an offset.              *)
HashFields == 2
Template(kind) ==
    LET slot == Word("slot", 0)
    IN  CASE kind = "cons" -> <<slot, slot>>
          [] kind = "vector" -> <<Word("node header", 3), slot, slot, slot>>
          [] kind = "symbol" -> <<Word("symbol header", 3), slot, slot, Word("raw", 0)>>
          [] kind = "function" -> <<Word("function header", 5), Word("code words", 3),
               Word("code", 0), Word("boundary", 0), slot, Word("raw", 0)>>
          [] kind = "closure" -> <<Word("closure header", 5), Word("code words", 3),
               Word("code", 0), Word("boundary", 0), slot, Word("raw", 0)>>
          [] kind = "table" -> <<Word("table header", 1), slot>>
          [] kind = "hash" -> <<Word("hash header", 4), Word("flags", 0), slot,
                                slot, slot, Word("raw", 0)>>
          [] kind = "raw" -> <<Word("raw header", 1), Word("raw", 0)>>
          [] kind = "macptr" -> <<Word("macptr header", 1), Word("raw", 1)>>
          [] kind = "arm code" -> <<Word("code header", 5), Word("code", 0), Word("code", 0),
               Word("zero", 0), Word("offset", 4), Word("raw", 0)>>
          [] kind = "arm function" -> <<Word("entry header", 3), Word("entry", 0),
               Word("code slot", 0), slot>>
          [] kind = "ppc code" -> <<Word("code header", 3), Word("code", 0), Word("code", 0),
               Word("code", 0)>>
          [] kind = "ppc function" -> <<Word("node header", 2), Word("code slot", 0), slot,
               Word("raw", 0)>>

TagOf(kind) ==
    CASE kind \in {"cons", "symbol", "function"} -> kind
      [] kind = "closure" -> "function"
      [] OTHER -> "misc"

(* Where the objects of a layout begin.                                    *)
BaseOf(layout, i) ==
    FoldLeft(LAMBDA n, k : n + Len(Template(k)), 0, SubSeq(layout, 1, i - 1))

References(layout) ==
    {Word(TagOf(layout[i]), BaseOf(layout, i)) : i \in DOMAIN layout}

(* Return addresses point into the code of a function.                     *)
ReturnAddresses(layout) ==
    LET into(kinds, tag) == {Word(tag, BaseOf(layout, i) + 2) :
                               i \in {j \in DOMAIN layout : layout[j] \in kinds}}
    IN  into({"function"}, "tra") \cup into({"arm code", "ppc code"}, "pc")

(* A static cell refers to a package: one that came with the image, in the *)
(* managed static area, whose memoized dnode refers to the first object of *)
(* the dynamic area; or a fresh one, that object itself.  Without packages *)
(* there is a collector, but no Lisp.                                      *)
Static == {"saved package", "fresh package", "none"}

Package(layout) ==
    (ManagedLow :> Nil) @@ (ManagedLow + 1 :> Word(TagOf(layout[1]), 0))

StaticRoot(layout, static) ==
    CASE static = "saved package" -> Word("cons", ManagedLow)
      [] static = "fresh package" -> Word(TagOf(layout[1]), 0)
      [] OTHER -> Nil

InitArea(layout, static, froze, count) ==
    LET words == FlattenSeq([i \in DOMAIN layout |-> Template(layout[i])])
        tagged(t) == {w \in 0..(Len(words) - 1) : words[w + 1].tag = t}
        slots == tagged("slot") \cup tagged("code slot")
        inTable(w) == w > 0 /\ words[w].tag = "table header"
        values == References(layout) \cup {Nil}
        headed(t) == {ref \in References(layout) : words[ref.at + 1].tag = t}
        managed == IF static = "saved package" THEN Package(layout) ELSE <<>>
    IN  /\ \E cells \in [slots -> values] :
             /\ \A w \in slots : inTable(w) <=> cells[w] \in headed("hash header")
             /\ \A w \in tagged("code slot") : cells[w] \in headed("code header")
             /\ heap = [w \in 0..(Len(words) - 1) |->
                          CASE w \in slots -> cells[w]
                            [] w \in tagged("entry") -> Word("entry", cells[w + 1].at + 1)
                            [] OTHER -> words[w + 1]] @@ managed
        /\ \E words1 \in [1..count -> values \cup ReturnAddresses(layout)] :
             roots = Append(words1, StaticRoot(layout, static))
        /\ refbits = {w \div 2 : w \in DOMAIN managed}
        /\ frozen = froze
        /\ was = [heap |-> heap, roots |-> roots]
        /\ marks = {} /\ stack = <<>> /\ todo = 1
        /\ prev = Undefined /\ this = Nil /\ next = Nil
        /\ reloc = <<>> /\ src = 0 /\ dest = 0

(* The dynamic area.                                                       *)
Words == {w \in DOMAIN heap : w < PureLow}
Dnodes == {w \div 2 : w \in Words}

(* The next collection, of an area that is not empty.                      *)
StartCollection(h, r) ==
    /\ marks' = {} /\ todo' = 1 /\ reloc' = <<>> /\ src' = 0 /\ dest' = 0
    /\ was' = [heap |-> h, roots |-> r]
    /\ pc' = IF 0 \in DOMAIN h THEN "roots" ELSE "collected"
    /\ UNCHANGED <<frozen, stack, prev, this, next, limit>>

(* A return address stands for its function, whose place is in the code,   *)
(* or for its code.                                                        *)
Target(ref) ==
    CASE ref.tag = "tra" -> Word("function", ref.at - 2)
      [] ref.tag = "pc" -> Word("misc", ref.at - 2)
      [] ref.tag = "entry" -> Word("misc", ref.at - 1)
      [] OTHER -> ref

IsHeader(word) == word.tag \in NodeHeaders \cup RawHeaders

DnodesOf(h, ref) ==
    LET count == IF ref.tag = "cons" THEN 1 ELSE h[ref.at].at
    IN  {ref.at \div 2 + i : i \in 0..((count + 2) \div 2 - 1)}

(* The words of an object that are marked through, in the order in which   *)
(* mark_root and rmark visit them: the car before the cdr, the elements    *)
(* from the last to the first, and of a function only the constants.       *)
Elements(h, ref) ==
    LET header == h[ref.at]
        skip == IF header.tag \in FunctionHeaders THEN h[ref.at + 1].at ELSE 0
    IN  CASE ref.tag = "cons" -> <<ref.at + 1, ref.at>>
          [] ref.tag # "cons" /\ header.tag \in NodeHeaders ->
               [i \in 1..(header.at - skip) |-> ref.at + header.at + 1 - i]
          [] OTHER -> <<>>

Refers(word) == word.tag \in NodeTags /\ word.at \in Words
Markable(ref) == Refers(ref) /\ Target(ref).at \div 2 \notin marks

----------------------------------------------------------------------------
(* mark_root and rmark.  One call is a step; marking covers all dnodes of  *)
(* the object at once in the recursive marker.                             *)

Call(ref) ==
    /\ marks' = marks \cup DnodesOf(heap, ref)
    /\ stack' = <<Elements(heap, ref)>> \o stack

(* The words outside the area that are marked from: watched objects, and   *)
(* of the managed static area the memoized dnodes (mark_managed_static_    *)
(* refs), of which the ones that no longer refer to the area are forgotten.*)
Watched == {w \in DOMAIN heap : w >= WatchedLow}
Managed == {w \in DOMAIN heap \ Watched : w >= ManagedLow}
Memoized(w) == w \in Managed /\ w \div 2 \in refbits
MutantOutside == roots
Outside ==
    LET word(w) == IF w \in Watched \/ Memoized(w) THEN heap[w] ELSE Nil
        row(low, W) == IF W = {} THEN <<>>
                         ELSE [i \in 1..(Max(W) - low + 1) |-> word(low + i - 1)]
    IN  roots \o row(ManagedLow, Managed) \o row(WatchedLow, Watched)
KeptRefbits == {d \in refbits : Refers(heap[2 * d]) \/ Refers(heap[2 * d + 1])}

MutantMarkRoot ==
    LET ref == Outside[todo]
    IN  /\ pc = "roots" /\ stack = <<>> /\ todo <= Len(Outside)
        /\ IF Markable(ref) THEN Call(Target(ref)) /\ todo' = todo + 1
                            ELSE UNCHANGED <<marks, stack, todo>>
        /\ UNCHANGED <<heap, roots, refbits, pc, prev, this, next, limit, reloc, src, dest, was>>
MarkRoot ==
    LET ref == Outside[todo]
    IN  /\ pc = "roots" /\ stack = <<>> /\ todo <= Len(Outside)
        /\ IF Markable(ref) THEN Call(Target(ref)) ELSE UNCHANGED <<marks, stack>>
        /\ todo' = todo + 1
        /\ UNCHANGED <<heap, roots, refbits, pc, prev, this, next, limit, reloc, src, dest, was>>

Visit == heap[Head(Head(stack))]
Visited == <<Tail(Head(stack))>> \o Tail(stack)

SkipElement ==
    /\ pc = "roots" /\ stack # <<>> /\ Head(stack) # <<>> /\ ~Markable(Visit)
    /\ stack' = Visited
    /\ UNCHANGED <<heap, roots, refbits, marks, pc, prev, this, next, limit, todo, reloc,
                   src, dest, was>>

(* The first call is mark_root's, which does not count.                    *)
Recur ==
    /\ pc = "roots" /\ stack # <<>> /\ Head(stack) # <<>> /\ Markable(Visit)
    /\ Len(stack) <= limit
    /\ marks' = marks \cup DnodesOf(heap, Visit)
    /\ stack' = <<Elements(heap, Visit)>> \o Visited
    /\ UNCHANGED <<heap, roots, refbits, pc, prev, this, next, limit, todo, reloc, src,
                   dest, was>>

ReturnFromCall ==
    /\ pc = "roots" /\ stack # <<>> /\ Head(stack) = <<>>
    /\ stack' = Tail(stack)
    /\ UNCHANGED <<heap, roots, refbits, marks, pc, prev, this, next, limit, todo, reloc,
                   src, dest, was>>

----------------------------------------------------------------------------
(* The link-inverting marker.  While an object is being marked the slot    *)
(* its reference was found in holds the reference to the object before it, *)
(* as "prev": tagged "cons" when the cdr is being marked, "car" when the   *)
(* car is, and with the tag of the vector and the address of the slot      *)
(* otherwise.                                                              *)

Mark(ref) == marks' = marks \cup {ref.at \div 2}

Descend(ref) ==
    /\ this' = ref
    /\ pc' = IF ref.tag = "cons" THEN "mark cons" ELSE "mark vector"

(* Out of stack.                                                           *)
Invert ==
    /\ pc = "roots" /\ stack # <<>> /\ Head(stack) # <<>> /\ Markable(Visit)
    /\ Len(stack) > limit
    /\ Mark(Visit) /\ Descend(Visit) /\ prev' = Undefined
    /\ stack' = Visited
    /\ UNCHANGED <<heap, roots, refbits, next, limit, todo, reloc, src, dest, was>>

MarkCons ==
    /\ pc = "mark cons"
    /\ LET car == heap[this.at + 1]
       IN  IF Markable(car)
             THEN /\ Mark(car) /\ Descend(car)
                  /\ heap' = [heap EXCEPT ![this.at + 1] = prev]
                  /\ prev' = Word("car", this.at)
                  /\ UNCHANGED next
             ELSE /\ pc' = "mark cdr" /\ next' = car
                  /\ UNCHANGED <<heap, marks, prev, this>>
    /\ UNCHANGED <<roots, refbits, stack, limit, todo, reloc, src, dest, was>>

MarkCdr ==
    /\ pc = "mark cdr"
    /\ LET cdr == heap[this.at]
       IN  IF Markable(cdr)
             THEN /\ Mark(cdr) /\ Descend(cdr)
                  /\ heap' = [heap EXCEPT ![this.at] = prev]
                  /\ prev' = Word("cons", this.at)
                  /\ UNCHANGED next
             ELSE /\ pc' = "climb" /\ next' = cdr
                  /\ UNCHANGED <<heap, marks, prev, this>>
    /\ UNCHANGED <<roots, refbits, stack, limit, todo, reloc, src, dest, was>>

(* All dnodes of the object are marked.  The boundary word of a function   *)
(* keeps the way back to the reference to it.                              *)
MarkVector ==
    LET header == heap[this.at]
        boundary == this.at + heap[this.at + 1].at
    IN  /\ pc = "mark vector"
        /\ marks' = marks \cup DnodesOf(heap, this)
        /\ heap' = IF header.tag \in FunctionHeaders
                     THEN [heap EXCEPT ![boundary].at = this.at - boundary]
                     ELSE heap
        /\ IF header.tag \in NodeHeaders
             THEN /\ pc' = "mark vector loop"
                  /\ this' = Word(this.tag, this.at + header.at + 1)
             ELSE pc' = "climb" /\ UNCHANGED this
        /\ UNCHANGED <<roots, refbits, stack, prev, next, limit, todo, reloc, src, dest, was>>

MarkVectorLoop ==
    LET w == this.at - 1
        word == heap[w]
    IN  /\ pc = "mark vector loop"
        /\ CASE this.tag = "function" /\ word.tag = "boundary" ->   \* MarkFunctionDone
                  /\ this' = Word("function", w + word.at)
                  /\ heap' = [heap EXCEPT ![w].at = 0]
                  /\ pc' = "climb"
                  /\ UNCHANGED <<marks, prev>>
             [] word.tag \in NodeHeaders ->                         \* MarkVectorDone
                  /\ this' = Word(this.tag, w)
                  /\ pc' = "climb"
                  /\ UNCHANGED <<heap, marks, prev>>
             [] Markable(word) ->
                  /\ Mark(word) /\ Descend(word)
                  /\ heap' = [heap EXCEPT ![w] = prev]
                  /\ prev' = Word(this.tag, w)
             [] OTHER ->
                  /\ this' = Word(this.tag, w)
                  /\ UNCHANGED <<heap, marks, prev, pc>>
        /\ UNCHANGED <<roots, refbits, stack, next, limit, todo, reloc, src, dest, was>>

(* The slot that holds the link of "prev".                                 *)
MutantSlot(p) == p.at
Slot(p) == IF p.tag = "car" THEN p.at + 1 ELSE p.at

(* ClimbCdr, ClimbCar, ClimbVector: the link is restored.                  *)
Climb ==
    /\ pc = "climb" /\ prev # Undefined
    /\ heap' = [heap EXCEPT ![Slot(prev)] = this]
    /\ prev' = heap[Slot(prev)]
    /\ next' = this
    /\ this' = IF prev.tag = "car" THEN Word("cons", prev.at) ELSE prev
    /\ pc' = CASE prev.tag = "cons" -> "climb"
               [] prev.tag = "car" -> "mark cdr"
               [] OTHER -> "mark vector loop"
    /\ UNCHANGED <<roots, refbits, marks, stack, limit, todo, reloc, src, dest, was>>

ClimbRoot ==
    /\ pc = "climb" /\ prev = Undefined
    /\ pc' = "roots" /\ this' = Nil /\ next' = Nil
    /\ UNCHANGED <<heap, roots, refbits, marks, stack, prev, limit, todo, reloc, src, dest, was>>

----------------------------------------------------------------------------
(* Relocation.                                                             *)

(* Dnodes that will precede dnode d: what is frozen keeps its place.       *)
Frozen == 0..(frozen - 1)
Before(d) == Cardinality((marks \cup Frozen) \cap 0..(d - 1))

CalculateRelocation ==
    /\ pc = "roots" /\ stack = <<>> /\ todo > Len(Outside)
    /\ refbits' = KeptRefbits
    /\ reloc' = [p \in (frozen \div WordBits)..(Max(Dnodes) \div WordBits + 1) |->
                   Before(p * WordBits)]
    /\ pc' = "forward"
    /\ UNCHANGED <<heap, roots, marks, marker, limit, src, dest, was>>

FirstUnmarked == Min({d \in frozen..(Max(Dnodes) + 1) : d \notin marks})

(* dnode_forwarding_address: the relocation of the pagelet and the marks   *)
(* that precede the dnode in its word of mark bits.                        *)
MutantForwarding(d) == reloc[d \div WordBits]

ForwardingAddress(d) ==
    LET pagelet == d \div WordBits
    IN  reloc[pagelet] + Cardinality(marks \cap (pagelet * WordBits)..(d - 1))

Forward(word) ==
    IF Refers(word) /\ word.at \div 2 >= FirstUnmarked
      THEN Word(word.tag, 2 * ForwardingAddress(word.at \div 2) + (word.at % 2))
      ELSE word

(* A hash vector whose keys are hashed by address is told when one moves:  *)
(* nhash_key_moved_mask.                                                   *)
KeysIn(h, base) ==
    {base + HashFields + 2 * i - 1 : i \in 1..((h[base].at - HashFields) \div 2)}

MutantKeyMoved(h, base) == \E w \in KeysIn(h, base) : Forward(h[w + 1]) # h[w + 1]
KeyMoved(h, base) == \E w \in KeysIn(h, base) : Forward(h[w]) # h[w]

HasFlags(h, w) == w > 0 /\ h[w].tag = "flags"

Forwarded(h, w) ==
    IF HasFlags(h, w) /\ KeyMoved(h, w - 1) THEN Word("flags", 1) ELSE Forward(h[w])

(* reclaim_static_dnodes zeroes the frozen dnodes that are not marked.      *)
Reclaimed(w) == w \div 2 \in Frozen \ marks

(* What lies below the first unmarked dnode stays, and is forwarded in     *)
(* place; then the roots are forwarded.                                    *)
ForwardRange ==
    /\ pc = "forward"
    /\ heap' = [w \in DOMAIN heap |->
                  CASE Reclaimed(w) -> Word("raw", 0)
                    [] w < 2 * FirstUnmarked /\ w \div 2 \in marks -> Forwarded(heap, w)
                    [] OTHER -> heap[w]]
    /\ pc' = "forward roots"
    /\ UNCHANGED <<roots, refbits, marks, marker, limit, reloc, src, dest, was>>

ForwardRoots ==
    /\ pc = "forward roots"
    /\ roots' = [i \in DOMAIN roots |-> Forward(roots[i])]
    /\ heap' = [w \in DOMAIN heap |-> CASE Memoized(w) -> Forward(heap[w])
                                        [] w \in Watched -> Forwarded(heap, w)
                                        [] OTHER -> heap[w]]
    /\ src' = 2 * FirstUnmarked /\ dest' = src'
    /\ pc' = "compact"
    /\ UNCHANGED <<refbits, marks, marker, limit, reloc, was>>

----------------------------------------------------------------------------
(* compact_dynamic_heap: one object a step.                                *)

NextMarked(w) ==
    Min({2 * d : d \in {e \in marks : 2 * e >= w}} \cup {Cardinality(Words)})

SkipUnmarked ==
    /\ pc = "compact" /\ src \in Words /\ src \div 2 \notin marks
    /\ src' = NextMarked(src)
    /\ UNCHANGED <<heap, roots, refbits, marks, pc, marker, limit, reloc, dest, was>>

SizeAt(w) ==
    2 * Cardinality(DnodesOf(heap, Word(IF IsHeader(heap[w]) THEN "misc" ELSE "cons", w)))

MoveObject ==
    LET size == SizeAt(src)
    IN  /\ pc = "compact" /\ src \in Words /\ src \div 2 \in marks
        /\ heap' = [w \in DOMAIN heap |->
                      IF w \in dest..(dest + size - 1)
                        THEN Forwarded(heap, src + w - dest) ELSE heap[w]]
        /\ src' = src + size /\ dest' = dest + size
        /\ UNCHANGED <<roots, refbits, marks, pc, marker, limit, reloc, was>>

(* What lies above the last survivor is free.                              *)
Finish ==
    /\ pc = "compact" /\ src \notin Words
    /\ heap' = Restrict(heap, {w \in DOMAIN heap : w \notin Words \/ w < dest})
    /\ pc' = "collected"
    /\ UNCHANGED <<roots, refbits, marks, marker, limit, reloc, src, dest, was>>

CollectStep ==
    \/ MarkRoot \/ SkipElement \/ Recur \/ ReturnFromCall
    \/ Invert \/ MarkCons \/ MarkCdr \/ MarkVector \/ MarkVectorLoop \/ Climb
    \/ ClimbRoot
    \/ CalculateRelocation \/ ForwardRange \/ ForwardRoots
    \/ SkipUnmarked \/ MoveObject \/ Finish

Collect == CollectStep /\ UNCHANGED frozen

----------------------------------------------------------------------------
(* Properties.                                                             *)

(* The heap as the program left it, from the inverted links: starting at   *)
(* "prev", every slot on the way back to the root gets the reference to    *)
(* the object above it.                                                    *)
HeaderOf(h, w) == Max({0} \cup {v \in 0..w : IsHeader(h[v])})

ObjectOf(h, p) ==
    IF p.tag \in {"cons", "car"} THEN Word("cons", p.at)
                                 ELSE Word(p.tag, HeaderOf(h, p.at))

Climbed(s) ==
    [heap |-> [s.heap EXCEPT ![Slot(s.prev)] = s.this],
     this |-> ObjectOf(s.heap, s.prev), prev |-> s.heap[Slot(s.prev)]]

Restored ==
    LET object == IF pc = "mark vector loop"
                    THEN Word(this.tag, HeaderOf(heap, this.at - 1)) ELSE this
        climb[n \in 0..Cardinality(Words)] ==
          IF n = 0 THEN [heap |-> heap, this |-> object, prev |-> prev]
            ELSE LET s == climb[n - 1] IN IF s.prev = Undefined THEN s ELSE Climbed(s)
        h == climb[Cardinality(Words)].heap
    IN  [w \in DOMAIN h |-> IF h[w].tag = "boundary" THEN Word("boundary", 0) ELSE h[w]]

Marking ==
    pc \in {"roots", "mark cons", "mark cdr", "mark vector", "mark vector loop", "climb"}

(* At every step of the marker the inverted links lead back to the root,   *)
(* and undoing them gives the heap as it was: rmark leaves no link         *)
(* inverted, whatever the shape of the heap and wherever the stack ends.   *)
LinksRestorable == Marking => Restored = was.heap

(* The objects of the dynamic area that can be reached from the roots or   *)
(* from any word of the other areas, memoized or not.                      *)
WordsWas == {w \in DOMAIN was.heap : w < PureLow}

Children(ref) ==
    {Target(was.heap[w]) : w \in Range(Elements(was.heap, ref))}

Reachable ==
    LET nodes(refs) == {ref \in refs : ref.tag \in NodeTags /\ ref.at < PureLow}
        outside == {was.heap[w] : w \in DOMAIN was.heap \ WordsWas}
        reach[n \in 0..(Cardinality(WordsWas) \div 2)] ==
          IF n = 0 THEN nodes({Target(was.roots[i]) : i \in DOMAIN was.roots} \cup outside)
            ELSE LET S == reach[n - 1]
                 IN  S \cup nodes(UNION {Children(ref) : ref \in S})
    IN  reach[Cardinality(WordsWas) \div 2]

(* When marking ends, the marked dnodes are those of the reachable         *)
(* objects, every dnode of each of them and no other.                      *)
MarksTheReachable ==
    pc \in {"forward", "forward roots", "compact", "collected"}
      => marks = UNION {DnodesOf(was.heap, ref) : ref \in Reachable}

(* The place of the objects that survive: in order, without gaps.          *)
Place(w) == 2 * Before(w \div 2) + (w % 2)

Slid(word) ==
    IF word.tag \in Addresses /\ word.at \in WordsWas
      THEN Word(word.tag, Place(word.at)) ELSE word

(* When the collection ends, the frozen dnodes are where they were, the    *)
(* other survivors lie above them without gaps in the order in which they  *)
(* lay, and they and the words outside refer to what they referred to.     *)
SurvivorsSlide ==
    pc = "collected" =>
      /\ \A i \in DOMAIN roots : roots[i] = Slid(was.roots[i])
      /\ \A w \in WordsWas : w \div 2 \in marks /\ was.heap[w].tag # "flags"
           => heap[Place(w)] = Slid(was.heap[w])
      /\ \A w \in DOMAIN was.heap \ WordsWas :
           was.heap[w].tag # "flags" => heap[w] = Slid(was.heap[w])
      /\ Words = 0..(2 * Cardinality(marks \cup Frozen) - 1)

(* A hash vector with a key that the collection moved says so, and one     *)
(* whose keys stayed is not rehashed for nothing.                          *)
CollectionFlags ==
    LET scanned(w) == w \in Watched \/ (w \in WordsWas /\ w \div 2 \in marks)
        place(w) == IF w \in Watched THEN w ELSE Place(w)
    IN  pc = "collected" =>
          \A w \in {v \in DOMAIN was.heap : was.heap[v].tag = "flags" /\ scanned(v)} :
            heap[place(w)].at = 1 <=>
              \/ was.heap[w].at = 1
              \/ \E k \in KeysIn(was.heap, w - 1) : Slid(was.heap[k]) # was.heap[k]
=============================================================================
