-------------------------- MODULE SaveApplication --------------------------
(***************************************************************************)
(* The gc traps of lisp-kernel/x86-exceptions.c (handle_gc_trap): a full   *)
(* collection (Collector), and then, as the selector asks for:             *)
(*   - impurify: the readonly and the managed static area move back to the *)
(*     dynamic area, which is collected again;                             *)
(*   - purify: ivectors and functions that do not change are copied to the *)
(*     readonly area, what they refer to to the managed static area, and   *)
(*     what was left behind is collected;                                  *)
(*   - save-application: the areas are written to an image (image.c), and  *)
(*     a new process maps them, perhaps at other addresses;                *)
(*   - freeze: what is in the dynamic area stays where it is.              *)
(* A watch trap moves an object to an area of its own, or back.            *)
(* After purify the collector no longer looks at the readonly area, and    *)
(* only at the memoized dnodes of the managed static area.                 *)
(***************************************************************************)
EXTENDS Collector

CONSTANTS
    Programs,     \* what runs: [port, layout, static, frozen, stack, limits, calls]
    ReadonlyRoom, \* words of the readonly area
    Biases        \* distances between the address of an image and the next

Selectors ==
    SUBSET {"impurify", "purify", "save"}
      \cup {{"freeze"}, {"flash freeze"}, {"watch"}, {"unwatch"}, {"rehash"}}

Ports == {"x86", "arm", "ppc"}

ASSUME ProgramsAssumption ==
    /\ \A p \in Programs :
         /\ p.port \in Ports /\ p.layout \in Seq(Kinds) \ {<<>>} /\ p.static \in Static
         /\ p.static = "none" => \A i \in DOMAIN p.calls : p.calls[i] = {}
         /\ p.frozen \in Nat /\ p.frozen % WordBits = 0
         /\ p.stack \in Nat /\ p.limits \subseteq Nat /\ p.calls \in Seq(Selectors)
    /\ ReadonlyRoom \in 0..(ManagedLow - PureLow) /\ Biases \subseteq Nat

VARIABLES
    calls,     \* the gc traps the program still makes
    selector,  \* what the current one still has to do after its collection
    bias,      \* image_base - ACTUAL_IMAGE_BASE: how far the image moved
    before     \* history: the call, and heap and roots when it was made

vars == <<collectorVars, calls, selector, bias, before>>

InitProgram(p) ==
    /\ InitArea(p.layout, p.static, p.frozen, p.stack) /\ limit \in p.limits
    /\ pc = "running" /\ calls = p.calls
    /\ selector = {} /\ bias = 0
    /\ before = [heap |-> heap, roots |-> roots, call |-> {}]

Init == \E p \in Programs : p.port = "x86" /\ InitProgram(p)

(* The program makes its next call.                                        *)
Calls(possible) ==
    /\ pc = "running" /\ calls # <<>> /\ Head(calls) \in possible
    /\ calls' = Tail(calls)
    /\ bias' = 0 /\ before' = [heap |-> heap, roots |-> roots, call |-> Head(calls)]

(* To save, it has pushed a function to start with, and watches nothing.   *)
GcTrap ==
    /\ Calls(SUBSET {"impurify", "purify", "save"} \cup {{"freeze"}})
    /\ "save" \in Head(calls) => roots[1].tag \notin {"tra", "pc"}
    /\ Head(calls) \cap {"impurify", "purify", "save"} # {} => Watched = {}
    /\ selector' = Head(calls)
    /\ StartCollection(heap, roots)
    /\ UNCHANGED <<heap, roots, refbits>>

----------------------------------------------------------------------------
(* Memory: the words of the three areas and, above them, the roots.        *)

RootsLow == 1000
Memory ==
    heap @@ [w \in {RootsLow + i : i \in DOMAIN roots} |-> roots[w - RootsLow]]
HeapOf(m) == Restrict(m, {w \in DOMAIN m : w < RootsLow})
RootsOf(m) == [i \in DOMAIN roots |-> m[RootsLow + i]]
StaticCell == RootsLow + Len(roots)

InArea(w, low) == low <= w /\ w < low + PureLow
AreaWords(m, low) == {w \in DOMAIN m : w < RootsLow /\ InArea(w, low)}
Active(m, low) == low + Cardinality(AreaWords(m, low))

ForwardMarker == Word("forward marker", 0)

ObjectSize(m, w) ==
    IF IsHeader(m[w]) THEN 2 * Cardinality(DnodesOf(m, Word("misc", w))) ELSE 2

(* The objects of an area, in the order of their addresses.                *)
ObjectsIn(m, low) ==
    LET walk(s, w) == IF w < s.end THEN s
                        ELSE [end |-> w + ObjectSize(m, w), found |-> Append(s.found, w)]
    IN  FoldLeft(walk, [end |-> low, found |-> <<>>],
                 [i \in 1..Cardinality(AreaWords(m, low)) |-> low + i - 1]).found

(* The words of an object that may hold references, as they are scanned.   *)
Scanned(m, w) ==
    IF IsHeader(m[w]) THEN Reverse(Elements(m, Word("misc", w))) ELSE <<w, w + 1>>

----------------------------------------------------------------------------
(* Purify.                                                                 *)

(* purify_displaced_object: every dnode that is left says where it went.   *)
CopyObject(m, old, area) ==
    LET free == Active(m, area)
        size == ObjectSize(m, old)
    IN  [w \in DOMAIN m \cup free..(free + size - 1) |->
           CASE w \in free..(free + size - 1) -> m[old + w - free]
             [] w \in old..(old + size - 1) ->
                  IF w % 2 = 0 THEN ForwardMarker
                               ELSE Word("forwarded", free + (w - 1) - old)
             [] OTHER -> m[w]]

Ivector(word) == word.tag \in RawHeaders /\ word.tag # "macptr header"
ImmutableFunction(word) == word.tag = "function header"

(* What is copied: "pure" asks for PURIFY_IVECTORS | PURIFY_FUNCTIONS.     *)
Wanted(word, what) ==
    what = "all" \/ (what = "pure" /\ (Ivector(word) \/ ImmutableFunction(word)))

(* copy_reference of the word at w.                                        *)
Locates(m, w) == m[w].tag \in NodeTags /\ m[w].at < PureLow
Moveable(w) == 2 * frozen <= w /\ w < PureLow

CopyReference(m, w, area, what) ==
    LET ref == m[w]
    IN  IF ~(Locates(m, w) /\ Moveable(ref.at)) THEN m
          ELSE IF m[ref.at] = ForwardMarker
                 THEN [m EXCEPT ![w] = Word(ref.tag, m[ref.at + 1].at)]
          ELSE IF ref.tag # "tra" /\ Wanted(m[ref.at], what)
                 THEN [CopyObject(m, ref.at, area) EXCEPT
                         ![w] = Word(ref.tag, Active(m, area))]
          ELSE m

(* A hash vector with a key that is an object is to be rehashed.           *)
Rehashed(m, w) ==
    IF m[w].tag = "hash header" /\ \E k \in KeysIn(m, w) : m[k].tag \in NodeTags
      THEN [m EXCEPT ![w + 1] = Word("flags", 1)] ELSE m

(* purify_range, for the object at w.                                      *)
PurifyObject(m, w, area, what) ==
    LET scan(n, v) == CopyReference(n, v, area, what)
        scanned == Rehashed(FoldLeft(scan, m, Scanned(m, w)), w)
        pure == Moveable(w) /\ what = "pure"
    IN  IF m[w] = ForwardMarker THEN m
          ELSE IF pure /\ (Ivector(scanned[w]) \/ ImmutableFunction(scanned[w]))
                 THEN CopyObject(scanned, w, area)
                 ELSE scanned

PurifyArea(m, low, area, what) ==
    LET purify(n, w) == PurifyObject(n, w, area, what)
    IN  FoldLeft(purify, m, ObjectsIn(m, low))

(* purify_areas and purify_tcr_xframes: the dynamic and the managed static *)
(* area, the static area and the stacks.                                   *)
PurifyAreas(m, area, what) ==
    LET reference(n, i) == CopyReference(n, RootsLow + i, area, what)
    IN  FoldLeft(reference, PurifyArea(PurifyArea(m, 0, area, what), ManagedLow, area, what),
                 [i \in DOMAIN roots |-> i])

(* copy_reference that recurs: of what it copies only conses and simple    *)
(* vectors are scanned, in their turn.                                     *)
Shallow(word) == word.tag \in (NodeHeaders \ {"node header"}) \cup RawHeaders

CopyConstant(m, w) ==
    LET copy(n, v) == CopyReference(n, v, ManagedLow, "all")
        scanNext(s, i) ==
          IF s.scan = Active(s.m, ManagedLow) THEN s
            ELSE [m |-> IF Shallow(s.m[s.scan]) THEN s.m
                          ELSE FoldLeft(copy, s.m, Scanned(s.m, s.scan)),
                  scan |-> s.scan + ObjectSize(s.m, s.scan)]
    IN  FoldLeft(scanNext, [m |-> copy(m, w), scan |-> Active(m, ManagedLow)],
                 [i \in 1..Cardinality(DOMAIN m) |-> i]).m

(* The packages, one by one, and then the constants of the pure functions. *)
PurifyConstants(m) ==
    LET constants(n, w) == FoldLeft(CopyConstant, n, Scanned(n, w))
    IN  FoldLeft(constants, CopyReference(m, StaticCell, ManagedLow, "all"),
                 ObjectsIn(m, PureLow))

(* update_managed_refs: the dnodes of the managed static area that refer   *)
(* to the dynamic area.                                                    *)
ManagedRefs(m) == {w \div 2 : w \in {v \in AreaWords(m, ManagedLow) : Locates(m, v)}}

(* unboxed_bytes_in_range and extend_readonly_area: room for all that may  *)
(* become pure, or nothing does.                                           *)
HasReadonlyRoom ==
    LET pure == {w \in ToSet(ObjectsIn(heap, 0)) :
                   Moveable(w) /\ (heap[w].tag \in RawHeaders \/ ImmutableFunction(heap[w]))}
        size(w) == ObjectSize(heap, w)
    IN  Cardinality(AreaWords(heap, PureLow))
          + MapThenSumSet(size, pure) <= ReadonlyRoom

Purified ==
    PurifyAreas(PurifyConstants(PurifyAreas(Memory, PureLow, "pure")), PureLow, "nothing")

Purify ==
    /\ pc = "collected" /\ "impurify" \notin selector /\ "purify" \in selector
    /\ IF HasReadonlyRoom
         THEN LET m == Purified
              IN  /\ heap' = HeapOf(m) /\ roots' = RootsOf(m) /\ refbits' = ManagedRefs(m)
                  /\ StartCollection(heap', roots')
         ELSE /\ StartCollection(heap, roots)
              /\ UNCHANGED <<heap, roots, refbits>>
    /\ selector' = selector \ {"purify"}
    /\ UNCHANGED <<frozen, calls, bias, before>>

----------------------------------------------------------------------------
(* Impurify.                                                               *)

(* impurify_from_area: the words go to the end of the dynamic area, and    *)
(* every reference to them with them.                                      *)
ImpurifyFrom(m, area) ==
    LET oldfree == Active(m, 0)
        size == Cardinality(AreaWords(m, area))
        moved == [w \in (DOMAIN m \ AreaWords(m, area)) \cup oldfree..(oldfree + size - 1) |->
                    IF w \in oldfree..(oldfree + size - 1) THEN m[w - oldfree + area] ELSE m[w]]
        refers(word) == word.tag \in NodeTags /\ word.at \in area..(area + size - 1)
        flagged(w) == /\ moved[w].tag = "flags"
                      /\ \E k \in KeysIn(moved, w - 1) : refers(moved[k])
    IN  [w \in DOMAIN moved |->
           IF refers(moved[w]) THEN Word(moved[w].tag, moved[w].at - area + oldfree)
             ELSE IF flagged(w) THEN Word("flags", 1) ELSE moved[w]]

Impurify ==
    /\ pc = "collected" /\ "impurify" \in selector
    /\ LET m == ImpurifyFrom(ImpurifyFrom(Memory, PureLow), ManagedLow)
       IN  heap' = HeapOf(m) /\ roots' = RootsOf(m)
    /\ refbits' = {}
    /\ StartCollection(heap', roots')
    /\ selector' = selector \ {"impurify"}
    /\ UNCHANGED <<frozen, calls, bias, before>>

----------------------------------------------------------------------------
(* Frozen areas and watched objects.                                       *)

(* GC_TRAP_FUNCTION_FREEZE and _FLASH_FREEZE: what the area holds, rounded *)
(* up to whole words of mark bits (a page in the code), stays where it is. *)
(* Nothing refers to what the rest of the page holds.                      *)
Freeze ==
    LET size == Cardinality(Dnodes)
        dnodes == ((size + WordBits - 1) \div WordBits) * WordBits
    IN  /\ heap' = heap @@ [w \in (2 * size)..(2 * dnodes - 1) |-> Word("raw", 0)]
        /\ frozen' = dnodes
        /\ pc' = "running" /\ selector' = {}
        /\ UNCHANGED <<roots, refbits, marks, marker, limit, reloc, src, dest, was>>

FreezeCollected ==
    /\ pc = "collected" /\ selector = {"freeze"}
    /\ Freeze
    /\ UNCHANGED <<calls, bias, before>>

FlashFreeze == Calls({{"flash freeze"}}) /\ Freeze

(* wp_update_references: every reference to an object that has moved, in   *)
(* stacks, registers, bindings and all areas but the readonly area.        *)
Updated(m) == {w \in DOMAIN m : ~InArea(w, PureLow)}

UpdateReferences(m, old, new) ==
    LET keyed(w) == m[w].tag = "flags" /\ \E k \in KeysIn(m, w - 1) : m[k] = old
    IN  [w \in DOMAIN m |->
           CASE w \in Updated(m) /\ m[w] = old -> new
             [] w \in Updated(m) /\ keyed(w) -> Word("flags", 1)
             [] OTHER -> m[w]]

(* What a watch trap leaves: it is not a collection.                       *)
Rewritten(m) ==
    /\ heap' = HeapOf(m) /\ roots' = RootsOf(m)
    /\ UNCHANGED <<frozen, pc, marks, marker, limit, reloc, src, dest, was, selector>>

(* The program may watch a cons or a uvector; of a hash table, its vector. *)
Watchee(ref) ==
    IF ref.tag = "misc" /\ heap[ref.at].tag = "table header" THEN heap[ref.at + 1] ELSE ref

Watchable(ref) == ref.tag \in {"cons", "misc"} /\ Refers(ref)

(* watch_object.  Watched areas are never adjacent.                        *)
WatchObject(object) ==
    LET low == IF Watched = {} THEN WatchedLow ELSE Max(Watched) + 3
        size == ObjectSize(heap, object.at)
        copy == [w \in low..(low + size - 1) |-> heap[object.at + w - low]]
        zeroed == [w \in object.at..(object.at + size - 1) |-> Word("raw", 0)]
    IN  UpdateReferences(zeroed @@ copy @@ Memory, object, Word(object.tag, low))

Watch ==
    /\ Calls({{"watch"}})
    /\ \E object \in {Watchee(roots[i]) : i \in DOMAIN roots} :
         Rewritten(IF Watchable(object) THEN WatchObject(object) ELSE Memory)
    /\ UNCHANGED refbits

(* unwatch, which allocates a fresh object, and unwatch_object.            *)
Unwatch ==
    /\ Calls({{"unwatch"}})
    /\ \E low \in {w \in Watched : w - 1 \notin Watched} :
         LET tag == IF IsHeader(heap[low]) THEN "misc" ELSE "cons"
             old == low..(low + ObjectSize(heap, low) - 1)
             free == Active(heap, 0)
             copy == [w \in free..(free + Cardinality(old) - 1) |-> heap[low + w - free]]
             m == UpdateReferences(Restrict(copy @@ Memory, DOMAIN (copy @@ Memory) \ old),
                                   Word(tag, low), Word(tag, free))
         IN  Rewritten(m) /\ refbits' = refbits \cup ManagedRefs(m)

(* gethash finds that keys have moved, and rehashes the vectors that can   *)
(* be written to.                                                          *)
Rehash ==
    /\ Calls({{"rehash"}})
    /\ Rewritten([w \in DOMAIN Memory |->
                    IF Memory[w].tag = "flags" /\ w < PureLow THEN Word("flags", 0)
                                                              ELSE Memory[w]])
    /\ UNCHANGED refbits

----------------------------------------------------------------------------
(* Saving and loading an image.                                            *)

(* prepare_to_write_dynamic_space: foreign pointers mean nothing to        *)
(* another process.                                                        *)
Dead(word) == IF word.tag = "macptr header" THEN Word("dead macptr header", word.at) ELSE word

(* The first word of the stack is the function to start with; of the rest  *)
(* of the stacks and the registers nothing is written.                     *)
Save ==
    /\ pc = "collected" /\ selector = {"save"}
    /\ heap' = [w \in DOMAIN heap |-> IF InArea(w, PureLow) THEN heap[w] ELSE Dead(heap[w])]
    /\ roots' = [i \in DOMAIN roots |-> IF i \in {1, Len(roots)} THEN roots[i] ELSE Nil]
    /\ pc' = "saved"
    /\ UNCHANGED <<refbits, frozen, marks, marker, limit, reloc, src, dest, was,
                   calls, selector, bias, before>>

(* An address is relative to the base of the image: the words of an area   *)
(* that is not relocated are off by the bias.                              *)
Stale(word, b) == IF word.tag \in Addresses THEN Word(word.tag, word.at - b) ELSE word

(* relocate_area_contents, which flags the hash vectors.                   *)
Relocated(word) == IF word.tag = "flags" THEN Word("flags", 1) ELSE word

(* load_openmcl_image.                                                     *)
Load ==
    /\ pc = "saved"
    /\ \E b \in Biases :
         LET relocates(w) == b # 0
               /\ (InArea(w, PureLow) => AreaWords(heap, ManagedLow) # {})
         IN  /\ heap' = [w \in DOMAIN heap |-> IF relocates(w) THEN Relocated(heap[w])
                                                                ELSE Stale(heap[w], b)]
             /\ bias' = b
    /\ pc' = "running" /\ selector' = {}
    /\ UNCHANGED <<roots, refbits, frozen, marks, marker, limit, reloc, src, dest, was, calls,
                   before>>

Return ==
    /\ pc = "collected" /\ selector = {}
    /\ pc' = "running"
    /\ UNCHANGED <<heap, roots, refbits, frozen, marks, marker, limit, reloc, src, dest,
                   was, calls, selector, bias, before>>

CollectOnce == Collect /\ UNCHANGED <<calls, selector, bias, before>>

Next ==
    \/ GcTrap \/ CollectOnce \/ Impurify \/ Purify \/ Save \/ Load \/ Return
    \/ FreezeCollected \/ FlashFreeze \/ Watch \/ Unwatch \/ Rehash

(* Nothing interrupts a collection.                                        *)
Spec == Init /\ [][Next]_vars /\ WF_vars(CollectOnce)

----------------------------------------------------------------------------
(* Properties.                                                             *)

(* An object in memory, whatever the words of the heap are.                *)
Sound(h, ref) ==
    /\ ref.at \in DOMAIN h
    /\ ref.tag = "cons" \/ IsHeader(h[ref.at])
    /\ \A d \in DnodesOf(h, ref) : {2 * d, 2 * d + 1} \subseteq DOMAIN h

Fields(h, ref) ==
    [i \in 1..(2 * Cardinality(DnodesOf(h, ref))) |-> h[ref.at + i - 1]]

(* Pairs of a word before the call and the word that stands for it now:    *)
(* the roots that survive, and the words of objects that correspond.       *)
Comparable(p) ==
    /\ p[1].tag \in NodeTags /\ p[2].tag = p[1].tag
    /\ Sound(before.heap, p[1]) /\ Sound(heap, p[2])
    /\ Cardinality(DnodesOf(before.heap, p[1])) = Cardinality(DnodesOf(heap, p[2]))

Inside(p) ==
    LET old == Fields(before.heap, p[1]) new == Fields(heap, p[2])
    IN  {<<Target(old[i]), Target(new[i])>> : i \in DOMAIN old}

Loaded == pc = "running" /\ "save" \in before.call

Pairs ==
    LET surviving == IF Loaded THEN {1, Len(roots)} ELSE DOMAIN roots
        pairs[n \in 0..(Cardinality(DOMAIN before.heap) \div 2)] ==
          IF n = 0 THEN {<<Target(before.roots[i]), Target(roots[i])>> : i \in surviving}
            ELSE LET found == pairs[n - 1]
                 IN  found \cup UNION {Inside(p) : p \in {q \in found : Comparable(q)}}
    IN  pairs[Cardinality(DOMAIN before.heap) \div 2]

Same(old, new) ==
    \/ old.tag = "flags" /\ new.tag = "flags"
    \/ old.tag \notin NodeTags /\ new = (IF Loaded THEN Dead(old) ELSE old)

(* The collector does not look at the readonly area, and of the managed    *)
(* static area only at the memoized dnodes: neither ever refers to an      *)
(* object of the dynamic area that the collector would miss.  Nothing that *)
(* is written to lies in the readonly area.                                *)
PureIsClosed ==
    /\ \A w \in AreaWords(heap, PureLow) : ~Refers(heap[w])
    /\ \A w \in AreaWords(heap, ManagedLow) : Refers(heap[w]) => w \div 2 \in refbits
    /\ \A w \in ToSet(ObjectsIn(heap, PureLow)) :
         Ivector(heap[w]) \/ ImmutableFunction(heap[w])

(* What a gc trap leaves is the graph of objects that the program had,     *)
(* wherever the objects have gone: each object is one object, with the     *)
(* same contents, after any sequence of collections, impurify, purify and  *)
(* a load at another address.  Only a foreign pointer that was saved is    *)
(* dead.  A collection by itself slides the survivors, and the areas it    *)
(* does not look at refer to nothing that it could move.                   *)
GraphSurvives ==
    /\ SurvivorsSlide
    /\ PureIsClosed
    /\ pc \in {"collected", "running"} =>
         /\ \A p \in Pairs : Comparable(p) \/ Same(p[1], p[2])
         /\ \A p, q \in Pairs : p[1].tag \in NodeTags => (p[1] = q[1] <=> p[2] = q[2])

(* A hash vector with a key that is at a new address says so, or gethash   *)
(* would never find the key again, whatever moved it: the collector,       *)
(* purify, impurify, or the load of the image.                             *)
MovedKeysFlagged ==
    /\ CollectionFlags
    /\ pc \in {"collected", "running"} =>
         \A p \in {q \in Pairs : Comparable(q) /\ heap[q[2].at].tag = "hash header"} :
           (\E k \in KeysIn(heap, p[2].at) :
              heap[k].tag \in NodeTags
                /\ (bias # 0 \/ heap[k] # before.heap[k - p[2].at + p[1].at]))
           => heap[p[2].at + 1].at = 1

(* Every collection ends: marking does not chase links for ever.           *)
CollectionEnds == []<>(pc \in {"collected", "saved", "running"})
=============================================================================
