---------------------------- MODULE Generations ----------------------------
(***************************************************************************)
(* The ephemeral generations and the write barrier that lets the collector *)
(* find them: lisp-kernel/memory.c (tenure_to_area, untenure_from_area,    *)
(* egc_control), the choice of a generation and the treatment of the       *)
(* memoized dnodes in gc-common.c (gc, mark_memoized_area,                 *)
(* mark_managed_static_refs, forward_memoized_area, new_heap_segment), the *)
(* barrier subprims of x86-spentry64.s, and in x86-exceptions.c            *)
(* pc_luser_xp, which finishes the barrier of a stopped thread, and the    *)
(* allocation and collection traps.                                        *)
(*                                                                         *)
(* Memory is a row of dnodes 1 .. Statics + Dynamics, each holding one     *)
(* pointer (0 is NIL) or raw data.  The first Statics are the managed      *)
(* static area; a boundary b of the dynamic area stands for the address    *)
(* after dnode b, so tenured_area, g2_area, g1_area and the youngest       *)
(* generation are Statics+1..g2, g2+1..g1, g1+1..low and low+1..active.    *)
(* A collection is one step, since every other thread is stopped           *)
(* (ThreadSuspension); inside, it marks, slides and forwards as gc does.   *)
(***************************************************************************)
EXTENDS Integers, FiniteSets, FiniteSetsExt

CONSTANTS
    Threads, Roots,   \* Lisp threads; words of the stacks and the static area
    None,             \* no thread
    Statics,          \* dnodes of managed_static_area
    Dynamics,         \* dnodes of the dynamic area: HEAP_END is fixed
    WordBits,         \* bits of a bitmap word (64 in the kernel)
    IndexSpan,        \* dnodes that share a bit of a reference index (256)
    Quantum,          \* dnodes of an allocation segment
    Young, G1, G2,    \* thresholds of the youngest generation, of g1 and g2
    Allocators,       \* threads that cons and take traps
    Storers,          \* threads that call the barrier
    Unlocked,         \* those whose barrier ends with a btsq without lock prefix
    Elements,         \* roots whose value %allocate-list is given
    Switchers,        \* threads that switch the EGC beside consing threads
    Survivors,        \* bound: dnodes in use at the start
    MaxWork           \* bound: traps, conses, barriers and drops

Raw == -1
NoElement == -2
High == Statics + Dynamics
Dnodes == 1..High
Registers == Threads \X {"obj", "val"}
Slots == Roots \cup Registers

ASSUME GenerationsAssumption ==
    /\ None \notin Threads /\ Elements \subseteq Roots
    /\ Roots \cap Registers = {}
    /\ Allocators \cup Storers \cup Switchers \subseteq Threads
    /\ Unlocked \subseteq Storers
    /\ {Statics, Dynamics, WordBits, IndexSpan, Quantum, Young, G1, G2}
         \subseteq Nat \ {0}
    /\ IndexSpan % WordBits = 0
    /\ Survivors \in 0..Dynamics

VARIABLES
    mem,     \* the heap, its areas and bitmaps, and every root
    pc,      \* where each thread is in a subprim or a trap
    word,    \* the word of managed_static_refidx an unlocked btsq has read
    initial, \* the element %allocate-list has read, or NoElement
    seg,     \* dnodes left of each thread's allocation segment
    lock,    \* the owner of the exception lock
    work     \* traps, conses, barriers and drops so far

vars == <<mem, pc, word, initial, seg, lock, work>>

(* Fields of mem: heap and slot; refbits and refidx, the reference map of  *)
(* everything below low and its index, whose tail is the mark bits;        *)
(* sbits and sidx, the references from the managed static area to the      *)
(* dynamic area; the boundaries; oldest, OLDEST_EPHEMERAL (0 when nothing  *)
(* is ephemeral); oldspace, OLDSPACE_DNODE_COUNT; older, EGC enabled.      *)

----------------------------------------------------------------------------
(* Areas.                                                                  *)

RoundUp(n, k) == ((n + k - 1) \div k) * k
WordEnd(b) == Statics + RoundUp(b - Statics, WordBits)

(* The bit of the index that covers dnode d; the managed static area has   *)
(* bits of its own.                                                        *)
Group(d) == IF d <= Statics THEN -1 - (d - 1) \div IndexSpan
                            ELSE (d - Statics - 1) \div IndexSpan

(* A program that has run for a while: some dnodes have survived, each in  *)
(* some generation, and every reference that needs it is memoized.         *)
Between(m, b) == {d \in 1..b : m.heap[d] > b}

Memoized(m) ==
    LET refs == Between(m, m.g2) \cup Between(m, m.g1) \cup Between(m, m.low)
    IN  [m EXCEPT
           !.refbits = IF m.oldest = 0 THEN {} ELSE refs,
           !.refidx = IF m.oldest = 0 THEN {} ELSE {Group(d) : d \in refs},
           !.sbits = Between(m, Statics),
           !.sidx = {Group(d) : d \in Between(m, Statics)}]

Generational(m) ==
    \/ /\ m.g2 <= m.g1 /\ m.g1 <= m.low
       /\ m.oldest = m.g2 /\ m.oldspace = m.low /\ m.older
    \/ /\ m.g2 = Statics /\ m.g1 = Statics /\ m.low = Statics
       /\ m.oldest = 0 /\ m.oldspace = 0 /\ ~m.older

Init ==
    /\ \E live \in 0..Survivors :
       \E g2, g1, low \in Statics..(Statics + live), older \in BOOLEAN,
          cells \in [1..(Statics + live) -> {0, Raw} \cup 1..(Statics + live)],
          named \in [Roots -> 0..(Statics + live)] :
         LET m == [heap |-> [d \in Dnodes |-> IF d \in DOMAIN cells
                                                THEN cells[d] ELSE 0],
                   slot |-> [s \in Slots |-> IF s \in Roots THEN named[s] ELSE 0],
                   refbits |-> {}, refidx |-> {}, sbits |-> {}, sidx |-> {},
                   g2 |-> g2, g1 |-> g1, low |-> low, active |-> Statics + live,
                   oldest |-> IF older THEN g2 ELSE 0,
                   oldspace |-> IF older THEN low ELSE 0, older |-> older]
         IN  /\ Generational(m) /\ \A d \in 1..Statics : cells[d] # Raw
             /\ mem = Memoized(m)
    /\ pc = [t \in Threads |-> "idle"]
    /\ word = [t \in Threads |-> {}]
    /\ initial = [t \in Threads |-> NoElement]
    /\ seg = [t \in Threads |-> {}]
    /\ lock = None
    /\ work = 0

ZeroedBits(m, target) ==
    IF target = "tenured"
      THEN {d \in 1..Statics : Group(d) \in m.refidx}
             \cup (Statics + 1)..WordEnd(m.active)
      ELSE (WordEnd(m.low) + 1)..WordEnd(m.active)

TenureToArea(m, target) ==
    [m EXCEPT
       !.low = m.active,
       !.g1 = IF target = "g1" THEN @ ELSE m.active,
       !.g2 = IF target = "tenured" THEN m.active ELSE @,
       !.refbits = @ \ ZeroedBits(m, target),
       !.refidx = IF target = "tenured" THEN {} ELSE @,
       !.oldest = IF target = "tenured" THEN m.active ELSE @,
       !.oldspace = m.active]

UntenureFromArea(m, from) ==
    LET curlow == CASE from = "g1" -> m.g1
                    [] from = "g2" -> m.g2
                    [] from = "tenured" -> Statics
        base == [m EXCEPT !.low = curlow, !.g1 = curlow]
    IN  CASE m.oldest = 0 -> m
          [] m.oldest # 0 /\ from # "tenured" -> base
          [] OTHER -> [base EXCEPT !.g2 = curlow, !.oldest = 0, !.oldspace = 0]

EgcControl(m, activate) ==
    CASE activate = m.older -> m
      [] activate /\ ~m.older -> TenureToArea([m EXCEPT !.older = TRUE], "tenured")
      [] OTHER -> [UntenureFromArea(m, "tenured") EXCEPT !.older = FALSE]

----------------------------------------------------------------------------
(* The collection.                                                         *)

(* Which generation is collected with the younger ones, and where the      *)
(* survivors go.                                                           *)
Ephemeral(m) == m.oldest # 0

FromArea(m) ==
    CASE ~Ephemeral(m) \/ m.active - m.g1 < G1 -> "none"
      [] Ephemeral(m) /\ m.active - m.g1 >= G1 /\ m.active - m.g2 < G2 -> "g1"
      [] OTHER -> "g2"

ToArea(m) ==
    CASE ~Ephemeral(m) -> "none"
      [] Ephemeral(m) /\ m.active - m.g1 < G1 -> "g1"
      [] FromArea(m) = "g1" -> "g2"
      [] OTHER -> "tenured"

(* Memoized dnodes the marker visits: their bit is set and so is the bit   *)
(* of their group in the index.  In the last word, bits past the area are  *)
(* cleared first.                                                          *)
Visited(m) ==
    {d \in 1..m.low : d \in m.refbits /\ Group(d) \in m.refidx}

VisitedStatics(m) ==
    {d \in 1..Statics : d \in m.sbits /\ Group(d) \in m.sidx}

MaskLastWord(m) ==
    [m EXCEPT !.refbits = @ \ (m.low + 1)..WordEnd(m.low)]

(* The visited dnodes whose reference is still interesting keep their bit: *)
(* mark_ephemeral_root, mark_static_ref.                                   *)
MutantInteresting(m) == m.low
Interesting(m) == IF Ephemeral(m) THEN m.oldest ELSE Statics

KeepBits(m) ==
    IF Ephemeral(m)
      THEN [MaskLastWord(m) EXCEPT !.refbits =
              @ \ {d \in Visited(m) : m.heap[d] <= Interesting(m)}]
      ELSE [m EXCEPT !.sbits =
              @ \ {d \in VisitedStatics(m) : m.heap[d] <= Interesting(m)}]

(* Dnodes of the collected area that are reached from the roots and from   *)
(* the memoized dnodes.                                                    *)
Marked(m) ==
    LET area == (m.low + 1)..m.active
        memoized == IF Ephemeral(m) THEN Visited(m) ELSE VisitedStatics(m)
        starts == {m.slot[s] : s \in Slots} \cup {m.heap[d] : d \in memoized}
        closed == {S \in SUBSET area : \A v \in starts \cup {m.heap[e] : e \in S} :
                                        v \in area => v \in S}
    IN  {e \in area : \A S \in closed : e \in S}

(* Dnodes outside the collected area whose reference is forwarded.         *)
MutantForwarded(m) == Visited(m)
Forwarded(m) == IF Ephemeral(m) THEN Visited(m) ELSE m.sbits

(* Where a marked dnode goes, and what becomes of a reference.             *)
Place(m, marked, d) == m.low + 1 + Cardinality({e \in marked : e < d})

Forward(m, marked, v) ==
    IF v \in (m.low + 1)..m.active THEN Place(m, marked, v) ELSE v

(* Slide the marked dnodes down to low.  Roots, dnodes that moved and      *)
(* memoized dnodes are forwarded; the marker leaves its marks in the       *)
(* bitmap.  What lies past the survivors is zeroed before it is used.      *)
Cell(m, marked, d) ==
    LET movedHere == {e \in marked : Place(m, marked, e) = d}
    IN  CASE d > m.low /\ movedHere # {} ->
               Forward(m, marked, m.heap[CHOOSE e \in movedHere : TRUE])
          [] d > m.low /\ movedHere = {} -> 0
          [] d <= m.low /\ d \in Forwarded(m) -> Forward(m, marked, m.heap[d])
          [] OTHER -> m.heap[d]

Compact(m, marked) ==
    LET end == WordEnd(m.low)
        marks == {end + e - m.low : e \in marked}
    IN  [m EXCEPT
           !.heap = [d \in Dnodes |-> Cell(m, marked, d)],
           !.slot = [s \in Slots |-> Forward(m, marked, m.slot[s])],
           !.active = m.low + Cardinality(marked),
           !.refbits = (@ \ (end + 1)..(end + RoundUp(m.active - m.low, WordBits)))
                         \cup marks]

(* When no room is left for the youngest generation, nothing stays         *)
(* ephemeral; after a full collection with room, everything is tenured.    *)
Rebalance(m, wasEphemeral) ==
    CASE m.older /\ High - m.active < Young -> UntenureFromArea(m, "tenured")
      [] m.older /\ High - m.active >= Young /\ ~wasEphemeral ->
           TenureToArea(m, "tenured")
      [] OTHER -> m

Gc(m) ==
    LET u == IF FromArea(m) = "none" THEN m ELSE UntenureFromArea(m, FromArea(m))
        k == KeepBits(u)
        c == Compact(k, Marked(k))
        t == IF ToArea(m) = "none" THEN c ELSE TenureToArea(c, ToArea(m))
    IN  IF u.active = u.low THEN u ELSE Rebalance(t, Ephemeral(m))

----------------------------------------------------------------------------
(* The write barrier.                                                      *)

Obj(m, t) == m.slot[<<t, "obj">>]
Val(m, t) == m.slot[<<t, "val">>]

Forget(m, t) ==
    [m EXCEPT !.slot[<<t, "obj">>] = 0, !.slot[<<t, "val">>] = 0]

SetReg(m, t, o, v) ==
    [m EXCEPT !.slot[<<t, "obj">>] = o, !.slot[<<t, "val">>] = v]

Work == work < MaxWork /\ work' = work + 1

Goto(t, l) == pc' = [pc EXCEPT ![t] = l]

Return(t, m) == Goto(t, "idle") /\ mem' = Forget(m, t)

(* Values come from a root; the object may be one that a root or a static  *)
(* dnode refers to.                                                        *)
Values(m) == {m.slot[r] : r \in Roots} \cup {0}

Objects(m) ==
    LET named == (Values(m) \cup 1..Statics) \cap Dnodes
    IN  {d \in named \cup {m.heap[d] : d \in named} : d \in Dnodes /\ m.heap[d] # Raw}

CallBarrier(t) ==
    /\ t \in Storers /\ pc[t] = "idle"
    /\ \E o \in Objects(mem), v \in Values(mem) : mem' = SetReg(mem, t, o, v)
    /\ \E entry \in {"store", "retry"} : Goto(t, entry)
    /\ Work
    /\ UNCHANGED <<word, initial, seg, lock>>

(* rplaca, rplacd, gvset: the store comes first; an address above the      *)
(* object's needs the rest of the barrier.                                 *)
Store(t) ==
    LET o == Obj(mem, t) v == Val(mem, t)
        stored == [mem EXCEPT !.heap[o] = v]
    IN  /\ pc[t] = "store"
        /\ IF v > o THEN Goto(t, "stored") /\ mem' = stored
                    ELSE Return(t, stored)
        /\ UNCHANGED <<word, initial, seg, lock, work>>

(* store_node_conditional: cmpxchg and its test; a success is memoized     *)
(* whatever was stored.                                                    *)
StoreConditional(t) ==
    /\ pc[t] = "retry"
    /\ \/ /\ mem' = [mem EXCEPT !.heap[Obj(mem, t)] = Val(mem, t)]
          /\ Goto(t, "stored")
       \/ Return(t, mem)
    /\ UNCHANGED <<word, initial, seg, lock, work>>

AfterGlobalMap(t, m) ==
    IF Obj(m, t) <= Statics THEN Goto(t, "static") /\ mem' = m ELSE Return(t, m)

SetRefbit(t) ==
    /\ pc[t] = "stored"
    /\ IF Obj(mem, t) <= mem.oldspace
         THEN /\ mem' = [mem EXCEPT !.refbits = @ \cup {Obj(mem, t)}]
              /\ Goto(t, "refidx")
         ELSE AfterGlobalMap(t, mem)
    /\ UNCHANGED <<word, initial, seg, lock, work>>

SetRefidx(t) ==
    /\ pc[t] = "refidx"
    /\ AfterGlobalMap(t, [mem EXCEPT !.refidx = @ \cup {Group(Obj(mem, t))}])
    /\ UNCHANGED <<word, initial, seg, lock, work>>

SetStaticRefbit(t) ==
    /\ pc[t] = "static"
    /\ mem' = [mem EXCEPT !.sbits = @ \cup {Obj(mem, t)}]
    /\ Goto(t, "sidx")
    /\ UNCHANGED <<word, initial, seg, lock, work>>

SetStaticRefidx(t) ==
    /\ pc[t] = "sidx"
    /\ Return(t, [mem EXCEPT !.sidx = @ \cup {Group(Obj(mem, t))}])
    /\ UNCHANGED <<word, initial, seg, lock, work>>

(* In rplaca and set_hash_key_conditional this last btsq has no lock       *)
(* prefix: it reads the word, then writes it back.                         *)
ReadStaticRefidx(t) ==
    /\ t \in Unlocked /\ pc[t] = "sidx"
    /\ word' = [word EXCEPT ![t] = mem.sidx]
    /\ Goto(t, "btsq")
    /\ UNCHANGED <<mem, initial, seg, lock, work>>

WriteStaticRefidx(t) ==
    /\ pc[t] = "btsq"
    /\ Return(t, [mem EXCEPT !.sidx = word[t] \cup {Group(Obj(mem, t))}])
    /\ word' = [word EXCEPT ![t] = {}]
    /\ UNCHANGED <<initial, seg, lock, work>>

----------------------------------------------------------------------------
(* Collections.                                                            *)

Finishing == {t \in Threads : pc[t] \in {"stored", "refidx", "static", "sidx"}}

MutantInStatics(memoized) == {}
InStatics(memoized) == memoized \cap 1..Statics

(* pc_luser_xp: a thread that has not stored yet will store later; one     *)
(* that has is taken through the rest of the barrier to its return.        *)
PcLuserXp(m) ==
    LET memoized == {Obj(m, t) : t \in {u \in Finishing : Val(m, u) > Obj(m, u)}}
        old == {d \in memoized : d <= m.oldspace}
        static == InStatics(memoized)
    IN  [m EXCEPT
           !.slot = [s \in Slots |-> IF s \in Finishing \X {"obj", "val"}
                                       THEN 0 ELSE m.slot[s]],
           !.refbits = @ \cup old, !.refidx = @ \cup {Group(d) : d \in old},
           !.sbits = @ \cup static, !.sidx = @ \cup {Group(d) : d \in static}]

(* gc_like_from_xp: no other thread runs, none keeps its segment.         *)
StopAndCollect(t, l) ==
    /\ \A u \in Threads : pc[u] # "btsq"
    /\ mem' = Gc(PcLuserXp(mem))
    /\ seg' = [u \in Threads |-> {}]
    /\ pc' = [u \in Threads |-> CASE u = t -> l
                                  [] u \in Finishing -> "idle"
                                  [] OTHER -> pc[u]]

----------------------------------------------------------------------------
(* Allocation.                                                             *)

(* From the segment, without a trap.                                       *)
ConsIn(m, d, r, v) == [m EXCEPT !.heap[d] = v, !.slot[r] = d]

Cons(t) ==
    /\ t \in Allocators /\ pc[t] = "idle" /\ seg[t] # {}
    /\ \E r \in Roots, v \in Values(mem) \cup {Raw} :
         mem' = ConsIn(mem, Max(seg[t]), r, v)
    /\ seg' = [seg EXCEPT ![t] = @ \ {Max(@)}]
    /\ Work
    /\ UNCHANGED <<pc, word, initial, lock>>

(* The trap of a thread whose segment is used up.                          *)
AllocTrap(t) ==
    /\ t \in Allocators /\ pc[t] = "idle" /\ seg[t] = {} /\ lock = None
    /\ \E v \in Values(mem) \cup {Raw} : mem' = SetReg(mem, t, 0, v)
    /\ Goto(t, "alloc") /\ lock' = t
    /\ Work
    /\ UNCHANGED <<word, initial, seg>>

(* allocate_list, for a list of one cons: the element is in a register,    *)
(* and is read into a variable of the kernel before anything is allocated. *)
AllocateListTrap(t) ==
    /\ t \in Allocators /\ pc[t] = "idle" /\ lock = None
    /\ \E v \in {mem.slot[r] : r \in Elements} \cup {0} :
         mem' = SetReg(mem, t, 0, v) /\ initial' = [initial EXCEPT ![t] = v]
    /\ Goto(t, "alloc") /\ lock' = t
    /\ Work
    /\ UNCHANGED <<word, seg>>

EgcIsDue(m) == m.older /\ Ephemeral(m) /\ m.active - m.low >= Young

MaybeDoEgc(t) ==
    /\ pc[t] = "alloc"
    /\ IF EgcIsDue(mem) THEN StopAndCollect(t, "segment")
                        ELSE Goto(t, "segment") /\ UNCHANGED <<mem, seg>>
    /\ UNCHANGED <<word, initial, lock, work>>

NewLimit(m) ==
    Statics + RoundUp(m.active - Statics, Quantum) + Quantum

FirstContents(t) == IF initial[t] = NoElement THEN Val(mem, t) ELSE initial[t]

NewHeapSegment(t) ==
    LET limit == NewLimit(mem)
        taken == [mem EXCEPT !.active = limit]
    IN  /\ pc[t] \in {"segment", "extend"} /\ limit <= High
        /\ \E r \in Roots :
             mem' = Forget(ConsIn(taken, limit, r, FirstContents(t)), t)
        /\ seg' = [seg EXCEPT ![t] = (mem.active + 1)..(limit - 1)]
        /\ initial' = [initial EXCEPT ![t] = NoElement]
        /\ Goto(t, "idle") /\ lock' = None
        /\ UNCHANGED <<word, work>>

(* No room: everything is untenured, to force a full collection.           *)
ForceFullGc(t) ==
    /\ pc[t] = "segment" /\ NewLimit(mem) > High
    /\ mem' = UntenureFromArea(mem, "tenured")
    /\ Goto(t, "full")
    /\ UNCHANGED <<word, initial, seg, lock, work>>

FullGc(t) ==
    /\ pc[t] = "full"
    /\ StopAndCollect(t, "extend")
    /\ UNCHANGED <<word, initial, lock, work>>

(* Still no room: the trap signals a storage condition.                    *)
AllocationFailure(t) ==
    /\ pc[t] = "extend" /\ NewLimit(mem) > High
    /\ Return(t, mem) /\ lock' = None
    /\ initial' = [initial EXCEPT ![t] = NoElement]
    /\ UNCHANGED <<word, seg, work>>

----------------------------------------------------------------------------
(* Collection traps.  Those that move everything into the tenured area     *)
(* without stopping the other threads are confined to states in which no   *)
(* thread has a segment, unless the thread is one of Switchers.            *)

MaySwitch(t) == t \in Switchers \/ \A u \in Threads : seg[u] = {}

EgcControlTrap(t) ==
    /\ t \in Allocators /\ pc[t] = "idle" /\ lock = None /\ MaySwitch(t)
    /\ \E activate \in BOOLEAN : mem' = EgcControl(mem, activate)
    /\ Work
    /\ UNCHANGED <<pc, word, initial, seg, lock>>

UseHeapThreshold(t) ==
    LET u == UntenureFromArea(mem, "tenured")
    IN  /\ t \in Allocators /\ pc[t] = "idle" /\ lock = None /\ MaySwitch(t)
        /\ mem' = IF mem.older /\ High - u.active >= Young
                    THEN TenureToArea(u, "tenured") ELSE u
        /\ Work
        /\ UNCHANGED <<pc, word, initial, seg, lock>>

ImmediateGcTrap(t) ==
    /\ t \in Allocators /\ pc[t] = "idle" /\ lock = None
    /\ lock' = t /\ Goto(t, "immediate")
    /\ Work
    /\ UNCHANGED <<mem, word, initial, seg>>

GcTrap(t) ==
    /\ t \in Allocators /\ pc[t] = "idle" /\ lock = None
    /\ mem' = EgcControl(mem, FALSE)
    /\ lock' = t /\ Goto(t, IF mem.older THEN "gc and enable" ELSE "gc")
    /\ Work
    /\ UNCHANGED <<word, initial, seg>>

GcFromTrap(t) ==
    /\ \/ pc[t] \in {"gc", "immediate"} /\ StopAndCollect(t, "done")
       \/ pc[t] = "gc and enable" /\ StopAndCollect(t, "enable")
    /\ UNCHANGED <<word, initial, lock, work>>

LeaveGcTrap(t) ==
    /\ \/ pc[t] = "done" /\ UNCHANGED mem
       \/ /\ pc[t] = "enable" /\ MaySwitch(t)
          /\ mem' = EgcControl(mem, TRUE)
    /\ Goto(t, "idle") /\ lock' = None
    /\ UNCHANGED <<word, initial, seg, work>>

----------------------------------------------------------------------------
(* The rest of the program drops references.                               *)
Drop(r) ==
    /\ mem' = [mem EXCEPT !.slot[r] = 0]
    /\ Work
    /\ UNCHANGED <<pc, word, initial, seg, lock>>

Next ==
    \/ \E t \in Threads :
         \/ CallBarrier(t) \/ Store(t) \/ StoreConditional(t) \/ SetRefbit(t)
         \/ SetRefidx(t) \/ SetStaticRefbit(t) \/ SetStaticRefidx(t)
         \/ ReadStaticRefidx(t) \/ WriteStaticRefidx(t)
         \/ Cons(t) \/ AllocTrap(t) \/ AllocateListTrap(t) \/ MaybeDoEgc(t)
         \/ NewHeapSegment(t)
         \/ ForceFullGc(t) \/ FullGc(t) \/ AllocationFailure(t)
         \/ EgcControlTrap(t) \/ UseHeapThreshold(t) \/ ImmediateGcTrap(t)
         \/ GcTrap(t) \/ GcFromTrap(t) \/ LeaveGcTrap(t)
    \/ \E r \in Roots : Drop(r)

Spec == Init /\ [][Next]_vars

----------------------------------------------------------------------------
(* Properties.                                                             *)

(* A thread is between a store into dnode d and the end of the barrier.    *)
InBarrier(d) ==
    \E t \in Threads : pc[t] \in {"stored", "refidx", "static", "sidx", "btsq"}
                         /\ Obj(mem, t) = d

(* No reference from an older to a younger generation is missing in the    *)
(* reference map or its index, except in a dnode whose barrier a thread    *)
(* has not finished: the ephemeral collector starts from nothing else in   *)
(* the older generations.  It is the assertion of check_refmap_consistency *)
(* ("Missing memoization in doublenode"), for every generation that may be *)
(* collected next and not only the current one.                            *)
MemoizationIsComplete ==
    mem.oldest # 0 =>
      \A b \in {mem.oldest, mem.g1, mem.low} : \A d \in 1..b :
        mem.heap[d] > b => d \in Visited(mem) \/ InBarrier(d)

(* The same for references from the managed static area to the dynamic     *)
(* area, from which a full collection starts (mark_managed_static_refs;    *)
(* "Memoization for doublenode not indexed").                              *)
StaticRefsIndexed ==
    \A d \in 1..Statics :
      mem.heap[d] > Statics => d \in VisitedStatics(mem) \/ InBarrier(d)

(* The dnode reached from start in n steps, and for two states the pairs   *)
(* of dnodes the program reaches along the same path from the same root.   *)
Path(m, start, n) ==
    LET f[k \in 0..n] ==
          IF k = 0 THEN start
            ELSE IF f[k - 1] \in Dnodes THEN m.heap[f[k - 1]] ELSE f[k - 1]
    IN  f[n]

Corresponding(m, n) ==
    LET live == Roots \cup {s \in Registers : n.slot[s] # 0}
        starts == {<<m.slot[s], n.slot[s]>> : s \in live}
                    \cup {<<d, d>> : d \in 1..Statics}
    IN  {<<Path(m, p[1], k), Path(n, p[2], k)>> : p \in starts, k \in 0..High}

SameGraph(m, n) ==
    /\ \A p, q \in Corresponding(m, n) : p[1] = q[1] <=> p[2] = q[2]
    /\ \A p \in Corresponding(m, n) : p[1] \notin Dnodes => p[2] = p[1]

(* Some thread collects in this step.                                      *)
Collection ==
    \E t \in Threads :
      pc[t] \in {"alloc", "full", "gc", "gc and enable", "immediate"} /\ pc'[t] # pc[t]

(* The list %allocate-list returns is filled with the element it was       *)
(* given, wherever a collection inside the trap has moved that element.    *)
ListHoldsElement ==
    [][\A t \in Threads :
         initial[t] # NoElement /\ initial'[t] = NoElement /\ mem'.active > mem.active
           => mem'.heap[mem'.active] = Val(mem, t)]_vars

KeepsGraph == [][Collection => SameGraph(mem, mem')]_vars
=============================================================================
