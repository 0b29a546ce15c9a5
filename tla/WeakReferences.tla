--------------------------- MODULE WeakReferences ---------------------------
(***************************************************************************)
(* Weak references and termination in the collector: gc-common.c of the    *)
(* Lisp kernel with the default method (WEAK_GC_METHOD 0, "traditional").  *)
(* Populations (weak lists and weak alists, terminatable or not), hash     *)
(* vectors weak on the key or on the value, and gcable foreign pointers,   *)
(* through collections full and ephemeral, with the program between them.  *)
(*                                                                         *)
(* An object is a kind and a row of fields:                                *)
(*   "cons"   car, cdr                 "pointer"  address (Nil: disposed)  *)
(*   "list", "alist"   population.data and, if the population is           *)
(*            terminatable, population.termination-list                    *)
(*   "weak key", "weak value"          key, value, key, value, ...         *)
(* Its number is its address.  Every weak vector and every gcable pointer  *)
(* has one link, and is on at most one chain: the chains run through the   *)
(* objects, as in the code.  Marking itself is Collector's: what is marked *)
(* here by a call of mark_root is a closure.                               *)
(***************************************************************************)
EXTENDS Integers, Sequences, FiniteSets, FiniteSetsExt, SequencesExt

CONSTANTS
    Layouts,         \* the heaps to start from: rows of [kind, choices], the
                     \* choices being the values each field may have
    RootChoices,     \* the values of the words outside the heap, at the start
    MaxWork,         \* steps of the program
    MaxCollections   \* collections

Nil == 0             \* and any immediate
Unbound == -1        \* the key of an entry the collector deleted

Tables == {"weak key", "weak value"}
Populations == {"list", "alist"}
Kinds == {"cons", "pointer"} \cup Tables \cup Populations

ASSUME WeakAssumption ==
    /\ \A l \in Layouts : \A o \in DOMAIN l : l[o].kind \in Kinds
    /\ RootChoices \subseteq Nat
    /\ MaxWork \in Nat /\ MaxCollections \in Nat

VARIABLES
    heap,       \* the objects
    root,       \* what the stacks, registers and static areas refer to
    tenured,    \* the objects below the area an ephemeral collection collects
    memo,       \* the memoized dnodes of tenured objects: <<object, dnode>>
    link,       \* word 1 of a weak vector, the link of a gcable pointer
    weakvll,    \* lisp_global(WEAKVLL): all weak vectors as of the last collection
    gcableptrs, \* lisp_global(GCABLE_POINTERS)
    postGC,     \* user_postGC_macptrs
    pc,         \* "lisp", or where the collection is
    ephemeral,  \* GCn_ephemeral_dnodes # 0
    marks,      \* GCmarkbits
    GCweakvll, pending, marked_new,  \* markhtabvs' two chains and its flag
    was,        \* history: heap and marks when markhtabvs began to reap
    freed,      \* history: the pointers disposed of by the collector
    resurrected,  \* history: a weak vector was reached from a termination list only
    work, collections

chains == <<link, weakvll, gcableptrs, postGC>>
history == <<was, freed, resurrected>>
vars == <<heap, root, tenured, memo, chains, pc, ephemeral, marks, GCweakvll,
          pending, marked_new, history, work, collections>>

----------------------------------------------------------------------------
(* Objects.                                                                *)

Objects == DOMAIN heap
Kind(o) == heap[o].kind
Field(o, i) == heap[o].fields[i]
WeakVectors == {o \in Objects : Kind(o) \in Tables \cup Populations}
Pointers == {o \in Objects : Kind(o) = "pointer"}
Terminatable(o) == Kind(o) \in Populations /\ Len(heap[o].fields) = 2
IsCons(v) == v \in Objects /\ Kind(v) = "cons"

Pairs(o) == 1..(Len(heap[o].fields) \div 2)
KeyField(i) == 2 * i - 1
ValueField(i) == 2 * i
WeakField(o, i) == IF Kind(o) = "weak key" THEN KeyField(i) ELSE ValueField(i)
OtherField(o, i) == IF Kind(o) = "weak key" THEN ValueField(i) ELSE KeyField(i)
WeakFields(o) == [i \in Pairs(o) |-> WeakField(o, i)]
OtherFields(o) == [i \in Pairs(o) |-> OtherField(o, i)]

(* The dnode of a field: a hash vector's header has an odd number of words *)
(* (hash_table_vector_header_count), so a key shares its dnode with the    *)
(* value of the pair before it.                                            *)
Header == 0
DnodeOf(o, i) ==
    CASE Kind(o) \in Tables -> (i + 1) \div 2 + ((i + 1) % 2)
      [] Kind(o) \in Populations -> i
      [] OTHER -> 1

(* op, applied to x as often as there are objects.                         *)
Iterated(op(_), x) ==
    LET result[n \in 0..Cardinality(Objects)] ==
          IF n = 0 THEN x ELSE op(result[n - 1])
    IN  result[Cardinality(Objects)]

(* The objects from "head" along "next", up to the first that is not one   *)
(* of S.                                                                   *)
Followed(head, next(_), S) ==
    Iterated(LAMBDA c : LET o == IF c = <<>> THEN head ELSE next(Last(c))
                        IN  IF o \in S THEN Append(c, o) ELSE c, <<>>)

Chain(l, head) == Followed(head, LAMBDA o : l[o], Objects)

Linked(order, l, head) ==   \* push each of order on the chain
    FoldLeft(LAMBDA c, o : [link |-> [c.link EXCEPT ![o] = c.head], head |-> o],
             [link |-> l, head |-> head], order)

Area == IF ephemeral THEN Objects \ tenured ELSE Objects
Markable(v, m) == v \in Area \ m

(* What mark_root and rmark mark through.  Of a population nothing, of a   *)
(* weak hash vector the header: mark_weak_htabv's loop runs to word        *)
(* hash_table_vector_header_count, which is the key of the first pair.     *)
Refs(o) ==
    CASE Kind(o) = "cons" -> {Field(o, 1), Field(o, 2)}
      [] Kind(o) \in Tables -> {Field(o, 1)}
      [] OTHER -> {}

Reached(vs, m) ==
    Iterated(LAMBDA S : S \cup (UNION {Refs(o) : o \in S} \cap (Area \ m)),
             vs \cap (Area \ m))

(* Marking pushes the weak vectors it reaches on GCweakvll, in any order.  *)
MarkTo(m, l, head) ==
    \E order \in SetToSeqs((m \ marks) \cap WeakVectors) :
      LET c == Linked(order, l, head)
      IN  marks' = m /\ link' = c.link /\ GCweakvll' = c.head

----------------------------------------------------------------------------
Rows(choices) ==
    FoldLeft(LAMBDA rows, c : {Append(r, v) : r \in rows, v \in c}, {<<>>}, choices)

Fill(layout) ==
    FoldLeft(LAMBDA hs, o : {Append(h, [kind |-> o.kind, fields |-> r]) :
                               h \in hs, r \in Rows(o.choices)}, {<<>>}, layout)

(* What the write barrier memoizes: the dnode of a reference to a younger  *)
(* object, and the header of a hash vector that has it as a key.           *)
Memoized(o, i, v, old) ==
    IF o \in old /\ v \in Objects \ old
      THEN {<<o, DnodeOf(o, i)>>} \cup
           (IF Kind(o) \in Tables /\ i % 2 = 1 THEN {<<o, Header>>} ELSE {})
      ELSE {}

Init ==
    \E layout \in Layouts : \E h \in Fill(layout) : \E n \in 0..Len(layout) :
      /\ heap = h /\ root \in RootChoices \cap (DOMAIN h \cup {Nil})
      /\ tenured = 1..n
      /\ memo = UNION {UNION {Memoized(o, i, Field(o, i), 1..n) :
                                i \in DOMAIN h[o].fields} : o \in 1..n}
      /\ LET links == [o \in WeakVectors \cup Pointers |-> Nil]
             old == Linked(SetToSeq(WeakVectors \cap 1..n), links, Nil)
             all == Linked(SetToSeq(Pointers), old.link, Nil)
         IN  link = all.link /\ weakvll = old.head /\ gcableptrs = all.head
      /\ postGC = Nil
      /\ pc = "lisp" /\ ephemeral = FALSE
      /\ marks = {} /\ GCweakvll = Nil /\ pending = Nil /\ marked_new = FALSE
      /\ was = [heap |-> h, marks |-> {}] /\ freed = {} /\ resurrected = FALSE
      /\ work = 0 /\ collections = 0

----------------------------------------------------------------------------
(* The program.                                                            *)

Accessible ==
    Iterated(LAMBDA S : S \cup (UNION {Range(heap[o].fields) : o \in S} \cap Objects),
             {root} \cap Objects)

Listed(h, o, i) ==   \* the cells of a list in a population
    Followed(h[o].fields[i], LAMBDA c : h[c].fields[2], DOMAIN h)

(* The conses a population is made of are not put in tables or terminated. *)
CellsOf(p) == UNION {Range(Listed(heap, p, i)) : i \in DOMAIN heap[p].fields}
Private ==
    UNION {CellsOf(p) \cup (IF Kind(p) = "alist" THEN {Field(c, 1) : c \in CellsOf(p)} ELSE {}) :
             p \in {q \in Objects : Kind(q) \in Populations}}
Named == Accessible \ Private

Works ==
    /\ pc = "lisp" /\ work < MaxWork /\ work' = work + 1
    /\ UNCHANGED <<tenured, chains, pc, ephemeral, marks, GCweakvll, pending,
                   marked_new, history, collections>>

Forget ==
    /\ Works
    /\ root' \in (Accessible \cup {Nil}) \ {root}
    /\ UNCHANGED <<heap, memo>>

Store(o, i, v) ==
    /\ heap' = [heap EXCEPT ![o].fields[i] = v]
    /\ memo' = memo \cup Memoized(o, i, v, tenured)

(* puthash, in an entry that is free, and (setf gethash) of one that is.   *)
PutHash ==
    /\ Works
    /\ \E o \in {t \in Accessible : Kind(t) \in Tables}, v \in Named :
       \E i \in Pairs(o) :
         /\ Field(o, KeyField(i)) \in {Nil, Unbound}
         /\ heap' = [heap EXCEPT ![o].fields[KeyField(i)] = v,
                                 ![o].fields[ValueField(i)] = v]
         /\ memo' = memo \cup Memoized(o, KeyField(i), v, tenured)
                         \cup Memoized(o, ValueField(i), v, tenured)
    /\ UNCHANGED root

(* terminate-when-unreachable: a new cell, pushed on population.data.      *)
TerminateWhenUnreachable ==
    LET pair == Max(Objects) + 1
        spine == Max(Objects) + 2
    IN  /\ pc = "lisp" /\ work < MaxWork /\ work' = work + 1
        /\ \E p \in {q \in Accessible : Kind(q) = "alist" /\ Terminatable(q)},
             v \in Named :
             /\ heap' = [o \in Objects \cup {pair, spine} |->
                   CASE o = pair -> [kind |-> "cons", fields |-> <<v, Nil>>]
                     [] o = spine -> [kind |-> "cons", fields |-> <<pair, Field(p, 1)>>]
                     [] o = p -> [heap[p] EXCEPT !.fields[1] = spine]
                     [] OTHER -> heap[o]]
             /\ memo' = IF p \in tenured THEN memo \cup {<<p, DnodeOf(p, 1)>>} ELSE memo
        /\ UNCHANGED <<root, tenured, chains, pc, ephemeral, marks, GCweakvll,
                       pending, marked_new, history, collections>>

(* drain-termination-queue takes one cell; its function gets the object.   *)
DrainTerminationQueue ==
    /\ Works
    /\ \E p \in {q \in Accessible : Terminatable(q)} :
         LET cell == Field(p, 2)
         IN  /\ IsCons(cell)
             /\ Store(p, 2, Field(cell, 2))
             /\ root' = Field(cell, 1)

----------------------------------------------------------------------------
(* The collection, one function of the kernel a step; only the passes over *)
(* the weak vectors take a step for each of them.                          *)

(* init_weakvll.  An ephemeral collection keeps the weak vectors outside   *)
(* the area, but not a hash vector without young keys or values; it will   *)
(* find those in the area when it marks them.                              *)
HasYoungValues(o) == \E d \in 1..(Len(heap[o].fields) + 1) : <<o, d>> \in memo

Dropped(o) ==
    /\ Kind(o) \in Tables /\ <<o, Header>> \notin memo
    /\ ~(Kind(o) = "weak value" /\ HasYoungValues(o))

Relisted(kept) == SelectSeq(kept, Dropped)

InitWeakvll ==
    /\ pc = "lisp" /\ collections < MaxCollections /\ ~resurrected
    /\ ephemeral' \in BOOLEAN
    /\ LET kept == SelectSeq(Chain(link, weakvll), LAMBDA o : o \in tenured)
           processed == SelectSeq(kept, LAMBDA o : ~Dropped(o))
           gc == Linked(processed, link, Nil)
           rest == Linked(Relisted(kept), gc.link, Nil)
       IN  IF ephemeral'
             THEN /\ GCweakvll' = gc.head /\ weakvll' = rest.head
                  /\ link' = [o \in DOMAIN link |->
                                IF o \in Range(Chain(link, weakvll)) \ tenured
                                  THEN Nil ELSE rest.link[o]]
                  /\ memo' = (memo \ {<<o, 1>> : o \in {p \in Range(kept) : Kind(p) \in Populations}})
                       \cup {<<o, Header>> : o \in {t \in Range(processed) : Kind(t) \in Tables}}
                  /\ UNCHANGED tenured
             ELSE /\ GCweakvll' = Nil /\ weakvll' = Nil
                  /\ tenured' = {} /\ memo' = {}
                  /\ UNCHANGED link
    /\ pc' = "mark" /\ marks' = {} /\ collections' = collections + 1
    /\ UNCHANGED <<heap, root, gcableptrs, postGC, pending, marked_new, history, work>>

(* mark_memoized_area: the entries of a hash vector weak on the key are    *)
(* not marked; those of one weak on the value are (ticket:817).            *)
ByEntry(o) == Kind(o) = "weak key" /\ <<o, Header>> \in memo

MemoizedFields ==
    {f \in UNION {{<<o, i>> : i \in DOMAIN heap[o].fields} : o \in tenured} :
        <<f[1], DnodeOf(f[1], f[2])>> \in memo}

MarkRoots ==
    /\ pc = "mark" /\ pc' = "weak"
    /\ LET values == {Field(f[1], f[2]) : f \in {g \in MemoizedFields : ~ByEntry(g[1])}}
       IN  MarkTo(Reached({root} \cup values, {}), link, GCweakvll)
    /\ memo' = {d \in memo : \/ d[2] = Header \/ ByEntry(d[1])
                             \/ \E f \in MemoizedFields :
                                  /\ <<f[1], DnodeOf(f[1], f[2])>> = d
                                  /\ Field(f[1], f[2]) \in Area}
    /\ UNCHANGED <<heap, root, tenured, weakvll, gcableptrs, postGC, ephemeral,
                   pending, marked_new, history, work, collections>>

(* The pairs of a hash vector outside the area, from the first whose       *)
(* element in question is memoized on.                                     *)
MutantPairsFrom(o, elements) ==
    {i \in Pairs(o) : o \in Area \/ \E j \in 1..(i - 1) : <<o, DnodeOf(o, elements[j])>> \in memo}

PairsFrom(o, elements) ==
    {i \in Pairs(o) : o \in Area \/ \E j \in 1..i : <<o, DnodeOf(o, elements[j])>> \in memo}

(* mark_weak_hash_vector.                                                  *)
MarkWeakHashVector(o) ==
    FoldLeft(LAMBDA m, i :
               LET other == Field(o, OtherField(o, i))
               IN  IF Markable(other, m) /\ ~Markable(Field(o, WeakField(o, i)), m)
                     THEN m \cup Reached({other}, m) ELSE m,
             marks, SetToSortSeq(PairsFrom(o, OtherFields(o)), LAMBDA i, j : i < j))

(* The cells of a population that only it refers to.                       *)
Cells(o, m) ==
    Followed(Field(o, 1), LAMBDA c : Field(c, 2),
             {c \in Area \ m : Kind(c) = "cons"})

(* mark_weak_alist.                                                        *)
MarkWeakAlist(o) ==
    FoldLeft(LAMBDA m, c :
               LET pair == Field(c, 1)
               IN  IF ~Markable(pair, m) THEN m
                     ELSE IF ~IsCons(pair) THEN m \cup Reached({pair}, m)
                     ELSE IF ~Markable(Field(pair, 1), m)
                       THEN m \cup Reached({Field(pair, 2)}, m) ELSE m,
             marks, Cells(o, marks))

(* traditional_markhtabvs: passes over GCweakvll until one marks nothing.  *)
MarkWeakVector ==
    LET o == GCweakvll
        m == CASE Kind(o) \in Tables -> MarkWeakHashVector(o)
               [] Kind(o) = "alist" -> MarkWeakAlist(o)
               [] OTHER -> marks
    IN  /\ pc = "weak" /\ GCweakvll # Nil
        /\ MarkTo(m, [link EXCEPT ![o] = pending], link[o])
        /\ pending' = o
        /\ marked_new' = (marked_new \/ m # marks)
        /\ UNCHANGED <<heap, root, tenured, memo, weakvll, gcableptrs, postGC, pc,
                       ephemeral, history, work, collections>>

MutantEndOfPass ==
    /\ pc = "weak" /\ GCweakvll = Nil
    /\ pc' = "reap" /\ was' = [heap |-> heap, marks |-> marks]
    /\ marked_new' = FALSE
    /\ UNCHANGED <<heap, root, tenured, memo, chains, GCweakvll, pending, ephemeral,
                   marks, freed, resurrected, work, collections>>

EndOfPass ==
    /\ pc = "weak" /\ GCweakvll = Nil
    /\ IF marked_new
         THEN GCweakvll' = pending /\ pending' = Nil /\ UNCHANGED <<pc, was>>
         ELSE pc' = "reap" /\ was' = [heap |-> heap, marks |-> marks]
              /\ UNCHANGED <<GCweakvll, pending>>
    /\ marked_new' = FALSE
    /\ UNCHANGED <<heap, root, tenured, memo, chains, ephemeral, marks, freed,
                   resurrected, work, collections>>

(* reapweakv: the cells whose element is unmarked are spliced out, and put *)
(* on the termination list if there is one.                                *)
MutantDead(o, c) == Markable(Field(c, 1), marks)

Dead(o, c) ==
    LET element == Field(c, 1)
    IN  IF Kind(o) = "alist"
          THEN IsCons(element) /\ Markable(element, marks) /\ Markable(Field(element, 1), marks)
          ELSE Markable(element, marks)

Spliced(o) ==
    LET cells == Cells(o, marks)
        tail == IF cells = <<>> THEN Field(o, 1) ELSE Field(Last(cells), 2)
        kept == SelectSeq(cells, LAMBDA c : ~Dead(o, c))
        data == kept \o <<tail>>
        dead == IF Terminatable(o)
                  THEN Reverse(SelectSeq(cells, LAMBDA c : Dead(o, c))) \o <<Field(o, 2)>>
                  ELSE <<>>
        next(row, c) == row[1 + CHOOSE j \in DOMAIN row : row[j] = c]
    IN  [x \in Objects |->
           CASE x = o -> [heap[o] EXCEPT !.fields = [i \in DOMAIN @ |->
                                            IF i = 1 THEN data[1] ELSE dead[1]]]
             [] x \in Range(kept) -> [heap[x] EXCEPT !.fields[2] = next(data, x)]
             [] x \in Range(dead) /\ x # Last(dead) ->
                  [heap[x] EXCEPT !.fields[2] = next(dead, x)]
             [] OTHER -> heap[x]]

ReapWeakv(o) ==
    LET kept == {c \in Range(Cells(o, marks)) : ~Dead(o, c)}
        also == IF ~IsCons(Field(o, 1)) THEN {Field(o, 1)}
                  ELSE IF Kind(o) = "alist" THEN {Field(c, 1) : c \in kept} ELSE {}
        m == marks \cup kept \cup Reached(also, marks \cup kept)
    IN  /\ Kind(o) \in Populations
        /\ heap' = Spliced(o) /\ marks' = m
        /\ \E order \in SetToSeqs((m \ marks) \cap WeakVectors) :
             LET c == Linked(order, link, GCweakvll)
             IN  IF Terminatable(o) /\ heap'[o].fields[2] # Nil
                   THEN /\ link' = [c.link EXCEPT ![o] = c.head] /\ GCweakvll' = o
                        /\ UNCHANGED weakvll
                   ELSE /\ link' = [c.link EXCEPT ![o] = weakvll] /\ weakvll' = o
                        /\ GCweakvll' = c.head

(* reaphashv.                                                              *)
ReapHashv(o) ==
    LET gone == {i \in PairsFrom(o, WeakFields(o)) : Markable(Field(o, WeakField(o, i)), marks)}
    IN  /\ Kind(o) \in Tables
        /\ heap' = [heap EXCEPT ![o].fields = [f \in DOMAIN @ |->
                      IF \E i \in gone : f = KeyField(i) THEN Unbound
                        ELSE IF \E i \in gone : f = ValueField(i) THEN Nil ELSE @[f]]]
        /\ link' = [link EXCEPT ![o] = weakvll]
        /\ weakvll' = o
        /\ UNCHANGED <<marks, GCweakvll>>

Reap ==
    /\ pc = "reap" /\ pending # Nil
    /\ pending' = link[pending]
    /\ ReapWeakv(pending) \/ ReapHashv(pending)
    /\ UNCHANGED <<root, tenured, memo, gcableptrs, postGC, pc, ephemeral,
                   marked_new, history, work, collections>>

(* mark_termination_lists: the populations whose list is not empty are on  *)
(* GCweakvll.  What is marked here is not looked at again.                 *)
TerminationList(o) == Field(o, 2)

MarkTerminationLists ==
    LET waiting == Chain(link, GCweakvll)
        m == marks \cup Reached({TerminationList(o) : o \in Range(waiting)}, marks)
    IN  /\ pc = "reap" /\ pending = Nil
        /\ \E order \in SetToSeqs((m \ marks) \cap WeakVectors) :
             LET c == Linked(order, link, GCweakvll)
             IN  IF waiting = <<>> THEN UNCHANGED <<link, GCweakvll, weakvll>>
                   ELSE /\ link' = [c.link EXCEPT ![Last(waiting)] = weakvll]
                        /\ GCweakvll' = c.head /\ weakvll' = c.head
        /\ marks' = m
        /\ resurrected' = ((m \ marks) \cap WeakVectors # {})
        /\ pc' = "reap pointers"
        /\ UNCHANGED <<heap, root, tenured, memo, gcableptrs, postGC, ephemeral,
                       pending, marked_new, was, freed, work, collections>>

(* reap_gcable_ptrs: a foreign pointer that nothing refers to is kept for  *)
(* freeGCptrs, after the collection.                                       *)
MutantUnused(p) == Markable(p, was.marks)
Unused(p) == Markable(p, marks)

ReapGcablePtrs ==
    LET all == Chain(link, gcableptrs)
        live == SelectSeq(all, LAMBDA p : ~Unused(p))
        dead == SelectSeq(all, LAMBDA p : Unused(p) /\ Field(p, 1) # Nil)
        kept == Linked(Reverse(live), link, Nil)
        freeing == Linked(dead, kept.link, postGC)
    IN  /\ pc = "reap pointers" /\ pc' = "compact"
        /\ link' = freeing.link /\ gcableptrs' = kept.head /\ postGC' = freeing.head
        /\ marks' = marks \cup Range(dead)
        /\ UNCHANGED <<heap, root, tenured, memo, weakvll, ephemeral, GCweakvll,
                       pending, marked_new, history, work, collections>>

(* The rest of gc: what is not marked is gone.  preforward_weakvll         *)
(* memoizes the lists of the populations again; the survivors of an        *)
(* ephemeral collection may be tenured, those of a full one may be.        *)
Preforwarded ==
    UNION {{<<o, i>> : i \in {j \in DOMAIN heap[o].fields : Field(o, j) \in Area}} :
             o \in {p \in Range(Chain(link, weakvll)) :
                      Kind(p) \in Populations /\ p \in tenured}}

Compact ==
    LET survivors == marks \cup (Objects \ Area)
    IN  /\ pc = "compact" /\ pc' = "free"
        /\ heap' = [o \in survivors |-> heap[o]]
        /\ link' = [o \in DOMAIN link \cap survivors |-> link[o]]
        /\ tenured' \in {tenured, survivors}
        /\ memo' = IF ephemeral THEN memo \cup Preforwarded ELSE {}
        /\ UNCHANGED <<root, weakvll, gcableptrs, postGC, ephemeral, marks, GCweakvll,
                       pending, marked_new, history, work, collections>>

FreeGCptrs ==
    /\ pc = "free" /\ pc' = "lisp"
    /\ LET dead == Chain(link, postGC)
       IN  /\ heap' = [o \in Objects |-> IF o \in Range(dead)
                         THEN [heap[o] EXCEPT !.fields[1] = Nil] ELSE heap[o]]
           /\ link' = [o \in DOMAIN link |-> IF o \in Range(dead) THEN Nil ELSE link[o]]
           /\ freed' = freed \cup Range(dead)
    /\ postGC' = Nil
    /\ UNCHANGED <<root, tenured, memo, weakvll, gcableptrs, ephemeral, marks, GCweakvll,
                   pending, marked_new, was, resurrected, work, collections>>

Program == Forget \/ PutHash \/ TerminateWhenUnreachable \/ DrainTerminationQueue

GC ==
    \/ MarkRoots \/ MarkWeakVector \/ EndOfPass \/ Reap \/ MarkTerminationLists
    \/ ReapGcablePtrs \/ Compact \/ FreeGCptrs

Next == Program \/ InitWeakvll \/ GC

Spec == Init /\ [][Next]_vars

----------------------------------------------------------------------------
(* Properties.                                                             *)

(* What is alive, apart from the algorithm: the least set that holds what  *)
(* the roots and the objects outside the area refer to strongly, what the  *)
(* objects in it refer to strongly, the other element of a pair whose weak *)
(* element is alive, and the value of an entry of a weak alist whose key   *)
(* is.                                                                     *)
AliveIn(S, v) == v \notin Area \/ v \in S

Ephemerons(o, S) ==
    CASE Kind(o) \in Tables ->
           {Field(o, OtherField(o, i)) :
              i \in {j \in Pairs(o) : AliveIn(S, Field(o, WeakField(o, j)))}}
      [] Kind(o) = "alist" ->
           LET pairs == {Field(c, 1) : c \in Range(Cells(o, S))}
           IN  {p \in pairs : ~IsCons(p)} \cup
               {Field(p, 2) :
                  p \in {q \in pairs : IsCons(q) /\ AliveIn(S, Field(q, 1))}}
      [] OTHER -> {}

StronglyHeld(o) ==   \* by an object outside the area
    IF Kind(o) = "weak value" THEN Range(heap[o].fields)
      ELSE IF Kind(o) \in Populations THEN Range(Tail(heap[o].fields)) ELSE Refs(o)

Alive ==
    LET outside == Objects \ Area
        begin == {root} \cup UNION {StronglyHeld(o) : o \in {p \in outside : ~ByEntry(p)}}
        more(S) == S \cup (UNION {Refs(o) \cup Ephemerons(o, S) : o \in S} \cap Area)
                     \cup (UNION {Ephemerons(o, S) : o \in outside} \cap Area)
    IN  Iterated(LAMBDA S : more(S), begin \cap Area)

(* When markhtabvs stops looking, everything that is alive is marked and   *)
(* nothing else: an entry whose value is the only way to another's key     *)
(* needs several passes, over vectors found while the passes run.          *)
MarksTheAlive == pc = "reap" /\ heap = was.heap /\ marks = was.marks => marks = Alive

(* What was alive before the collection, or outside its area.              *)
Looked == was.marks \cup (Objects \ Area)
Gone(v) == v \in DOMAIN was.heap /\ v \notin Looked

GoneCell(o, c) ==
    LET element == was.heap[c].fields[1]
    IN  Gone(c) /\ Gone(element) /\ (Kind(o) = "alist" => Gone(was.heap[element].fields[1]))

(* terminate-when-unreachable: what was spliced out of a terminatable      *)
(* population is on its termination list, in front of what waited there,   *)
(* and nothing on that list is collected.                                  *)
QueuedForTermination ==
    pc = "reap pointers" =>
      \A o \in {p \in WeakVectors \cap Looked : Terminatable(p)} :
        /\ Listed(heap, o, 2) = Reverse(SelectSeq(Listed(was.heap, o, 1),
                                                  LAMBDA c : GoneCell(o, c)))
                                  \o Listed(was.heap, o, 2)
        /\ \A c \in Range(Listed(heap, o, 2)) :
             {c, Field(c, 1)} \cap Objects \subseteq marks \cup (Objects \ Area)

(* What a collection leaves in the weak vectors: an entry of a hash vector *)
(* is deleted if and only if its weak element was not alive, the data of a *)
(* population are the cells with a live element, in their order, and the   *)
(* others wait for termination where they have to.                         *)
EntriesOfTheAlive ==
    /\ QueuedForTermination
    /\ pc = "reap pointers" =>
         \A o \in WeakVectors \cap Looked :
           IF Kind(o) \in Tables
             THEN \A i \in Pairs(o) :
                    Field(o, KeyField(i)) = IF Gone(was.heap[o].fields[WeakField(o, i)])
                                              THEN Unbound ELSE was.heap[o].fields[KeyField(i)]
             ELSE Listed(heap, o, 1) = SelectSeq(Listed(was.heap, o, 1),
                                                 LAMBDA c : ~GoneCell(o, c))

(* No object that survives refers to one that did not.                     *)
NothingDangles ==
    pc \in {"free", "lisp"} =>
      \A o \in Objects : Kind(o) # "pointer" =>
        Range(heap[o].fields) \subseteq Objects \cup {Nil, Unbound}

(* The same but for the collections that reach a weak vector for the first *)
(* time from a termination list; of those see NothingDangles.              *)
ReferencesHold == ~resurrected => NothingDangles

(* A foreign pointer is disposed of by the collector only if the program   *)
(* cannot reach it any more, not from what waits for termination either;   *)
(* and no pointer that has not been disposed of vanishes.                  *)
FreedWhenUnused ==
    /\ pc = "lisp" => freed \cap Accessible = {}
    /\ pc = "free" => \A p \in DOMAIN was.heap \ Objects :
         was.heap[p].kind = "pointer" => was.heap[p].fields[1] = Nil

(* doc/src/gc.xml:228: pairs are removed when there are no non-weak        *)
(* references to their weak element.  After a full collection the weak     *)
(* element of every pair is referred to otherwise.                         *)
StrongRefs(o) == IF Kind(o) = "cons" THEN {Field(o, 1), Field(o, 2)} ELSE {}

OnlyHeldPairsStay ==
    pc = "reap" /\ pending = Nil /\ ~ephemeral =>
      \A t \in WeakVectors \cap marks : Kind(t) \in Tables =>
        \A i \in Pairs(t) :
          LET weak == Field(t, WeakField(t, i))
          IN  weak \in Objects =>
                \/ weak = root
                \/ \E o \in marks : weak \in StrongRefs(o)
                \/ \E u \in WeakVectors \cap marks : Kind(u) \in Tables /\
                     \E j \in Pairs(u) : weak = Field(u, OtherField(u, j))
=============================================================================
