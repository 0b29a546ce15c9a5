------------------------- MODULE GenerationsProofs -------------------------
(***************************************************************************)
(* The write barrier memoizes every reference from an older generation to  *)
(* a younger one, and every reference from the managed static area to the  *)
(* dynamic area: proofs about Generations.                                 *)
(*                                                                         *)
(* The invariant is Good.  It says of every boundary between two           *)
(* generations, and not only of the one that is collected next, that the   *)
(* references across it are memoized or in the hands of a thread that has  *)
(* stored them and not finished the barrier, because a collection may move *)
(* the youngest boundary down to any of them.  It is kept because no       *)
(* reference goes past the end of what is in use (so a boundary that moves *)
(* up to that end has none across it), because pc_luser_xp takes every     *)
(* thread through its barrier before anything moves, and because marked    *)
(* dnodes slide down only as far as the boundary.                          *)
(*                                                                         *)
(* Allocation segments lie above the youngest boundary, so that a cons in  *)
(* one needs no barrier.  Restricted names what is known to break the      *)
(* invariant.                                                              *)
(*                                                                         *)
(* What a collection keeps it moves by one function, Moved, which is one   *)
(* to one on what it keeps, Kept; and what it keeps is closed under        *)
(* references, because everything memoized is (Good).  A path of the       *)
(* program goes where Moved takes it.                                      *)
(***************************************************************************)
EXTENDS Generations, FiniteSetTheorems, WellFoundedInduction, TLAPS

(* The heap, the roots, the bitmaps and the boundaries have their types.   *)
Memory ==
    [heap : [Dnodes -> Int], slot : [Slots -> Int],
     refbits : SUBSET Int, refidx : SUBSET Int, sbits : SUBSET Int, sidx : SUBSET Int,
     g2 : Int, g1 : Int, low : Int, active : Int, oldest : Int, oldspace : Int,
     older : BOOLEAN]

(* The areas follow each other; what the barrier may take for older than   *)
(* oldspace is.                                                            *)
Ordered(m) ==
    /\ Statics <= m.g2 /\ m.g2 <= m.g1 /\ m.g1 <= m.low
    /\ m.low <= m.active /\ m.active <= High
    /\ IF m.oldest = 0 THEN m.low = Statics
                       ELSE m.oldest = m.g2 /\ m.low <= m.oldspace

(* Nothing refers past the last object.                                    *)
Bounded(m) ==
    /\ \A d \in Dnodes : m.heap[d] <= m.active
    /\ \A s \in Slots : m.slot[s] <= m.active

(* Every reference that has to be is memoized, or in the hands of a thread *)
(* inside the barrier.                                                     *)
OldCovered(m, hands) ==
    m.oldest # 0 =>
      \A b \in {m.oldest, m.g1, m.low} : \A d \in 1..b :
        m.heap[d] > b => d \in Visited(m) \/ d \in hands

(* The same of the references from the managed static area.                *)
StaticCovered(m, hands) ==
    \A d \in 1..Statics :
      m.heap[d] > Statics => d \in VisitedStatics(m) \/ d \in hands

(* What collections and moves of the boundaries keep.                      *)
Good(m, old, static) ==
    /\ m \in Memory
    /\ Ordered(m) /\ Bounded(m)
    /\ OldCovered(m, old) /\ StaticCovered(m, static)

----------------------------------------------------------------------------
(* Numbers.                                                                *)

(* The sizes of the areas and of the bitmaps' words are positive numbers.  *)
LEMMA ConstantTypes ==
    /\ Statics \in Nat \ {0} /\ Dynamics \in Nat \ {0} /\ High \in Nat
    /\ WordBits \in Nat \ {0} /\ IndexSpan \in Nat \ {0} /\ Quantum \in Nat \ {0}
    /\ Statics <= High
  BY GenerationsAssumption DEF High

(* Quotient and remainder.                                                 *)
LEMMA Division ==
  ASSUME NEW a \in Nat, NEW k \in Nat \ {0}
  PROVE  a \div k \in Int /\ (a \div k) * k + (a % k) = a /\ 0 <= a % k /\ a % k < k
  OBVIOUS

(* align_to_power_of_2 and its like round up.                              *)
LEMMA RoundUpBound ==
  ASSUME NEW n \in Nat, NEW k \in Nat \ {0}
  PROVE  RoundUp(n, k) \in Int /\ n <= RoundUp(n, k)
<1> DEFINE a == n + k - 1
           q == a \div k
<1>1. a \in Nat
  OBVIOUS
<1>2. q \in Int /\ q * k + (a % k) = a /\ a % k < k /\ a % k >= 0 /\ q * k \in Int /\ a % k \in Int
  BY <1>1, Division
<1>3. RoundUp(n, k) = q * k
  BY DEF RoundUp
<1> HIDE DEF q
<1>4. q * k >= a - (k - 1)
  BY <1>1, <1>2
<1> QED
  BY <1>1, <1>2, <1>3, <1>4

(* The last word of the bitmap that tenure_to_area clears ends past the    *)
(* area.                                                                   *)
LEMMA WordEndBound ==
  ASSUME NEW b \in Int, Statics <= b
  PROVE  WordEnd(b) \in Int /\ b <= WordEnd(b)
<1>1. b - Statics \in Nat
  BY ConstantTypes
<1>2. RoundUp(b - Statics, WordBits) \in Int /\ b - Statics <= RoundUp(b - Statics, WordBits)
  BY <1>1, ConstantTypes, RoundUpBound
<1> QED
  BY <1>2, ConstantTypes DEF WordEnd

(* A dnode has a bit in the index.                                         *)
LEMMA GroupType == ASSUME NEW d \in Int PROVE Group(d) \in Int
  BY ConstantTypes DEF Group

----------------------------------------------------------------------------
(* The boundaries.                                                         *)

(* What tenure_to_area changes: the bits it clears in the reference map    *)
(* lie above the boundary that it moves, unless everything is tenured.     *)
LEMMA TenureFields ==
  ASSUME NEW m \in Memory, Ordered(m), NEW target \in {"g1", "g2", "tenured"},
         NEW n, n = TenureToArea(m, target)
  PROVE  /\ n \in Memory
         /\ n.heap = m.heap /\ n.slot = m.slot /\ n.sbits = m.sbits /\ n.sidx = m.sidx
         /\ n.active = m.active /\ n.low = m.active /\ n.oldspace = m.active
         /\ n.g1 = IF target = "g1" THEN m.g1 ELSE m.active
         /\ n.g2 = IF target = "tenured" THEN m.active ELSE m.g2
         /\ n.oldest = IF target = "tenured" THEN m.active ELSE m.oldest
         /\ target # "tenured" => n.refidx = m.refidx
         /\ target # "tenured" => \A d \in 1..m.low : d \in m.refbits => d \in n.refbits
<1>1. WordEnd(m.low) \in Int /\ m.low <= WordEnd(m.low)
  BY WordEndBound, ConstantTypes DEF Memory, Ordered
<1>2. target # "tenured" => \A d \in 1..m.low : d \notin ZeroedBits(m, target)
  BY <1>1 DEF ZeroedBits, Memory
<1> DEFINE bits == m.refbits \ ZeroedBits(m, target)
           refidx == IF target = "tenured" THEN {} ELSE m.refidx
           g1 == IF target = "g1" THEN m.g1 ELSE m.active
           g2 == IF target = "tenured" THEN m.active ELSE m.g2
           oldest == IF target = "tenured" THEN m.active ELSE m.oldest
<1>3. /\ bits \in SUBSET Int /\ refidx \in SUBSET Int
      /\ g1 \in Int /\ g2 \in Int /\ oldest \in Int /\ m.active \in Int
  BY DEF Memory
<1>4. n = [m EXCEPT !.low = m.active, !.g1 = g1, !.g2 = g2, !.refbits = bits,
                    !.refidx = refidx, !.oldest = oldest, !.oldspace = m.active]
  BY DEF TenureToArea, Memory
<1>5. target # "tenured" => refidx = m.refidx /\ \A d \in 1..m.low : d \in m.refbits => d \in bits
  BY <1>2
<1> HIDE DEF bits, refidx, g1, g2, oldest
<1> DEFINE k == [m EXCEPT !.low = m.active, !.g1 = g1, !.g2 = g2]
<1>6. k \in Memory
  BY ZenonT(60), <1>3 DEF Memory
<1>7. n = [k EXCEPT !.refbits = bits, !.refidx = refidx, !.oldest = oldest,
                    !.oldspace = m.active]
  BY <1>4
<1>8. /\ k.heap = m.heap /\ k.slot = m.slot /\ k.sbits = m.sbits /\ k.sidx = m.sidx
      /\ k.active = m.active /\ k.low = m.active /\ k.g1 = g1 /\ k.g2 = g2
  BY <1>3 DEF Memory
<1> HIDE DEF k
<1>9. n \in Memory
  BY ZenonT(60), <1>3, <1>6, <1>7 DEF Memory
<1>10. /\ n.heap = m.heap /\ n.slot = m.slot /\ n.sbits = m.sbits /\ n.sidx = m.sidx
       /\ n.active = m.active /\ n.low = m.active /\ n.oldspace = m.active
       /\ n.g1 = g1 /\ n.g2 = g2 /\ n.oldest = oldest
       /\ n.refbits = bits /\ n.refidx = refidx
  BY <1>6, <1>7, <1>8 DEF Memory
<1> QED
  BY <1>5, <1>9, <1>10 DEF g1, g2, oldest

(* tenure_to_area: a boundary that moves up to the end of what is in use   *)
(* leaves no reference across it, since no reference goes past the end.    *)
LEMMA Tenure ==
  ASSUME NEW m, NEW old, NEW static, NEW target \in {"g1", "g2", "tenured"},
         m \in Memory, Ordered(m), Bounded(m), StaticCovered(m, static),
         target # "tenured" => m.oldest # 0 /\ OldCovered(m, old)
  PROVE  Good(TenureToArea(m, target), old, static)
<1> DEFINE n == TenureToArea(m, target)
<1>1. /\ n \in Memory
      /\ n.heap = m.heap /\ n.slot = m.slot /\ n.sbits = m.sbits /\ n.sidx = m.sidx
      /\ n.active = m.active /\ n.low = m.active /\ n.oldspace = m.active
      /\ n.g1 = IF target = "g1" THEN m.g1 ELSE m.active
      /\ n.g2 = IF target = "tenured" THEN m.active ELSE m.g2
      /\ n.oldest = IF target = "tenured" THEN m.active ELSE m.oldest
      /\ target # "tenured" => n.refidx = m.refidx
      /\ target # "tenured" => \A d \in 1..m.low : d \in m.refbits => d \in n.refbits
  BY TenureFields
<1> HIDE DEF n
<1>2. Ordered(n)
  BY <1>1, ConstantTypes DEF Ordered, Memory
<1>3. Bounded(n)
  BY <1>1 DEF Bounded
<1>4. StaticCovered(n, static)
  BY <1>1 DEF StaticCovered, VisitedStatics
<1>5. OldCovered(n, old)
  <2> SUFFICES ASSUME n.oldest # 0, NEW b \in {n.oldest, n.g1, n.low}, NEW d \in 1..b,
                      n.heap[d] > b
               PROVE  d \in Visited(n) \/ d \in old
    BY DEF OldCovered
  <2>1. b \in Int /\ b <= n.active /\ b <= High /\ d \in Dnodes
    BY SMTT(60), <1>1, <1>2, ConstantTypes DEF Ordered, Memory, Dnodes
  <2>2. b < m.active
    BY <1>1, <2>1 DEF Bounded, Memory
  <2>3. target # "tenured" /\ b \in {m.oldest, m.g1} /\ b <= m.low
    BY <1>1, <2>2 DEF Ordered, Memory
  <2>4. d \in Visited(m) \/ d \in old
    BY <1>1, <2>3 DEF OldCovered
  <2>5. d \in Visited(m) => d \in Visited(n)
    BY <1>1, <2>3 DEF Visited, Memory, Ordered
  <2> QED
    BY <2>4, <2>5
<1> QED
  BY <1>1, <1>2, <1>3, <1>4, <1>5 DEF Good, n

(* What untenure_from_area changes.                                        *)
LEMMA UntenureFields ==
  ASSUME NEW m \in Memory, Ordered(m), NEW from \in {"g1", "g2", "tenured"},
         NEW n, n = UntenureFromArea(m, from)
  PROVE  /\ n \in Memory
         /\ n.heap = m.heap /\ n.slot = m.slot /\ n.sbits = m.sbits /\ n.sidx = m.sidx
         /\ n.refbits = m.refbits /\ n.refidx = m.refidx /\ n.active = m.active
         /\ n.low <= m.low
         /\ \/ n = m
            \/ /\ m.oldest # 0 /\ n.oldest = 0
               /\ n.low = Statics /\ n.g1 = Statics /\ n.g2 = Statics
            \/ /\ m.oldest # 0 /\ n.oldest = m.oldest /\ n.g2 = m.g2 /\ n.oldspace = m.oldspace
               /\ n.low = n.g1 /\ n.g1 \in {m.g1, m.g2}
<1>1. n \in Memory
  <2>1. CASE m.oldest = 0
    BY <2>1 DEF UntenureFromArea
  <2>2. CASE m.oldest # 0 /\ from = "tenured"
    <3> DEFINE base == [m EXCEPT !.low = Statics, !.g1 = Statics]
    <3>1. n = [base EXCEPT !.g2 = Statics, !.oldest = 0, !.oldspace = 0]
      BY <2>2 DEF UntenureFromArea
    <3>2. Statics \in Int /\ 0 \in Int
      BY ConstantTypes
    <3>3. base \in Memory
      BY <3>2 DEF Memory
    <3> HIDE DEF base
    <3> QED
      BY ZenonT(60), <3>1, <3>2, <3>3 DEF Memory
  <2>3. CASE m.oldest # 0 /\ from \in {"g1", "g2"}
    BY <2>3 DEF UntenureFromArea, Memory
  <2> QED
    BY <2>1, <2>2, <2>3
<1>2. /\ n.heap = m.heap /\ n.slot = m.slot /\ n.sbits = m.sbits /\ n.sidx = m.sidx
      /\ n.refbits = m.refbits /\ n.refidx = m.refidx /\ n.active = m.active
  BY <1>1 DEF UntenureFromArea, Memory
<1>3. \/ n = m
      \/ /\ m.oldest # 0 /\ n.oldest = 0 /\ n.low = Statics /\ n.g1 = Statics /\ n.g2 = Statics
      \/ /\ m.oldest # 0 /\ n.oldest = m.oldest /\ n.g2 = m.g2 /\ n.oldspace = m.oldspace
         /\ n.low = n.g1 /\ n.g1 \in {m.g1, m.g2}
  BY ConstantTypes DEF UntenureFromArea, Memory
<1>4. n.low <= m.low
  BY <1>3, ConstantTypes DEF Ordered, Memory
<1> QED
  BY <1>1, <1>2, <1>3, <1>4

(* untenure_from_area: the generations that are left end at boundaries for *)
(* which references were memoized before.                                  *)
LEMMA Untenure ==
  ASSUME NEW m, NEW old, NEW static, NEW from \in {"g1", "g2", "tenured"},
         Good(m, old, static)
  PROVE  Good(UntenureFromArea(m, from), old, static)
<1> DEFINE n == UntenureFromArea(m, from)
<1> USE DEF Good
<1>1. /\ n \in Memory
      /\ n.heap = m.heap /\ n.slot = m.slot /\ n.sbits = m.sbits /\ n.sidx = m.sidx
      /\ n.refbits = m.refbits /\ n.refidx = m.refidx /\ n.active = m.active
      /\ \/ n = m
         \/ /\ m.oldest # 0 /\ n.oldest = 0
            /\ n.low = Statics /\ n.g1 = Statics /\ n.g2 = Statics
         \/ /\ m.oldest # 0 /\ n.oldest = m.oldest /\ n.g2 = m.g2 /\ n.oldspace = m.oldspace
            /\ n.low = n.g1 /\ n.g1 \in {m.g1, m.g2}
  BY UntenureFields
<1> HIDE DEF n
<1>3. Ordered(n)
  BY <1>1, ConstantTypes DEF Ordered, Memory
<1>4. Bounded(n)
  BY <1>1 DEF Bounded
<1>5. StaticCovered(n, static)
  BY <1>1 DEF StaticCovered, VisitedStatics
<1>6. OldCovered(n, old)
  <2> SUFFICES ASSUME n.oldest # 0, NEW b \in {n.oldest, n.g1, n.low}, NEW d \in 1..b,
                      n.heap[d] > b
               PROVE  d \in Visited(n) \/ d \in old
    BY DEF OldCovered
  <2>1. m.oldest # 0 /\ b \in {m.oldest, m.g1, m.low} /\ b <= n.low /\ b \in Int
    BY <1>1, <1>3, ConstantTypes DEF Ordered, Memory
  <2>2. d \in Visited(m) \/ d \in old
    BY <1>1, <2>1 DEF OldCovered
  <2> QED
    BY <1>1, <2>1, <2>2 DEF Visited, Memory
<1> QED
  BY <1>1, <1>3, <1>4, <1>5, <1>6 DEF n

(* Switching the ephemeral collector on tenures everything, off nothing.   *)
LEMMA Switch ==
  ASSUME NEW m, NEW old, NEW static, NEW activate \in BOOLEAN, Good(m, old, static),
         NEW n, n = EgcControl(m, activate)
  PROVE  /\ n.slot = m.slot /\ n.sbits = m.sbits /\ n.sidx = m.sidx /\ n.active = m.active
         /\ \/ /\ n.refbits = m.refbits /\ n.low <= m.low
               /\ Good(n, old, static)
            \/ /\ activate
               /\ Good(n, {}, static)
<1> USE DEF Good
<1>1. CASE activate = m.older
  BY <1>1 DEF EgcControl, Memory
<1>2. CASE activate /\ ~m.older
  <2> DEFINE e == [m EXCEPT !.older = TRUE]
  <2>1. /\ e \in Memory /\ n = TenureToArea(e, "tenured")
        /\ Ordered(e) /\ Bounded(e) /\ StaticCovered(e, static)
        /\ e.slot = m.slot /\ e.sbits = m.sbits /\ e.sidx = m.sidx /\ e.active = m.active
    BY <1>2 DEF EgcControl, Memory, Ordered, Bounded, StaticCovered, VisitedStatics
  <2> HIDE DEF e
  <2>2. Good(n, {}, static)
    BY <2>1, Tenure
  <2>3. /\ n.slot = e.slot /\ n.sbits = e.sbits /\ n.sidx = e.sidx /\ n.active = e.active
    BY <2>1, TenureFields
  <2> QED
    BY ONLY <1>2, <2>1, <2>2, <2>3
<1>3. CASE ~activate /\ m.older
  <2> DEFINE u == UntenureFromArea(m, "tenured")
  <2>1. Good(u, old, static) /\ n = [u EXCEPT !.older = FALSE]
    BY <1>3, Untenure DEF EgcControl
  <2>2. /\ u.slot = m.slot /\ u.sbits = m.sbits /\ u.sidx = m.sidx /\ u.active = m.active
        /\ u.refbits = m.refbits /\ u.low <= m.low
    BY UntenureFields
  <2> HIDE DEF u
  <2>3. /\ n \in Memory
        /\ n.heap = u.heap /\ n.slot = u.slot /\ n.active = u.active
        /\ n.refbits = u.refbits /\ n.refidx = u.refidx /\ n.sbits = u.sbits /\ n.sidx = u.sidx
        /\ n.g2 = u.g2 /\ n.g1 = u.g1 /\ n.low = u.low
        /\ n.oldest = u.oldest /\ n.oldspace = u.oldspace
    BY <2>1 DEF Memory
  <2>4. Ordered(n) /\ Bounded(n)
    BY <2>1, <2>3 DEF Ordered, Bounded
  <2>5. OldCovered(n, old) /\ StaticCovered(n, static)
    BY <2>1, <2>3 DEF OldCovered, Visited, StaticCovered, VisitedStatics
  <2> QED
    BY <2>2, <2>3, <2>4, <2>5
<1> QED
  BY <1>1, <1>2, <1>3 DEF Memory

----------------------------------------------------------------------------
(* The collection.                                                         *)

(* mark_memoized_area and mark_managed_static_refs: the marker forgets     *)
(* memoized dnodes only where nothing interesting is left.                 *)
LEMMA KeepsInteresting ==
  ASSUME NEW m, Good(m, {}, {})
  PROVE  /\ Good(KeepBits(m), {}, {})
         /\ KeepBits(m).oldest = m.oldest
<1> DEFINE n == KeepBits(m)
<1> USE DEF Good
<1>1. /\ n \in Memory
      /\ n.heap = m.heap /\ n.slot = m.slot /\ n.refidx = m.refidx /\ n.sidx = m.sidx
      /\ n.g2 = m.g2 /\ n.g1 = m.g1 /\ n.low = m.low /\ n.active = m.active
      /\ n.oldest = m.oldest /\ n.oldspace = m.oldspace
  BY DEF KeepBits, MaskLastWord, Memory
<1>2. \A d \in 1..m.low : d \in Visited(m) /\ m.heap[d] > m.oldest => d \in n.refbits
  <2>1. CASE Ephemeral(m)
    <3>1. n.refbits = (m.refbits \ (m.low + 1)..WordEnd(m.low))
                        \ {d \in Visited(m) : m.heap[d] <= m.oldest}
      BY <2>1 DEF KeepBits, MaskLastWord, Memory, Interesting
    <3>2. \A d \in Visited(m) : d \in m.refbits /\ d \in Dnodes
      BY ConstantTypes DEF Visited, Memory, Ordered, Dnodes
    <3> HIDE DEF n
    <3> QED
      BY <3>1, <3>2 DEF Memory
  <2>2. CASE ~Ephemeral(m)
    BY <2>2 DEF KeepBits, Memory, Visited
  <2> QED
    BY <2>1, <2>2
<1>3. \A d \in 1..Statics : d \in VisitedStatics(m) /\ m.heap[d] > Statics => d \in n.sbits
  <2>1. CASE Ephemeral(m)
    <3>1. n.sbits = m.sbits
      BY <2>1 DEF KeepBits, MaskLastWord, Memory
    <3> QED
      BY <3>1 DEF VisitedStatics
  <2>2. CASE ~Ephemeral(m)
    <3>1. n.sbits = m.sbits \ {d \in VisitedStatics(m) : m.heap[d] <= Statics}
      BY <2>2 DEF KeepBits, Memory, Interesting
    <3>2. \A d \in VisitedStatics(m) : d \in m.sbits /\ d \in Dnodes
      BY ConstantTypes DEF VisitedStatics, Dnodes
    <3> HIDE DEF n
    <3> QED
      BY <3>1, <3>2, ConstantTypes DEF Memory
  <2> QED
    BY <2>1, <2>2
<1> HIDE DEF n
<1>4. Ordered(n) /\ Bounded(n)
  BY <1>1 DEF Ordered, Bounded
<1>5. OldCovered(n, {})
  <2> SUFFICES ASSUME n.oldest # 0, NEW b \in {n.oldest, n.g1, n.low}, NEW d \in 1..b,
                      n.heap[d] > b
               PROVE  d \in Visited(n)
    BY DEF OldCovered
  <2>1. b \in Int /\ m.oldest <= b /\ b <= m.low /\ d \in 1..m.low /\ d \in Dnodes
    BY SMTT(60), <1>1, ConstantTypes DEF Ordered, Memory, Dnodes
  <2>2. d \in Visited(m)
    BY <1>1 DEF OldCovered
  <2>3. m.heap[d] > m.oldest
    BY <1>1, <2>1 DEF Memory
  <2> QED
    BY <1>1, <1>2, <2>1, <2>2, <2>3 DEF Visited
<1>6. StaticCovered(n, {})
  BY <1>1, <1>3 DEF StaticCovered, VisitedStatics
<1> QED
  BY <1>1, <1>4, <1>5, <1>6 DEF n

Area(m) == (m.low + 1)..m.active
Starting(m) == IF Ephemeral(m) THEN Visited(m) ELSE VisitedStatics(m)

(* The marker reaches what the roots, the memoized dnodes and marked       *)
(* dnodes refer to in the area that is collected.                          *)
LEMMA MarkedIsClosed ==
  ASSUME NEW m
  PROVE  /\ Marked(m) \subseteq Area(m)
         /\ \A s \in Slots : m.slot[s] \in Area(m) => m.slot[s] \in Marked(m)
         /\ \A d \in Starting(m) : m.heap[d] \in Area(m) => m.heap[d] \in Marked(m)
         /\ \A e \in Marked(m) : m.heap[e] \in Area(m) => m.heap[e] \in Marked(m)
  BY DEF Marked, Area, Starting

(* What an older area refers to is forwarded, and is marked.               *)
LEMMA OutsideIsForwarded ==
  ASSUME NEW m, Good(m, {}, {}), NEW d \in 1..m.low, m.heap[d] > m.low
  PROVE  d \in Forwarded(m) /\ m.heap[d] \in Marked(m)
<1> USE DEF Good
<1>1. d \in Dnodes /\ m.heap[d] \in Area(m)
  BY SMTT(60), ConstantTypes DEF Area, Ordered, Bounded, Memory, Dnodes
<1>2. CASE Ephemeral(m)
  <2>1. d \in Visited(m)
    BY <1>2 DEF Ephemeral, OldCovered
  <2> QED
    BY <1>1, <1>2, <2>1, MarkedIsClosed DEF Forwarded, Starting
<1>3. CASE ~Ephemeral(m)
  <2>1. d \in VisitedStatics(m)
    BY <1>3 DEF Ephemeral, Ordered, StaticCovered
  <2> QED
    BY <1>1, <1>3, <2>1, MarkedIsClosed DEF Forwarded, Starting, VisitedStatics
<1> QED
  BY <1>2, <1>3

(* Marked dnodes go to places between the boundary and the number of them  *)
(* past it.                                                                *)
LEMMA Counting ==
  ASSUME NEW m, m \in Memory, Ordered(m), NEW M \in SUBSET Area(m)
  PROVE  /\ Cardinality(M) \in Nat /\ m.low + Cardinality(M) <= m.active
         /\ \A d \in M : /\ Place(m, M, d) \in Int
                         /\ m.low < Place(m, M, d)
                         /\ Place(m, M, d) <= m.low + Cardinality(M)
<1>0. m.low \in Int /\ m.active \in Int /\ m.low <= m.active
  BY DEF Memory, Ordered
<1>1. /\ m.low \in Int /\ m.active \in Int
      /\ IsFiniteSet(Area(m)) /\ Cardinality(Area(m)) = m.active - m.low
  <2> DEFINE a == m.low + 1
             b == m.active
  <2>1. a \in Int /\ b \in Int /\ Area(m) = a..b
    BY <1>0 DEF Area
  <2> HIDE DEF a, b
  <2>2. IsFiniteSet(a..b) /\ Cardinality(a..b) = IF a > b THEN 0 ELSE b - a + 1
    BY <2>1, FS_Interval
  <2>3. b - a + 1 = m.active - m.low /\ (a > b => m.active - m.low = 0)
    BY <1>0 DEF a, b
  <2> QED
    BY <1>0, <2>1, <2>2, <2>3
<1>2. IsFiniteSet(M) /\ Cardinality(M) <= Cardinality(Area(m))
  BY <1>1, FS_Subset
<1>3. Cardinality(M) \in Nat
  BY <1>2, FS_CardinalityType
<1>4. ASSUME NEW d \in M
      PROVE  /\ Place(m, M, d) \in Int
             /\ m.low < Place(m, M, d) /\ Place(m, M, d) <= m.low + Cardinality(M)
  <2> DEFINE below == {e \in M : e < d}
  <2>1. below \in SUBSET M /\ d \notin below
    BY <1>1 DEF Area
  <2>2. IsFiniteSet(below) /\ Cardinality(below) \in Nat /\ Cardinality(below) <= Cardinality(M)
    BY <1>2, <2>1, FS_Subset, FS_CardinalityType
  <2>3. Cardinality(below) # Cardinality(M)
    BY <1>2, <2>1, FS_Subset
  <2>4. Place(m, M, d) = m.low + 1 + Cardinality(below)
    BY DEF Place
  <2> HIDE DEF below
  <2> QED
    BY <1>1, <1>3, <2>2, <2>3, <2>4
<1> QED
  BY <1>1, <1>2, <1>3, <1>4

(* A reference to something marked goes on as far as it has to, and not    *)
(* across a boundary.                                                      *)
LEMMA ForwardBound ==
  ASSUME NEW m, m \in Memory, Ordered(m), NEW M \in SUBSET Area(m),
         NEW v \in Int, v <= m.active, v \in Area(m) => v \in M
  PROVE  /\ Forward(m, M, v) \in Int
         /\ Forward(m, M, v) <= m.low + Cardinality(M)
         /\ \A b \in Int : b <= m.low /\ Forward(m, M, v) > b => v > b
<1>1. m.low \in Int /\ m.active \in Int /\ Cardinality(M) \in Nat
  BY Counting DEF Memory
<1>2. CASE v \in Area(m)
  <2>1. Forward(m, M, v) = Place(m, M, v) /\ v \in M /\ v > m.low
    BY <1>1, <1>2 DEF Forward, Area
  <2>2. Place(m, M, v) \in Int /\ Place(m, M, v) <= m.low + Cardinality(M)
    BY <2>1, Counting
  <2> QED
    BY <1>1, <2>1, <2>2
<1>3. CASE v \notin Area(m)
  <2>1. Forward(m, M, v) = v /\ v <= m.low
    BY <1>1, <1>3 DEF Forward, Area
  <2> QED
    BY <1>1, <2>1
<1> QED
  BY <1>2, <1>3

(* What sliding and forwarding change: below the boundary every reference  *)
(* is forwarded, whether its dnode is memoized or not.                     *)
LEMMA CompactFields ==
  ASSUME NEW m, Good(m, {}, {}), NEW M, M = Marked(m), NEW n, n = Compact(m, M)
  PROVE  /\ n \in Memory
         /\ n.refidx = m.refidx /\ n.sbits = m.sbits /\ n.sidx = m.sidx
         /\ n.g2 = m.g2 /\ n.g1 = m.g1 /\ n.low = m.low
         /\ n.oldest = m.oldest /\ n.oldspace = m.oldspace
         /\ n.active = m.low + Cardinality(M)
         /\ m.low <= n.active /\ n.active <= m.active
         /\ \A d \in 1..m.low : d \in m.refbits => d \in n.refbits
         /\ \A d \in Dnodes : n.heap[d] <= n.active
         /\ \A s \in Slots : n.slot[s] <= n.active
         /\ \A d \in 1..m.low : n.heap[d] = Forward(m, M, m.heap[d])
<1> USE DEF Good
<1>1. /\ m.low \in Int /\ m.active \in Int /\ m.low <= m.active
      /\ M \in SUBSET Area(m) /\ Cardinality(M) \in Nat
      /\ m.low + Cardinality(M) <= m.active
  BY MarkedIsClosed, Counting DEF Memory, Ordered
<1>0. 0 <= m.low /\ m.active <= High
  BY ConstantTypes DEF Memory, Ordered
<1>2. ASSUME NEW v \in Int, v <= m.active, v \in Area(m) => v \in M
      PROVE  Forward(m, M, v) \in Int /\ Forward(m, M, v) <= m.low + Cardinality(M)
  BY <1>1, <1>2, ForwardBound
<1>3. ASSUME NEW d \in 1..m.low
      PROVE  /\ d \in Dnodes /\ m.heap[d] \in Int /\ m.heap[d] <= m.active
             /\ m.heap[d] \in Area(m) => m.heap[d] \in M
             /\ Cell(m, M, d) = Forward(m, M, m.heap[d])
  <2>1. d \in Dnodes /\ m.heap[d] \in Int /\ m.heap[d] <= m.active /\ d \in Int /\ d <= m.low
    BY SMTT(60), <1>1, ConstantTypes DEF Dnodes, Memory, Bounded, Ordered
  <2>2. CASE m.heap[d] > m.low
    BY <1>1, <2>1, <2>2, OutsideIsForwarded DEF Cell
  <2>3. CASE ~(m.heap[d] > m.low)
    <3>1. m.heap[d] \notin Area(m) /\ Forward(m, M, m.heap[d]) = m.heap[d]
      BY <1>1, <2>1, <2>3 DEF Area, Forward
    <3> QED
      BY <1>1, <2>1, <3>1 DEF Cell
  <2> QED
    BY <2>2, <2>3
<1>4. ASSUME NEW d \in Dnodes
      PROVE  Cell(m, M, d) \in Int /\ Cell(m, M, d) <= m.low + Cardinality(M)
  <2>1. CASE d > m.low
    <3> DEFINE here == {e \in M : Place(m, M, e) = d}
               from == CHOOSE e \in here : TRUE
    <3>0. Cell(m, M, d) = IF here # {} THEN Forward(m, M, m.heap[from]) ELSE 0
      <4>1. d \in Int /\ ~(d <= m.low) /\ d > m.low
        BY <1>1, <2>1, ConstantTypes DEF Dnodes
      <4> QED
        BY <4>1 DEF Cell
    <3> HIDE DEF from
    <3>1. CASE here = {}
      BY <1>0, <1>1, <3>0, <3>1
    <3>2. CASE here # {}
      <4>0. from \in here
        BY <3>2 DEF from
      <4>1. from \in M /\ from \in Dnodes
        BY <1>0, <1>1, <4>0, ConstantTypes DEF Area, Dnodes
      <4>2. Cell(m, M, d) = Forward(m, M, m.heap[from])
        BY <3>0, <3>2
      <4>3. /\ m.heap[from] \in Int /\ m.heap[from] <= m.active
            /\ m.heap[from] \in Area(m) => m.heap[from] \in M
        BY <4>1, MarkedIsClosed DEF Memory, Bounded
      <4>4. /\ Forward(m, M, m.heap[from]) \in Int
            /\ Forward(m, M, m.heap[from]) <= m.low + Cardinality(M)
        BY ONLY <1>2, <4>3
      <4> QED
        BY ONLY <4>2, <4>4
    <3> QED
      BY <3>1, <3>2
  <2>2. CASE d <= m.low
    <3>1. d \in 1..m.low
      BY <1>1, <2>2, ConstantTypes DEF Dnodes
    <3> QED
      BY <1>2, <1>3, <3>1
  <2> QED
    BY <1>1, <2>1, <2>2, ConstantTypes DEF Dnodes
<1>5. ASSUME NEW s \in Slots
      PROVE  /\ Forward(m, M, m.slot[s]) \in Int
             /\ Forward(m, M, m.slot[s]) <= m.low + Cardinality(M)
  <2>1. m.slot[s] \in Int /\ m.slot[s] <= m.active /\ (m.slot[s] \in Area(m) => m.slot[s] \in M)
    BY MarkedIsClosed DEF Memory, Bounded
  <2> QED
    BY <1>2, <2>1
<1> DEFINE end == WordEnd(m.low)
           marks == {end + e - m.low : e \in M}
           span == (end + 1)..(end + RoundUp(m.active - m.low, WordBits))
<1>6. end \in Int /\ m.low <= end
  <2>1. Statics <= m.low
    BY ConstantTypes DEF Ordered, Memory
  <2> QED
    BY <1>1, <2>1, WordEndBound
<1>7. marks \in SUBSET Int /\ \A d \in 1..m.low : d \notin span
  <2>1. \A e \in M : e \in Int
    BY <1>1 DEF Area
  <2> HIDE DEF end
  <2> QED
    BY <1>1, <1>6, <2>1
<1>8. n = [m EXCEPT !.heap = [d \in Dnodes |-> Cell(m, M, d)],
                    !.slot = [s \in Slots |-> Forward(m, M, m.slot[s])],
                    !.active = m.low + Cardinality(M),
                    !.refbits = (m.refbits \ span) \cup marks]
  BY DEF Compact, Memory
<1> HIDE DEF marks, span
<1> DEFINE cells == [d \in Dnodes |-> Cell(m, M, d)]
           slots == [s \in Slots |-> Forward(m, M, m.slot[s])]
           last == m.low + Cardinality(M)
           bits == (m.refbits \ span) \cup marks
<1>9. /\ cells \in [Dnodes -> Int] /\ slots \in [Slots -> Int] /\ last \in Int
      /\ m.refbits \in SUBSET Int
  BY <1>1, <1>4, <1>5 DEF Memory
<1>10. bits \in SUBSET Int
  BY <1>7, <1>9
<1>11. /\ \A d \in Dnodes : cells[d] = Cell(m, M, d)
       /\ \A s \in Slots : slots[s] = Forward(m, M, m.slot[s])
  OBVIOUS
<1>12. \A d \in 1..m.low : d \in m.refbits => d \in bits
  BY <1>7
<1> HIDE DEF cells, slots, last, bits
<1>13. n = [m EXCEPT !.heap = cells, !.slot = slots, !.active = last, !.refbits = bits]
  BY <1>8 DEF cells, slots, last, bits
<1>14. n \in Memory
  BY <1>9, <1>10, <1>13 DEF Memory
<1>15. /\ n.heap = cells /\ n.slot = slots /\ n.active = last /\ n.refbits = bits
       /\ n.refidx = m.refidx /\ n.sbits = m.sbits /\ n.sidx = m.sidx
       /\ n.g2 = m.g2 /\ n.g1 = m.g1 /\ n.low = m.low
       /\ n.oldest = m.oldest /\ n.oldspace = m.oldspace
  BY <1>13 DEF Memory
<1>16. last = m.low + Cardinality(M)
  BY DEF last
<1>17. m.low <= last /\ last <= m.active
  BY <1>1, <1>16
<1> QED
  BY <1>3, <1>4, <1>5, <1>11, <1>12, <1>14, <1>15, <1>16, <1>17

(* Compaction keeps everything memoized: no reference crosses a boundary   *)
(* that it did not cross before.                                           *)
LEMMA Compacts ==
  ASSUME NEW m, Good(m, {}, {})
  PROVE  Good(Compact(m, Marked(m)), {}, {})
<1> DEFINE M == Marked(m)
           n == Compact(m, M)
<1> USE DEF Good
<1>1. /\ n \in Memory
      /\ n.refidx = m.refidx /\ n.sbits = m.sbits /\ n.sidx = m.sidx
      /\ n.g2 = m.g2 /\ n.g1 = m.g1 /\ n.low = m.low
      /\ n.oldest = m.oldest /\ n.oldspace = m.oldspace
      /\ n.active = m.low + Cardinality(M)
      /\ m.low <= n.active /\ n.active <= m.active
      /\ \A d \in 1..m.low : d \in m.refbits => d \in n.refbits
      /\ \A d \in Dnodes : n.heap[d] <= n.active
      /\ \A s \in Slots : n.slot[s] <= n.active
      /\ \A d \in 1..m.low : n.heap[d] = Forward(m, M, m.heap[d])
  BY CompactFields
<1>2. ASSUME NEW b \in Int, b <= m.low, NEW d \in 1..m.low, n.heap[d] > b
      PROVE  m.heap[d] > b
  <2>1. M \in SUBSET Area(m) /\ m.heap[d] \in Int /\ m.heap[d] <= m.active
    BY MarkedIsClosed, ConstantTypes DEF Memory, Bounded, Ordered, Dnodes
  <2>2. m.heap[d] \in Area(m) => m.heap[d] \in M
    BY OutsideIsForwarded DEF Area, Memory
  <2>3. Forward(m, M, m.heap[d]) > b
    BY <1>1, <1>2
  <2> HIDE DEF M, n
  <2> QED
    BY <1>2, <2>1, <2>2, <2>3, ForwardBound
<1> HIDE DEF n
<1>3. Ordered(n)
  BY <1>1, ConstantTypes DEF Ordered, Memory
<1>4. Bounded(n)
  BY <1>1 DEF Bounded
<1>5. OldCovered(n, {})
  <2> SUFFICES ASSUME n.oldest # 0, NEW b \in {n.oldest, n.g1, n.low}, NEW d \in 1..b,
                      n.heap[d] > b
               PROVE  d \in Visited(n)
    BY DEF OldCovered
  <2>1. b \in Int /\ b <= m.low /\ d \in 1..m.low
    BY <1>1, <1>3 DEF Ordered, Memory
  <2>2. m.heap[d] > b
    BY <1>2, <2>1
  <2>3. d \in Visited(m)
    BY <1>1, <2>2 DEF OldCovered
  <2> QED
    BY <1>1, <2>1, <2>3 DEF Visited
<1>6. StaticCovered(n, {})
  <2> SUFFICES ASSUME NEW d \in 1..Statics, n.heap[d] > Statics
               PROVE  d \in VisitedStatics(n)
    BY DEF StaticCovered
  <2>1. d \in 1..m.low /\ Statics \in Int /\ Statics <= m.low
    BY ConstantTypes DEF Ordered, Memory
  <2>2. m.heap[d] > Statics
    BY <1>2, <2>1
  <2> QED
    BY <1>1, <2>2 DEF StaticCovered, VisitedStatics
<1> QED
  BY <1>1, <1>3, <1>4, <1>5, <1>6 DEF n

(* gc: whatever generations it collects and wherever its survivors go,     *)
(* what has to be memoized is.                                             *)
LEMMA Collects ==
  ASSUME NEW m, Good(m, {}, {})
  PROVE  Good(Gc(m), {}, {})
<1> DEFINE u == IF FromArea(m) = "none" THEN m ELSE UntenureFromArea(m, FromArea(m))
           k == KeepBits(u)
           c == Compact(k, Marked(k))
           t == IF ToArea(m) = "none" THEN c ELSE TenureToArea(c, ToArea(m))
<1>1. /\ FromArea(m) \in {"none", "g1", "g2"}
      /\ ToArea(m) \in {"none", "g1", "g2", "tenured"}
      /\ ~Ephemeral(m) => FromArea(m) = "none" /\ ToArea(m) = "none"
  BY DEF FromArea, ToArea
<1>2. Good(u, {}, {})
  BY <1>1, Untenure
<1>3. u.oldest = m.oldest
  BY <1>1 DEF UntenureFromArea, Good, Memory
<1> HIDE DEF u
<1>4. Good(k, {}, {}) /\ k.oldest = m.oldest
  BY <1>2, <1>3, KeepsInteresting
<1> HIDE DEF k
<1>5. Good(c, {}, {}) /\ c.oldest = m.oldest
  BY <1>4, Compacts, CompactFields
<1> HIDE DEF c
<1>6. Good(t, {}, {})
  BY <1>1, <1>5, Tenure DEF Good, Ephemeral
<1> HIDE DEF t
<1>7. Good(Rebalance(t, Ephemeral(m)), {}, {})
  BY <1>6, Untenure, Tenure DEF Rebalance, Good
<1>8. Gc(m) = IF u.active = u.low THEN u ELSE Rebalance(t, Ephemeral(m))
  BY DEF Gc, u, k, c, t
<1> QED
  BY <1>2, <1>7, <1>8

----------------------------------------------------------------------------
(* The barrier.                                                            *)

(* Dnodes that a thread has stored a younger object's address into and has *)
(* still to memoize, in the map of the older areas and in that of managed  *)
(* static memory.                                                          *)
OldHands(m) ==
    {d \in Dnodes : \E t \in Threads :
        /\ Obj(m, t) = d /\ Val(m, t) > d
        /\ pc[t] = "stored" \/ (pc[t] = "refidx" /\ d \in m.refbits)}

StaticHands(m) ==
    {d \in Dnodes : \E t \in Threads :
        /\ Obj(m, t) = d /\ Val(m, t) > d
        /\ \/ pc[t] \in {"stored", "refidx", "static"}
           \/ pc[t] \in {"sidx", "btsq"} /\ d \in m.sbits}

(* The registers hold numbers.                                             *)
LEMMA Registered ==
  ASSUME NEW m, m \in Memory, NEW t \in Threads
  PROVE  Obj(m, t) \in Int /\ Val(m, t) \in Int
  BY DEF Obj, Val, Memory, Slots, Registers

(* A collection finds every barrier finished.                              *)
LEMMA Finished ==
  ASSUME NEW m, Good(m, OldHands(m), StaticHands(m)), \A t \in Threads : pc[t] # "btsq"
  PROVE  Good(PcLuserXp(m), {}, {})
<1> DEFINE memoized == {Obj(m, t) : t \in {u \in Finishing : Val(m, u) > Obj(m, u)}}
           old == {d \in memoized : d <= m.oldspace}
           static == InStatics(memoized)
           slots == [s \in Slots |-> IF s \in Finishing \X {"obj", "val"} THEN 0 ELSE m.slot[s]]
           n == PcLuserXp(m)
<1> USE DEF Good
<1>1. memoized \in SUBSET Int
  BY Registered DEF Finishing
<1>2. static \in SUBSET memoized /\ \A d \in memoized \cap 1..Statics : d \in static
  BY DEF InStatics
<1>3. \A d \in OldHands(m) \cup StaticHands(m) : d \in memoized
  BY DEF OldHands, StaticHands, Finishing
<1> HIDE DEF memoized, static
<1>4. slots \in [Slots -> Int] /\ \A s \in Slots : slots[s] <= m.active
  BY ConstantTypes DEF Memory, Bounded, Ordered
<1> DEFINE oldGroups == {Group(d) : d \in old}
           staticGroups == {Group(d) : d \in static}
<1>5. old \in SUBSET Int /\ static \in SUBSET Int
  BY <1>1, <1>2
<1>6. oldGroups \in SUBSET Int /\ staticGroups \in SUBSET Int
  BY <1>5, GroupType
<1>7. n = [m EXCEPT !.slot = slots, !.refbits = m.refbits \cup old,
                    !.refidx = m.refidx \cup oldGroups, !.sbits = m.sbits \cup static,
                    !.sidx = m.sidx \cup staticGroups]
  BY DEF PcLuserXp, memoized, static, Memory
<1>8. /\ \A d \in old : Group(d) \in oldGroups
      /\ \A d \in static : Group(d) \in staticGroups
      /\ \A d \in memoized : d <= m.oldspace => d \in old
  OBVIOUS
<1> HIDE DEF n, slots, old, oldGroups, staticGroups
<1>9. n \in Memory
  BY <1>4, <1>5, <1>6, <1>7 DEF Memory
<1>10. /\ n.heap = m.heap /\ n.slot = slots /\ n.g2 = m.g2 /\ n.g1 = m.g1 /\ n.low = m.low
       /\ n.active = m.active /\ n.oldest = m.oldest /\ n.oldspace = m.oldspace
       /\ n.refbits = m.refbits \cup old /\ n.refidx = m.refidx \cup oldGroups
       /\ n.sbits = m.sbits \cup static /\ n.sidx = m.sidx \cup staticGroups
  BY <1>7 DEF Memory
<1>11. Ordered(n) /\ Bounded(n)
  BY <1>4, <1>10 DEF Ordered, Bounded
<1>12. OldCovered(n, {})
  <2> SUFFICES ASSUME n.oldest # 0, NEW b \in {n.oldest, n.g1, n.low}, NEW d \in 1..b,
                      n.heap[d] > b
               PROVE  d \in Visited(n)
    BY DEF OldCovered
  <2>1. d \in 1..m.low /\ d <= m.oldspace
    BY <1>10, <1>11, ConstantTypes DEF Ordered, Memory
  <2>2. d \in Visited(m) \/ d \in OldHands(m)
    BY <1>10 DEF OldCovered
  <2>3. d \in Visited(m) => d \in Visited(n)
    BY <1>10 DEF Visited
  <2>4. d \in OldHands(m) => d \in Visited(n)
    BY <1>3, <1>8, <1>10, <2>1 DEF Visited
  <2> QED
    BY <2>2, <2>3, <2>4
<1>13. StaticCovered(n, {})
  <2> SUFFICES ASSUME NEW d \in 1..Statics, n.heap[d] > Statics
               PROVE  d \in VisitedStatics(n)
    BY DEF StaticCovered
  <2>1. d \in VisitedStatics(m) \/ d \in StaticHands(m)
    BY <1>10 DEF StaticCovered
  <2>2. d \in VisitedStatics(m) => d \in VisitedStatics(n)
    BY <1>10 DEF VisitedStatics
  <2>3. d \in StaticHands(m) => d \in VisitedStatics(n)
    BY <1>2, <1>3, <1>8, <1>10 DEF VisitedStatics
  <2> QED
    BY <2>1, <2>2, <2>3
<1> QED
  BY <1>9, <1>11, <1>12, <1>13 DEF n

----------------------------------------------------------------------------
(* The steps of the program.                                               *)

SameAreas(m, n) ==
    /\ n.g2 = m.g2 /\ n.g1 = m.g1 /\ n.low = m.low
    /\ n.oldest = m.oldest /\ n.oldspace = m.oldspace

MoreBits(m, n) ==
    /\ m.refbits \subseteq n.refbits /\ m.refidx \subseteq n.refidx
    /\ m.sbits \subseteq n.sbits /\ m.sidx \subseteq n.sidx

(* A step that writes references where no boundary is crossed, or in the   *)
(* hands of a thread, and lets go of nothing that is not memoized.         *)
LEMMA Stays ==
  ASSUME NEW m, NEW H, NEW S, Good(m, H, S),
         NEW n, NEW H2, NEW S2, n \in Memory, SameAreas(m, n), MoreBits(m, n),
         m.active <= n.active, n.active <= High,
         \A s \in Slots : n.slot[s] <= n.active,
         \A d \in Dnodes : n.heap[d] <= n.active,
         \A d \in Dnodes : \/ n.heap[d] = m.heap[d] \/ n.heap[d] <= d \/ d > m.low
                         \/ (d \in H2 /\ d \in S2),
         \A d \in H : d \in H2 \/ d > m.oldspace \/ (d \in n.refbits /\ Group(d) \in n.refidx),
         \A d \in S : d \in S2 \/ d > Statics \/ (d \in n.sbits /\ Group(d) \in n.sidx)
  PROVE  Good(n, H2, S2)
<1> USE DEF Good
<1>1. Ordered(n)
  BY ConstantTypes DEF Ordered, SameAreas, Memory
<1>2. Bounded(n)
  BY DEF Bounded
<1>3. OldCovered(n, H2)
  <2> SUFFICES ASSUME n.oldest # 0, NEW b \in {n.oldest, n.g1, n.low}, NEW d \in 1..b,
                      n.heap[d] > b
               PROVE  d \in Visited(n) \/ d \in H2
    BY DEF OldCovered
  <2>1. b \in Int /\ b <= m.low /\ d \in Int /\ d <= b /\ d \in 1..m.low /\ m.low <= m.oldspace
    BY ConstantTypes DEF Ordered, SameAreas, Memory
  <2>0. d \in Dnodes
    BY SMTT(60), <2>1, ConstantTypes DEF Ordered, Memory, Dnodes
  <2>2. d \in Dnodes /\ n.heap[d] \in Int
    BY <2>0 DEF Memory
  <2>3. n.heap[d] = m.heap[d] \/ d \in H2
    BY <2>1, <2>2 DEF Memory
  <2>4. d \in H2 \/ d \in Visited(m) \/ d \in H
    BY <2>3 DEF OldCovered, SameAreas
  <2>5. d \in Visited(m) => d \in Visited(n)
    BY DEF Visited, SameAreas, MoreBits
  <2>6. d \in H => d \in H2 \/ d \in Visited(n)
    BY <2>1 DEF Visited, SameAreas, Memory
  <2> QED
    BY <2>4, <2>5, <2>6
<1>4. StaticCovered(n, S2)
  <2> SUFFICES ASSUME NEW d \in 1..Statics, n.heap[d] > Statics
               PROVE  d \in VisitedStatics(n) \/ d \in S2
    BY DEF StaticCovered
  <2>0. d \in Dnodes /\ d <= m.low /\ d <= Statics
    BY ConstantTypes DEF Ordered, Memory, Dnodes
  <2>1. d \in Dnodes /\ d <= m.low /\ d <= Statics /\ n.heap[d] \in Int /\ m.low \in Int
    BY <2>0 DEF Memory
  <2>2. n.heap[d] = m.heap[d] \/ d \in S2
    BY <2>1, ConstantTypes
  <2>3. d \in S2 \/ d \in VisitedStatics(m) \/ d \in S
    BY <2>2 DEF StaticCovered
  <2>4. d \in VisitedStatics(m) => d \in VisitedStatics(n)
    BY DEF VisitedStatics, MoreBits
  <2>5. d \in S => d \in S2 \/ d \in VisitedStatics(n)
    BY <2>1, ConstantTypes DEF VisitedStatics
  <2> QED
    BY <2>3, <2>4, <2>5
<1> QED
  BY <1>1, <1>2, <1>3, <1>4

(* What threads have in hand besides does no harm.                         *)
LEMMA FewerHands ==
  ASSUME NEW m, NEW H, NEW S, NEW H2, NEW S2, Good(m, H, S), H \subseteq H2, S \subseteq S2
  PROVE  Good(m, H2, S2)
  BY DEF Good, OldCovered, StaticCovered

(* What a thread that loads its registers changes.                         *)
LEMMA Registers1 ==
  ASSUME NEW m, m \in Memory, NEW t \in Threads, NEW o \in Int, NEW v \in Int,
         NEW n, n = SetReg(m, t, o, v)
  PROVE  /\ n \in Memory /\ n.heap = m.heap /\ n.active = m.active
         /\ SameAreas(m, n)
         /\ n.refbits = m.refbits /\ n.refidx = m.refidx /\ n.sbits = m.sbits /\ n.sidx = m.sidx
         /\ \A s \in Slots : n.slot[s] \in {m.slot[s], o, v}
         /\ Obj(n, t) = o /\ Val(n, t) = v
         /\ \A u \in Threads \ {t} : Obj(n, u) = Obj(m, u) /\ Val(n, u) = Val(m, u)
<1>1. \A u \in Threads : <<u, "obj">> \in Slots /\ <<u, "val">> \in Slots
  BY DEF Slots, Registers
<1> DEFINE slots == [[m.slot EXCEPT ![<<t, "obj">>] = o] EXCEPT ![<<t, "val">>] = v]
<1>2. slots \in [Slots -> Int] /\ \A s \in Slots : slots[s] \in {m.slot[s], o, v}
  BY <1>1 DEF Memory
<1>3. /\ slots[<<t, "obj">>] = o /\ slots[<<t, "val">>] = v
      /\ \A u \in Threads \ {t} : /\ slots[<<u, "obj">>] = m.slot[<<u, "obj">>]
                                  /\ slots[<<u, "val">>] = m.slot[<<u, "val">>]
  BY <1>1 DEF Memory
<1>4. n = [m EXCEPT !.slot = slots]
  BY DEF SetReg, Memory
<1> HIDE DEF slots
<1> QED
  BY <1>2, <1>3, <1>4 DEF Memory, SameAreas, Obj, Val

(* What consing into a segment changes.                                    *)
LEMMA ConsFields ==
  ASSUME NEW m, m \in Memory, NEW d \in Dnodes, NEW r \in Roots, NEW v \in Int,
         NEW n, n = ConsIn(m, d, r, v)
  PROVE  /\ n \in Memory /\ n.active = m.active
         /\ SameAreas(m, n)
         /\ n.refbits = m.refbits /\ n.refidx = m.refidx /\ n.sbits = m.sbits /\ n.sidx = m.sidx
         /\ \A e \in Dnodes : n.heap[e] = IF e = d THEN v ELSE m.heap[e]
         /\ \A s \in Slots : n.slot[s] \in {m.slot[s], d}
         /\ \A u \in Threads : Obj(n, u) = Obj(m, u) /\ Val(n, u) = Val(m, u)
<1> DEFINE heap == [m.heap EXCEPT ![d] = v]
           slots == [m.slot EXCEPT ![r] = d]
<1>1. d \in Int /\ r \in Slots
  BY ConstantTypes DEF Dnodes, Slots
<1>2. heap \in [Dnodes -> Int] /\ \A e \in Dnodes : heap[e] = IF e = d THEN v ELSE m.heap[e]
  BY DEF Memory
<1>3. slots \in [Slots -> Int] /\ \A s \in Slots : slots[s] \in {m.slot[s], d}
  BY <1>1 DEF Memory
<1>4. \A u \in Threads : /\ slots[<<u, "obj">>] = m.slot[<<u, "obj">>]
                         /\ slots[<<u, "val">>] = m.slot[<<u, "val">>]
  <2> TAKE u \in Threads
  <2>1. /\ <<u, "obj">> \in Slots /\ <<u, "val">> \in Slots
        /\ <<u, "obj">> # r /\ <<u, "val">> # r
    BY GenerationsAssumption DEF Slots, Registers
  <2> QED
    BY <2>1 DEF Memory
<1>5. n = [m EXCEPT !.heap = heap, !.slot = slots]
  BY DEF ConsIn, Memory
<1> HIDE DEF heap, slots
<1> QED
  BY <1>2, <1>3, <1>4, <1>5 DEF Memory, SameAreas, Obj, Val

(* A segment is used from its end.                                         *)
LEMMA LastOfSegment == ASSUME NEW a \in Int, NEW b \in Int, a <= b PROVE Max(a..b) = b
<1>1. b \in a..b /\ \A x \in a..b : b >= x
  OBVIOUS
<1>2. \A x \in a..b : (\A y \in a..b : x >= y) => x = b
  OBVIOUS
<1> QED
  BY <1>1, <1>2 DEF Max

(* The values and objects that the program hands to the barrier lie below  *)
(* the end of what is in use.                                              *)
LEMMA ReachableBound ==
  ASSUME NEW m, m \in Memory, Ordered(m), Bounded(m)
  PROVE  /\ 0 <= m.active /\ m.active \in Int
         /\ \A v \in Values(m) : v \in Int /\ v <= m.active
         /\ \A d \in Objects(m) : d \in Dnodes /\ d \in Int /\ d <= m.active
<1>1. 0 <= m.active /\ m.active \in Int /\ Statics <= m.active
  BY ConstantTypes DEF Ordered, Memory
<1>2. ASSUME NEW v \in Values(m) PROVE v \in Int /\ v <= m.active
  BY <1>1 DEF Values, Slots, Memory, Bounded
<1>3. ASSUME NEW d \in Objects(m) PROVE d \in Dnodes /\ d \in Int /\ d <= m.active
  <2> DEFINE named == (Values(m) \cup 1..Statics) \cap Dnodes
  <2>1. d \in Dnodes /\ d \in named \cup {m.heap[e] : e \in named}
    BY DEF Objects
  <2>2. d \in Int
    BY <2>1, ConstantTypes DEF Dnodes
  <2>3. CASE d \in named
    BY <1>1, <1>2, <2>2, <2>3, ConstantTypes
  <2>4. CASE d \in {m.heap[e] : e \in named}
    <3>1. PICK e \in named : d = m.heap[e]
      BY <2>4
    <3> QED
      BY <2>1, <2>2, <3>1 DEF Bounded
  <2> QED
    BY <2>1, <2>2, <2>3, <2>4
<1> QED
  BY <1>1, <1>2, <1>3

----------------------------------------------------------------------------
(* The invariant.                                                          *)

InHand == {"stored", "refidx", "static", "sidx", "btsq"}

Points == {"idle", "store", "retry"} \cup InHand
            \cup {"alloc", "segment", "full", "extend", "gc", "gc and enable", "immediate",
                  "done", "enable"}

Types ==
    /\ pc \in [Threads -> Points] /\ word \in [Threads -> SUBSET Int]
    /\ initial \in [Threads -> Int] /\ seg \in [Threads -> SUBSET Int]

(* Segments lie above the youngest boundary, so that nothing consed in     *)
(* them needs to be memoized.                                              *)
SegmentInv ==
    \A t \in Threads :
        \/ seg[t] = {}
        \/ \E a, b \in Dnodes : /\ seg[t] = a..b /\ a <= b
                               /\ mem.low < a /\ b <= mem.active

(* Between the two halves of a btsq without lock prefix nobody changes the *)
(* word.                                                                   *)
IndexInv ==
    \A t \in Threads :
        /\ pc[t] \in {"store", "retry"} \cup InHand => t \in Storers
        /\ pc[t] = "btsq" => t \in Unlocked /\ word[t] = mem.sidx

ElementInv == \A t \in Threads : initial[t] \in {NoElement, 0}

MemoryInv == Good(mem, OldHands(mem), StaticHands(mem))

IInv == Types /\ MemoryInv /\ SegmentInv /\ IndexInv /\ ElementInv

(* What runs beside the barrier and is known to break it: a list filled    *)
(* with an old address, a switch of the ephemeral collector beside         *)
(* threads that cons, and two threads at the word of the index.            *)
Restricted ==
    /\ Elements = {} /\ Switchers = {}
    /\ \A t \in Unlocked : \A u \in Storers : u = t

(* A thread alone takes its step in the barrier: what others have in hand  *)
(* stays there.                                                            *)
LEMMA HandsMove ==
  ASSUME NEW t \in Threads, MoreBits(mem, mem'),
         \A u \in Threads \ {t} : /\ pc'[u] = pc[u]
                                 /\ Obj(mem', u) = Obj(mem, u) /\ Val(mem', u) = Val(mem, u)
  PROVE  /\ \A d \in OldHands(mem) :
              \/ d \in OldHands(mem)'
              \/ /\ d = Obj(mem, t) /\ Val(mem, t) > d
                 /\ pc[t] = "stored" \/ (pc[t] = "refidx" /\ d \in mem.refbits)
         /\ \A d \in StaticHands(mem) :
              \/ d \in StaticHands(mem)'
              \/ /\ d = Obj(mem, t) /\ Val(mem, t) > d
                 /\ \/ pc[t] \in {"stored", "refidx", "static"}
                    \/ pc[t] \in {"sidx", "btsq"} /\ d \in mem.sbits
  BY DEF OldHands, StaticHands, MoreBits

(* A step outside the barrier leaves everything in the threads' hands.     *)
LEMMA HandsStay ==
  ASSUME MoreBits(mem, mem'),
         \A u \in Threads : pc[u] \in InHand =>
            /\ pc'[u] = pc[u]
            /\ Obj(mem', u) = Obj(mem, u) /\ Val(mem', u) = Val(mem, u)
  PROVE  OldHands(mem) \subseteq OldHands(mem)' /\ StaticHands(mem) \subseteq StaticHands(mem)'
  BY DEF OldHands, StaticHands, MoreBits, InHand

(* Segments stay above a boundary that does not move up.                   *)
LEMMA SameSegments ==
  ASSUME SegmentInv, UNCHANGED seg, mem.low \in Int, mem.active \in Int,
         mem'.low \in Int, mem'.active \in Int,
         mem'.low <= mem.low, mem.active <= mem'.active
  PROVE  SegmentInv'
  BY ConstantTypes DEF SegmentInv, Dnodes

----------------------------------------------------------------------------
(* Steps that move no boundary.                                            *)

(* A thread that does not cross a boundary, or has what it has stored in   *)
(* hand, and drops from its hands only what is memoized.                   *)
LEMMA MemoryStep ==
  ASSUME IInv, NEW t \in Threads, \A u \in Threads \ {t} : pc'[u] = pc[u],
         mem' \in Memory, SameAreas(mem, mem'), MoreBits(mem, mem'),
         mem.active <= mem'.active, mem'.active <= High,
         \A s \in Slots : mem'.slot[s] <= mem'.active,
         \A d \in Dnodes : mem'.heap[d] <= mem'.active,
         \A u \in Threads \ {t} : Obj(mem', u) = Obj(mem, u) /\ Val(mem', u) = Val(mem, u),
         \A d \in Dnodes : \/ mem'.heap[d] = mem.heap[d] \/ mem'.heap[d] <= d \/ d > mem.low
                         \/ (d \in OldHands(mem)' /\ d \in StaticHands(mem)'),
         NEW o, o = Obj(mem, t),
         o \in Dnodes /\ Val(mem, t) > o
            /\ (pc[t] = "stored" \/ (pc[t] = "refidx" /\ o \in mem.refbits))
           => \/ o \in OldHands(mem)' \/ o > mem.oldspace
              \/ (o \in mem'.refbits /\ Group(o) \in mem'.refidx),
         o \in Dnodes /\ Val(mem, t) > o
            /\ (pc[t] \in {"stored", "refidx", "static"}
                \/ (pc[t] \in {"sidx", "btsq"} /\ o \in mem.sbits))
           => \/ o \in StaticHands(mem)' \/ o > Statics
              \/ (o \in mem'.sbits /\ Group(o) \in mem'.sidx)
  PROVE  MemoryInv'
<1>1. Good(mem, OldHands(mem), StaticHands(mem))
  BY DEF IInv, MemoryInv
<1>2. \A d \in OldHands(mem) :
         \/ d \in OldHands(mem)' \/ d > mem.oldspace
         \/ (d \in mem'.refbits /\ Group(d) \in mem'.refidx)
  <2>1. \A d \in OldHands(mem) : d \in Dnodes
    BY DEF OldHands
  <2> QED
    BY <2>1, HandsMove
<1>3. \A d \in StaticHands(mem) :
         \/ d \in StaticHands(mem)' \/ d > Statics
         \/ (d \in mem'.sbits /\ Group(d) \in mem'.sidx)
  <2>1. \A d \in StaticHands(mem) : d \in Dnodes
    BY DEF StaticHands
  <2> QED
    BY <2>1, HandsMove
<1>4. Good(mem', OldHands(mem)', StaticHands(mem)')
  BY <1>1, <1>2, <1>3, Stays
<1> QED
  BY <1>4 DEF MemoryInv

(* A barrier's step changes neither segments nor what they lie above.      *)
LEMMA BarrierStep ==
  ASSUME IInv, MemoryInv', IndexInv', NEW t \in Threads, NEW l \in Points,
         pc' = [pc EXCEPT ![t] = l], word' \in [Threads -> SUBSET Int],
         UNCHANGED <<initial, seg>>, SameAreas(mem, mem'), mem'.active = mem.active
  PROVE  IInv'
<1>1. Types'
  BY DEF IInv, Types
<1>2. mem \in Memory /\ mem' \in Memory
  BY DEF IInv, MemoryInv, Good
<1>3. SegmentInv'
  <2>1. mem.low \in Int /\ mem.active \in Int /\ mem'.low = mem.low
    BY <1>2 DEF Memory, SameAreas
  <2> QED
    BY <2>1, SameSegments DEF IInv
<1>4. ElementInv'
  BY DEF IInv, ElementInv
<1> QED
  BY <1>1, <1>3, <1>4 DEF IInv

(* A thread enters _SPrplaca and its like: the object and the value are in *)
(* its registers.                                                          *)
LEMMA StepCallBarrier ==
  ASSUME IInv, NEW t \in Threads, CallBarrier(t)
  PROVE  IInv'
<1> USE DEF IInv, MemoryInv
<1>1. PICK o \in Objects(mem), v \in Values(mem) : mem' = SetReg(mem, t, o, v)
  BY DEF CallBarrier
<1>2. PICK entry \in {"store", "retry"} : pc' = [pc EXCEPT ![t] = entry]
  BY DEF CallBarrier, Goto
<1>3. t \in Storers /\ pc[t] = "idle" /\ UNCHANGED <<word, initial, seg>>
  BY DEF CallBarrier
<1>4. /\ mem \in Memory /\ mem.active \in Int
      /\ o \in Int /\ o <= mem.active /\ v \in Int /\ v <= mem.active
  BY ReachableBound DEF Good
<1>5. /\ mem' \in Memory /\ mem'.heap = mem.heap /\ mem'.active = mem.active
      /\ SameAreas(mem, mem') /\ MoreBits(mem, mem') /\ mem'.sidx = mem.sidx
      /\ \A s \in Slots : mem'.slot[s] \in {mem.slot[s], o, v}
      /\ \A u \in Threads \ {t} : Obj(mem', u) = Obj(mem, u) /\ Val(mem', u) = Val(mem, u)
  <2> DEFINE n == SetReg(mem, t, o, v)
  <2>1. /\ n \in Memory /\ n.heap = mem.heap /\ n.active = mem.active
        /\ SameAreas(mem, n)
        /\ n.refbits = mem.refbits /\ n.refidx = mem.refidx
        /\ n.sbits = mem.sbits /\ n.sidx = mem.sidx
        /\ \A s \in Slots : n.slot[s] \in {mem.slot[s], o, v}
        /\ \A u \in Threads \ {t} : Obj(n, u) = Obj(mem, u) /\ Val(n, u) = Val(mem, u)
    BY <1>4, Registers1
  <2> QED
    BY <1>1, <2>1 DEF MoreBits
<1>6. entry \in Points /\ \A u \in Threads \ {t} : pc'[u] = pc[u]
  BY <1>2 DEF Types, Points
<1>7. /\ \A s \in Slots : mem'.slot[s] <= mem'.active
      /\ \A d \in Dnodes : mem'.heap[d] <= mem'.active
      /\ mem'.active <= High
  BY <1>4, <1>5 DEF Good, Bounded, Ordered
<1>8. MemoryInv'
  BY <1>3, <1>4, <1>5, <1>6, <1>7, MemoryStep
<1>9. IndexInv'
  BY <1>2, <1>3, <1>5, <1>6 DEF IndexInv, Types, InHand
<1> QED
  BY <1>2, <1>3, <1>5, <1>6, <1>8, <1>9, BarrierStep DEF Types

(* What a thread that returns changes.                                     *)
LEMMA ForgetFields ==
  ASSUME NEW m, m \in Memory, NEW t \in Threads, NEW n, n = Forget(m, t)
  PROVE  /\ n \in Memory /\ n.heap = m.heap /\ n.active = m.active
         /\ SameAreas(m, n)
         /\ n.refbits = m.refbits /\ n.refidx = m.refidx /\ n.sbits = m.sbits /\ n.sidx = m.sidx
         /\ \A s \in Slots : n.slot[s] \in {m.slot[s], 0}
         /\ \A u \in Threads \ {t} : Obj(n, u) = Obj(m, u) /\ Val(n, u) = Val(m, u)
<1>1. n = SetReg(m, t, 0, 0)
  BY DEF Forget, SetReg
<1>2. 0 \in Int
  OBVIOUS
<1> QED
  BY <1>1, <1>2, Registers1

(* A step that sets bits, and may return.                                  *)
LEMMA BitStep ==
  ASSUME IInv, IndexInv', NEW t \in Threads, NEW l \in Points, pc' = [pc EXCEPT ![t] = l],
         word' \in [Threads -> SUBSET Int], UNCHANGED <<initial, seg>>,
         NEW n, n \in Memory, n.heap = mem.heap, n.slot = mem.slot, n.active = mem.active,
         SameAreas(mem, n), MoreBits(mem, n), mem' = n \/ mem' = Forget(n, t),
         NEW o, o = Obj(mem, t),
         o \in Dnodes /\ (pc[t] = "stored" \/ (pc[t] = "refidx" /\ o \in mem.refbits))
           => \/ mem' = n /\ (l = "stored" \/ (l = "refidx" /\ o \in n.refbits))
              \/ o > mem.oldspace
              \/ o \in n.refbits /\ Group(o) \in n.refidx,
         o \in Dnodes /\ (pc[t] \in {"stored", "refidx", "static"}
                          \/ (pc[t] \in {"sidx", "btsq"} /\ o \in mem.sbits))
           => \/ mem' = n /\ (l \in {"stored", "refidx", "static"}
                             \/ (l \in {"sidx", "btsq"} /\ o \in n.sbits))
              \/ o > Statics
              \/ o \in n.sbits /\ Group(o) \in n.sidx
  PROVE  IInv'
<1>1. mem \in Memory /\ Ordered(mem) /\ Bounded(mem) /\ pc \in [Threads -> Points]
  BY DEF IInv, MemoryInv, Good, Types
<1>2. \A u \in Threads : Obj(n, u) = Obj(mem, u) /\ Val(n, u) = Val(mem, u)
  BY DEF Obj, Val
<1>3. /\ mem' \in Memory /\ mem'.heap = mem.heap /\ mem'.active = mem.active
      /\ SameAreas(mem, mem') /\ MoreBits(mem, mem')
      /\ mem'.refbits = n.refbits /\ mem'.refidx = n.refidx
      /\ mem'.sbits = n.sbits /\ mem'.sidx = n.sidx
      /\ \A s \in Slots : mem'.slot[s] \in {mem.slot[s], 0}
      /\ \A u \in Threads \ {t} : Obj(mem', u) = Obj(mem, u) /\ Val(mem', u) = Val(mem, u)
      /\ mem' = n => Obj(mem', t) = o /\ Val(mem', t) = Val(mem, t)
  <2>1. CASE mem' = n
    BY <1>2, <2>1
  <2>2. CASE mem' = Forget(n, t)
    <3> DEFINE f == Forget(n, t)
    <3>1. /\ f \in Memory /\ f.heap = n.heap /\ f.active = n.active
          /\ SameAreas(n, f)
          /\ f.refbits = n.refbits /\ f.refidx = n.refidx
          /\ f.sbits = n.sbits /\ f.sidx = n.sidx
          /\ \A s \in Slots : f.slot[s] \in {n.slot[s], 0}
          /\ \A u \in Threads \ {t} : Obj(f, u) = Obj(n, u) /\ Val(f, u) = Val(n, u)
      BY ForgetFields
    <3> HIDE DEF f
    <3>2. mem' = f
      BY <2>2 DEF f
    <3> QED
      BY <1>2, <3>1, <3>2 DEF SameAreas, MoreBits
  <2> QED
    BY <2>1, <2>2
<1>4. pc'[t] = l /\ \A u \in Threads \ {t} : pc'[u] = pc[u]
  BY <1>1
<1>5. mem' = n /\ o \in Dnodes /\ Val(mem, t) > o =>
        /\ l = "stored" \/ (l = "refidx" /\ o \in n.refbits) => o \in OldHands(mem)'
        /\ \/ l \in {"stored", "refidx", "static"}
           \/ l \in {"sidx", "btsq"} /\ o \in n.sbits
           => o \in StaticHands(mem)'
  BY <1>3, <1>4 DEF OldHands, StaticHands
<1>6. /\ mem.active <= mem'.active /\ mem'.active <= High
      /\ \A s \in Slots : mem'.slot[s] <= mem'.active
      /\ \A d \in Dnodes : mem'.heap[d] <= mem'.active
  BY <1>1, <1>3, ReachableBound DEF Ordered, Bounded, Memory
<1>7. MemoryInv'
  BY <1>3, <1>4, <1>5, <1>6, MemoryStep
<1> QED
  BY <1>3, <1>7, BarrierStep

(* A step that leaves the index of the static references alone, and does   *)
(* not start to read it without lock, disturbs no thread that has read it. *)
LEMMA IndexStep ==
  ASSUME IInv, NEW t \in Threads, NEW l \in Points \ {"btsq"}, pc' = [pc EXCEPT ![t] = l],
         pc[t] \in {"store", "retry"} \cup InHand \/ l \notin {"store", "retry"} \cup InHand,
         UNCHANGED word, mem'.sidx = mem.sidx
  PROVE  IndexInv'
<1>1. pc \in [Threads -> Points] /\ IndexInv
  BY DEF IInv, Types
<1>2. pc'[t] = l /\ \A u \in Threads \ {t} : pc'[u] = pc[u]
  BY <1>1
<1>3. ASSUME NEW u \in Threads
      PROVE  /\ pc'[u] \in {"store", "retry"} \cup InHand => u \in Storers
             /\ pc'[u] = "btsq" => u \in Unlocked /\ word[u] = mem.sidx
  <2>1. CASE u = t
    BY <1>1, <1>2, <2>1 DEF IndexInv
  <2>2. CASE u # t
    BY <1>1, <1>2, <2>2 DEF IndexInv
  <2> QED
    BY <2>1, <2>2
<1> QED
  BY <1>3 DEF IndexInv

(* What a store into a dnode changes.                                      *)
LEMMA StoreFields ==
  ASSUME NEW m \in Memory, NEW o \in Int, NEW v \in Int, NEW n, n = [m EXCEPT !.heap[o] = v]
  PROVE  /\ n \in Memory /\ n.slot = m.slot /\ n.active = m.active /\ SameAreas(m, n)
         /\ n.refbits = m.refbits /\ n.refidx = m.refidx /\ n.sbits = m.sbits /\ n.sidx = m.sidx
         /\ \A d \in Dnodes : n.heap[d] = IF d = o THEN v ELSE m.heap[d]
<1> DEFINE heap == [m.heap EXCEPT ![o] = v]
<1>1. heap \in [Dnodes -> Int] /\ \A d \in Dnodes : heap[d] = IF d = o THEN v ELSE m.heap[d]
  BY DEF Memory
<1>2. n = [m EXCEPT !.heap = heap]
  BY DEF Memory
<1> HIDE DEF heap
<1> QED
  BY <1>1, <1>2 DEF Memory, SameAreas

(* The store itself: what it stores is older than the object, or stays in  *)
(* the hands of the thread.                                                *)
LEMMA StoringStep ==
  ASSUME IInv, NEW t \in Threads, pc[t] \in {"store", "retry"},
         NEW l \in {"stored", "idle"}, pc' = [pc EXCEPT ![t] = l],
         UNCHANGED <<word, initial, seg>>,
         NEW n, n = [mem EXCEPT !.heap[Obj(mem, t)] = Val(mem, t)] \/ n = mem,
         \/ l = "stored" /\ mem' = n
         \/ /\ l = "idle" /\ mem' = Forget(n, t)
            /\ n = mem \/ ~(Val(mem, t) > Obj(mem, t))
  PROVE  IInv'
<1> DEFINE o == Obj(mem, t)
           v == Val(mem, t)
<1>1. /\ mem \in Memory /\ Ordered(mem) /\ Bounded(mem) /\ pc \in [Threads -> Points]
      /\ word \in [Threads -> SUBSET Int]
  BY DEF IInv, MemoryInv, Good, Types
<1>2. o \in Int /\ v \in Int /\ v <= mem.active
  BY <1>1, Registered DEF Bounded, Val, Slots, Registers
<1>3. /\ n \in Memory /\ n.slot = mem.slot /\ n.active = mem.active /\ SameAreas(mem, n)
      /\ n.refbits = mem.refbits /\ n.refidx = mem.refidx
      /\ n.sbits = mem.sbits /\ n.sidx = mem.sidx
      /\ \A d \in Dnodes : n.heap[d] = mem.heap[d] \/ (d = o /\ n.heap[d] = v /\ n # mem)
  <2>1. CASE n = mem
    BY <1>1, <2>1 DEF SameAreas
  <2>2. CASE n = [mem EXCEPT !.heap[o] = v] /\ n # mem
    BY <1>1, <1>2, <2>2, StoreFields
  <2> QED
    BY <2>1, <2>2
<1>4. \A u \in Threads : Obj(n, u) = Obj(mem, u) /\ Val(n, u) = Val(mem, u)
  BY <1>3 DEF Obj, Val
<1>5. /\ mem' \in Memory /\ mem'.heap = n.heap /\ mem'.active = mem.active
      /\ SameAreas(mem, mem') /\ MoreBits(mem, mem') /\ mem'.sidx = mem.sidx
      /\ \A s \in Slots : mem'.slot[s] \in {mem.slot[s], 0}
      /\ \A u \in Threads \ {t} : Obj(mem', u) = Obj(mem, u) /\ Val(mem', u) = Val(mem, u)
      /\ mem' = n => Obj(mem', t) = o /\ Val(mem', t) = v
  <2>1. CASE mem' = n
    BY <1>3, <1>4, <2>1 DEF MoreBits
  <2>2. CASE mem' = Forget(n, t)
    <3> DEFINE f == Forget(n, t)
    <3>1. /\ f \in Memory /\ f.heap = n.heap /\ f.active = n.active /\ SameAreas(n, f)
          /\ f.refbits = n.refbits /\ f.refidx = n.refidx
          /\ f.sbits = n.sbits /\ f.sidx = n.sidx
          /\ \A s \in Slots : f.slot[s] \in {n.slot[s], 0}
          /\ \A u \in Threads \ {t} : Obj(f, u) = Obj(n, u) /\ Val(f, u) = Val(n, u)
      BY <1>3, ForgetFields
    <3> HIDE DEF f
    <3>2. mem' = f
      BY <2>2 DEF f
    <3> QED
      BY <1>3, <1>4, <3>1, <3>2 DEF SameAreas, MoreBits, Obj, Val
  <2> QED
    BY <2>1, <2>2
<1>6. pc'[t] = l /\ \A u \in Threads \ {t} : pc'[u] = pc[u]
  BY <1>1
<1>7. /\ mem'.active <= High /\ mem.active <= mem'.active
      /\ \A s \in Slots : mem'.slot[s] <= mem'.active
      /\ \A d \in Dnodes : mem'.heap[d] <= mem'.active
  BY <1>1, <1>2, <1>3, <1>5, ReachableBound DEF Ordered, Bounded, Memory
<1>8. ASSUME NEW d \in Dnodes
      PROVE  \/ mem'.heap[d] = mem.heap[d] \/ mem'.heap[d] <= d \/ d > mem.low
             \/ (d \in OldHands(mem)' /\ d \in StaticHands(mem)')
  <2>1. CASE l = "idle"
    <3>1. d \in Int
      BY ConstantTypes DEF Dnodes
    <3> QED
      BY <1>2, <1>3, <1>5, <2>1, <3>1
  <2>2. CASE l = "stored"
    <3>1. n.heap[d] = mem.heap[d] \/ (d = o /\ n.heap[d] = v)
      BY <1>3
    <3>2. d \in Int
      BY ConstantTypes DEF Dnodes
    <3>3. d = o /\ v > o => d \in OldHands(mem)' /\ d \in StaticHands(mem)'
      BY <1>5, <1>6, <2>2 DEF OldHands, StaticHands
    <3> QED
      BY <1>2, <1>5, <3>1, <3>2, <3>3
  <2> QED
    BY <2>1, <2>2
<1>9. MemoryInv'
  BY <1>5, <1>6, <1>7, <1>8, MemoryStep
<1>10. IndexInv' /\ l \in Points
  BY <1>5, IndexStep DEF Points, InHand
<1> QED
  BY <1>1, <1>5, <1>9, <1>10, BarrierStep

(* _SPrplaca, the store: the thread goes on when the value lies above the  *)
(* object.                                                                 *)
LEMMA StepStore == ASSUME IInv, NEW t \in Threads, Store(t) PROVE IInv'
<1> DEFINE n == [mem EXCEPT !.heap[Obj(mem, t)] = Val(mem, t)]
<1>1. pc[t] = "store" /\ UNCHANGED <<word, initial, seg>>
  BY DEF Store
<1>2. \/ pc' = [pc EXCEPT ![t] = "stored"] /\ mem' = n
      \/ /\ pc' = [pc EXCEPT ![t] = "idle"] /\ mem' = Forget(n, t)
         /\ ~(Val(mem, t) > Obj(mem, t))
  BY DEF Store, Goto, Return
<1> QED
  BY <1>1, <1>2, StoringStep

(* _SPstore_node_conditional, the compare and exchange.                    *)
LEMMA StepStoreConditional ==
  ASSUME IInv, NEW t \in Threads, StoreConditional(t)
  PROVE  IInv'
<1> DEFINE n == [mem EXCEPT !.heap[Obj(mem, t)] = Val(mem, t)]
<1>1. pc[t] = "retry" /\ UNCHANGED <<word, initial, seg>>
  BY DEF StoreConditional
<1>2. \/ pc' = [pc EXCEPT ![t] = "stored"] /\ mem' = n
      \/ pc' = [pc EXCEPT ![t] = "idle"] /\ mem' = Forget(mem, t)
  BY DEF StoreConditional, Goto, Return
<1> QED
  BY <1>1, <1>2, StoringStep

(* The bit of the reference map: an object that lies past the older areas  *)
(* needs none.                                                             *)
LEMMA StepSetRefbit == ASSUME IInv, NEW t \in Threads, SetRefbit(t) PROVE IInv'
<1> DEFINE o == Obj(mem, t)
           n == [mem EXCEPT !.refbits = @ \cup {o}]
<1>1. /\ mem \in Memory /\ word \in [Threads -> SUBSET Int] /\ o \in Int
      /\ mem.oldspace \in Int /\ Statics \in Int
  BY Registered, ConstantTypes DEF IInv, MemoryInv, Good, Types, Memory
<1>2. /\ pc[t] = "stored" /\ UNCHANGED <<word, initial, seg>>
      /\ \/ o <= mem.oldspace /\ mem' = n /\ pc' = [pc EXCEPT ![t] = "refidx"]
         \/ /\ o > mem.oldspace /\ o <= Statics /\ mem' = mem
            /\ pc' = [pc EXCEPT ![t] = "static"]
         \/ /\ o > mem.oldspace /\ o > Statics /\ mem' = Forget(mem, t)
            /\ pc' = [pc EXCEPT ![t] = "idle"]
  BY <1>1 DEF SetRefbit, AfterGlobalMap, Goto, Return
<1>3. /\ n \in Memory /\ n.heap = mem.heap /\ n.slot = mem.slot /\ n.active = mem.active
      /\ SameAreas(mem, n) /\ MoreBits(mem, n) /\ n.sidx = mem.sidx /\ o \in n.refbits
  BY <1>1 DEF Memory, SameAreas, MoreBits
<1>4. SameAreas(mem, mem) /\ MoreBits(mem, mem)
  BY DEF SameAreas, MoreBits
<1> HIDE DEF n
<1>5. mem'.sidx = mem.sidx
  BY <1>1, <1>2, <1>3, ForgetFields
<1>6. IndexInv'
  BY <1>2, <1>5, IndexStep DEF Points, InHand
<1>7. CASE mem' = n /\ pc' = [pc EXCEPT ![t] = "refidx"]
  BY <1>1, <1>2, <1>3, <1>6, <1>7, BitStep DEF Points, InHand
<1>8. CASE o > mem.oldspace /\ o <= Statics /\ mem' = mem /\ pc' = [pc EXCEPT ![t] = "static"]
  BY <1>1, <1>2, <1>4, <1>6, <1>8, BitStep DEF Points, InHand
<1>9. CASE /\ o > mem.oldspace /\ o > Statics /\ mem' = Forget(mem, t)
           /\ pc' = [pc EXCEPT ![t] = "idle"]
  BY <1>1, <1>2, <1>4, <1>6, <1>9, BitStep DEF Points
<1> QED
  BY <1>2, <1>7, <1>8, <1>9

(* The bit of the index: now the reference is memoized.                    *)
LEMMA StepSetRefidx == ASSUME IInv, NEW t \in Threads, SetRefidx(t) PROVE IInv'
<1> DEFINE o == Obj(mem, t)
           n == [mem EXCEPT !.refidx = @ \cup {Group(o)}]
<1>1. /\ mem \in Memory /\ word \in [Threads -> SUBSET Int] /\ o \in Int
      /\ Statics \in Int /\ Group(o) \in Int
  BY Registered, GroupType, ConstantTypes DEF IInv, MemoryInv, Good, Types
<1>3. /\ n \in Memory /\ n.heap = mem.heap /\ n.slot = mem.slot /\ n.active = mem.active
      /\ SameAreas(mem, n) /\ MoreBits(mem, n) /\ n.sidx = mem.sidx
      /\ n.refbits = mem.refbits /\ Group(o) \in n.refidx
  BY <1>1 DEF Memory, SameAreas, MoreBits
<1>2. /\ pc[t] = "refidx" /\ UNCHANGED <<word, initial, seg>>
      /\ \/ o <= Statics /\ mem' = n /\ pc' = [pc EXCEPT ![t] = "static"]
         \/ o > Statics /\ mem' = Forget(n, t) /\ pc' = [pc EXCEPT ![t] = "idle"]
  <2>1. Obj(n, t) = o
    BY <1>3 DEF Obj
  <2> HIDE DEF o
  <2>2. AfterGlobalMap(t, n) /\ pc[t] = "refidx" /\ UNCHANGED <<word, initial, seg>>
    BY DEF SetRefidx, o
  <2> HIDE DEF n
  <2> QED
    BY <1>1, <2>1, <2>2 DEF AfterGlobalMap, Goto, Return
<1> HIDE DEF n
<1>5. mem'.sidx = mem.sidx
  BY <1>1, <1>2, <1>3, ForgetFields
<1>6. IndexInv'
  BY <1>2, <1>5, IndexStep DEF Points, InHand
<1>7. CASE mem' = n /\ pc' = [pc EXCEPT ![t] = "static"]
  <2>1. o \in mem.refbits => o \in n.refbits /\ Group(o) \in n.refidx
    BY <1>3
  <2>2. "static" \in Points /\ word' \in [Threads -> SUBSET Int] /\ UNCHANGED <<initial, seg>>
    BY <1>1, <1>2 DEF Points, InHand
  <2> HIDE DEF o
  <2> QED
    BY <1>2, <1>3, <1>6, <1>7, <2>1, <2>2, BitStep DEF o
<1>8. CASE o > Statics /\ mem' = Forget(n, t) /\ pc' = [pc EXCEPT ![t] = "idle"]
  <2>1. o \in mem.refbits => o \in n.refbits /\ Group(o) \in n.refidx
    BY <1>3
  <2>2. "idle" \in Points /\ word' \in [Threads -> SUBSET Int] /\ UNCHANGED <<initial, seg>>
    BY <1>1, <1>2 DEF Points
  <2> HIDE DEF o
  <2> QED
    BY <1>2, <1>3, <1>6, <1>8, <2>1, <2>2, BitStep DEF o
<1> QED
  BY <1>2, <1>7, <1>8

(* The bit of the managed static area's map.                               *)
LEMMA StepSetStaticRefbit == ASSUME IInv, NEW t \in Threads, SetStaticRefbit(t) PROVE IInv'
<1> DEFINE o == Obj(mem, t)
           n == [mem EXCEPT !.sbits = @ \cup {o}]
<1>1. /\ mem \in Memory /\ word \in [Threads -> SUBSET Int] /\ o \in Int
  BY Registered DEF IInv, MemoryInv, Good, Types
<1>2. /\ pc[t] = "static" /\ UNCHANGED <<word, initial, seg>>
      /\ mem' = n /\ pc' = [pc EXCEPT ![t] = "sidx"]
  BY DEF SetStaticRefbit, Goto
<1>3. /\ n \in Memory /\ n.heap = mem.heap /\ n.slot = mem.slot /\ n.active = mem.active
      /\ SameAreas(mem, n) /\ MoreBits(mem, n) /\ n.sidx = mem.sidx /\ o \in n.sbits
  BY <1>1 DEF Memory, SameAreas, MoreBits
<1> HIDE DEF n
<1>6. IndexInv'
  BY <1>2, <1>3, IndexStep DEF Points, InHand
<1> QED
  BY <1>1, <1>2, <1>3, <1>6, BitStep DEF Points, InHand

(* The bit of its index, set under lock: no thread is between the halves   *)
(* of an unlocked btsq, where this bit could be lost.                      *)
LEMMA StepSetStaticRefidx ==
  ASSUME Restricted, IInv, NEW t \in Threads, SetStaticRefidx(t)
  PROVE  IInv'
<1> DEFINE o == Obj(mem, t)
           n == [mem EXCEPT !.sidx = @ \cup {Group(o)}]
<1>1. /\ mem \in Memory /\ word \in [Threads -> SUBSET Int] /\ pc \in [Threads -> Points]
      /\ o \in Int /\ Group(o) \in Int
  BY Registered, GroupType DEF IInv, MemoryInv, Good, Types
<1>2. /\ pc[t] = "sidx" /\ UNCHANGED <<word, initial, seg>>
      /\ mem' = Forget(n, t) /\ pc' = [pc EXCEPT ![t] = "idle"]
  BY DEF SetStaticRefidx, Return, Goto
<1>3. /\ n \in Memory /\ n.heap = mem.heap /\ n.slot = mem.slot /\ n.active = mem.active
      /\ SameAreas(mem, n) /\ MoreBits(mem, n)
      /\ n.sbits = mem.sbits /\ Group(o) \in n.sidx
  BY <1>1 DEF Memory, SameAreas, MoreBits
<1> HIDE DEF n
<1>4. t \in Storers
  BY <1>2 DEF IInv, IndexInv, InHand
<1>5. \A u \in Threads : pc[u] # "btsq"
  BY <1>2, <1>4 DEF IInv, IndexInv, Restricted
<1>6. IndexInv'
  BY <1>1, <1>2, <1>5 DEF IInv, IndexInv, InHand
<1>7. /\ "idle" \in Points /\ word' \in [Threads -> SUBSET Int] /\ UNCHANGED <<initial, seg>>
      /\ o \in mem.sbits => o \in n.sbits /\ Group(o) \in n.sidx
  BY <1>1, <1>2, <1>3 DEF Points
<1>8. /\ n \in Memory /\ n.heap = mem.heap /\ n.slot = mem.slot /\ n.active = mem.active
      /\ SameAreas(mem, n) /\ MoreBits(mem, n)
  BY <1>3
<1> HIDE DEF o
<1> QED
  BY ZenonT(60), <1>2, <1>6, <1>7, <1>8, BitStep DEF o

(* The unlocked btsq reads the word of the index.                          *)
LEMMA StepReadStaticRefidx ==
  ASSUME IInv, NEW t \in Threads, ReadStaticRefidx(t)
  PROVE  IInv'
<1> DEFINE o == Obj(mem, t)
<1>1. /\ mem \in Memory /\ word \in [Threads -> SUBSET Int] /\ pc \in [Threads -> Points]
  BY DEF IInv, MemoryInv, Good, Types
<1>2. /\ pc[t] = "sidx" /\ t \in Unlocked /\ UNCHANGED <<initial, seg>>
      /\ mem' = mem /\ pc' = [pc EXCEPT ![t] = "btsq"]
      /\ word' = [word EXCEPT ![t] = mem.sidx]
  BY DEF ReadStaticRefidx, Goto
<1>3. SameAreas(mem, mem) /\ MoreBits(mem, mem) /\ mem.sidx \in SUBSET Int
  BY <1>1 DEF SameAreas, MoreBits, Memory
<1>4. word' \in [Threads -> SUBSET Int]
  BY <1>1, <1>2, <1>3
<1>5. /\ word'[t] = mem.sidx /\ pc'[t] = "btsq"
      /\ \A u \in Threads \ {t} : word'[u] = word[u] /\ pc'[u] = pc[u]
  BY <1>1, <1>2
<1>6. IndexInv'
  BY <1>2, <1>5, GenerationsAssumption DEF IInv, IndexInv, InHand
<1> QED
  BY <1>1, <1>2, <1>3, <1>4, <1>6, BitStep DEF Points, InHand

(* The unlocked btsq writes the word back, which nobody has changed.       *)
LEMMA StepWriteStaticRefidx ==
  ASSUME Restricted, IInv, NEW t \in Threads, WriteStaticRefidx(t)
  PROVE  IInv'
<1> DEFINE o == Obj(mem, t)
           n == [mem EXCEPT !.sidx = word[t] \cup {Group(o)}]
<1>1. /\ mem \in Memory /\ word \in [Threads -> SUBSET Int] /\ pc \in [Threads -> Points]
      /\ o \in Int /\ Group(o) \in Int
  BY Registered, GroupType DEF IInv, MemoryInv, Good, Types
<1>2. /\ pc[t] = "btsq" /\ UNCHANGED <<initial, seg>> /\ word' = [word EXCEPT ![t] = {}]
      /\ mem' = Forget(n, t) /\ pc' = [pc EXCEPT ![t] = "idle"]
  BY DEF WriteStaticRefidx, Return, Goto
<1>3. word[t] = mem.sidx /\ t \in Unlocked /\ t \in Storers
  BY <1>2, GenerationsAssumption DEF IInv, IndexInv
<1>4. /\ n \in Memory /\ n.heap = mem.heap /\ n.slot = mem.slot /\ n.active = mem.active
      /\ SameAreas(mem, n) /\ MoreBits(mem, n)
      /\ n.sbits = mem.sbits /\ Group(o) \in n.sidx
  BY <1>1, <1>3 DEF Memory, SameAreas, MoreBits
<1> HIDE DEF n
<1>5. \A u \in Threads \ {t} : pc[u] # "btsq"
  BY <1>3 DEF IInv, IndexInv, Restricted
<1>6. word' \in [Threads -> SUBSET Int]
  BY <1>1, <1>2
<1>7. IndexInv'
  <2>1. pc'[t] = "idle" /\ \A u \in Threads \ {t} : pc'[u] = pc[u]
    BY <1>1, <1>2
  <2> QED
    BY <1>5, <2>1 DEF IInv, IndexInv, InHand
<1>8. "idle" \in Points /\ (o \in mem.sbits => o \in n.sbits /\ Group(o) \in n.sidx)
  BY <1>4 DEF Points
<1>9. n \in Memory /\ n.heap = mem.heap /\ n.slot = mem.slot /\ n.active = mem.active
      /\ SameAreas(mem, n) /\ MoreBits(mem, n)
  BY <1>4
<1> HIDE DEF o
<1> QED
  BY ZenonT(60), <1>2, <1>6, <1>7, <1>8, <1>9, BitStep DEF o

----------------------------------------------------------------------------
(* Allocation and the rest of the program.                                *)

(* A step that moves no boundary and concerns no barrier: it only writes   *)
(* above the youngest boundary.                                            *)
LEMMA QuietStep ==
  ASSUME IInv, mem' \in Memory, SameAreas(mem, mem'), MoreBits(mem, mem'),
         mem.active <= mem'.active, mem'.active <= High,
         \A s \in Slots : mem'.slot[s] <= mem'.active,
         \A d \in Dnodes : mem'.heap[d] <= mem'.active,
         \A d \in Dnodes : mem'.heap[d] = mem.heap[d] \/ d > mem.low,
         \A u \in Threads : pc[u] \in InHand =>
            pc'[u] = pc[u] /\ Obj(mem', u) = Obj(mem, u) /\ Val(mem', u) = Val(mem, u)
  PROVE  MemoryInv'
<1>1. OldHands(mem) \subseteq OldHands(mem)' /\ StaticHands(mem) \subseteq StaticHands(mem)'
  BY HandsStay
<1>2. Good(mem, OldHands(mem), StaticHands(mem))
  BY DEF IInv, MemoryInv
<1>3. Good(mem', OldHands(mem)', StaticHands(mem)')
  BY <1>1, <1>2, Stays
<1> QED
  BY <1>3 DEF MemoryInv

(* Consing without a trap writes above the youngest boundary.              *)
LEMMA StepCons == ASSUME IInv, NEW t \in Threads, Cons(t) PROVE IInv'
<1>1. /\ mem \in Memory /\ Ordered(mem) /\ Bounded(mem) /\ pc \in [Threads -> Points]
      /\ word \in [Threads -> SUBSET Int] /\ seg \in [Threads -> SUBSET Int]
      /\ mem.low \in Int /\ mem.active \in Int /\ mem.active <= High /\ High \in Int
  BY ConstantTypes DEF IInv, MemoryInv, Good, Types, Memory, Ordered
<1>2. PICK a \in Dnodes, b \in Dnodes :
        seg[t] = a..b /\ a <= b /\ mem.low < a /\ b <= mem.active
  BY DEF Cons, IInv, SegmentInv
<1>3. a \in Int /\ b \in Int
  BY ConstantTypes DEF Dnodes
<1>4. Max(seg[t]) = b
  BY <1>2, <1>3, LastOfSegment
<1>5. PICK r \in Roots, v \in Values(mem) \cup {Raw} : mem' = ConsIn(mem, b, r, v)
  BY <1>4 DEF Cons
<1>6. v \in Int /\ v <= mem.active
  BY <1>1, ReachableBound DEF Raw
<1>7. /\ mem' \in Memory /\ mem'.active = mem.active /\ SameAreas(mem, mem')
      /\ MoreBits(mem, mem') /\ mem'.sidx = mem.sidx
      /\ \A e \in Dnodes : mem'.heap[e] = IF e = b THEN v ELSE mem.heap[e]
      /\ \A s \in Slots : mem'.slot[s] \in {mem.slot[s], b}
      /\ \A u \in Threads : Obj(mem', u) = Obj(mem, u) /\ Val(mem', u) = Val(mem, u)
  <2> DEFINE n == ConsIn(mem, b, r, v)
  <2>1. /\ n \in Memory /\ n.active = mem.active /\ SameAreas(mem, n)
        /\ n.refbits = mem.refbits /\ n.refidx = mem.refidx
        /\ n.sbits = mem.sbits /\ n.sidx = mem.sidx
        /\ \A e \in Dnodes : n.heap[e] = IF e = b THEN v ELSE mem.heap[e]
        /\ \A s \in Slots : n.slot[s] \in {mem.slot[s], b}
        /\ \A u \in Threads : Obj(n, u) = Obj(mem, u) /\ Val(n, u) = Val(mem, u)
    BY SMTT(60), <1>1, <1>6, ConsFields
  <2> QED
    BY <1>5, <2>1 DEF MoreBits
<1>8. UNCHANGED <<pc, word, initial>> /\ seg' = [seg EXCEPT ![t] = @ \ {b}]
  BY <1>4 DEF Cons
<1>9. MemoryInv'
  <2>1. \A d \in Dnodes : mem'.heap[d] = mem.heap[d] \/ d > mem.low
    BY <1>1, <1>2, <1>3, <1>7
  <2>2. \A s \in Slots : mem'.slot[s] <= mem'.active
    BY <1>2, <1>7, <1>1 DEF Bounded
  <2>3. \A d \in Dnodes : mem'.heap[d] <= mem'.active
    BY <1>6, <1>7, <1>1 DEF Bounded
  <2> QED
    BY <1>1, <1>7, <1>8, <2>1, <2>2, <2>3, QuietStep
<1>10. SegmentInv'
  <2>1. mem'.low = mem.low
    BY <1>7 DEF SameAreas
  <2>2. seg'[t] = {} \/ (seg'[t] = a..(b - 1) /\ a <= b - 1 /\ b - 1 \in Dnodes)
    <3>1. (a..b) \ {b} = a..(b - 1) /\ (a > b - 1 => a..(b - 1) = {})
      BY <1>3
    <3>2. seg'[t] = a..(b - 1)
      BY <1>1, <1>2, <1>8, <3>1
    <3>3. a <= b - 1 => b - 1 \in Dnodes
      BY <1>2, <1>3, ConstantTypes DEF Dnodes
    <3> QED
      BY <1>3, <3>1, <3>2, <3>3
  <2>3. \A u \in Threads \ {t} : seg'[u] = seg[u]
    BY <1>1, <1>8
  <2> QED
    BY <1>1, <1>2, <1>3, <1>7, <2>1, <2>2, <2>3 DEF IInv, SegmentInv
<1>11. Types'
  <2>1. seg' \in [Threads -> SUBSET Int]
    BY <1>1, <1>8
  <2> QED
    BY <1>8, <2>1 DEF IInv, Types
<1>12. IndexInv' /\ ElementInv'
  BY <1>7, <1>8 DEF IInv, IndexInv, ElementInv
<1> QED
  BY <1>9, <1>10, <1>11, <1>12 DEF IInv

(* A thread enters or leaves a trap with new contents of its registers.    *)
LEMMA TrapStep ==
  ASSUME IInv, NEW t \in Threads, NEW l \in Points \ ({"store", "retry"} \cup InHand),
         pc[t] \notin InHand, pc' = [pc EXCEPT ![t] = l],
         NEW v \in Int, v <= mem.active, mem' = SetReg(mem, t, 0, v) \/ mem' = mem,
         NEW e \in {NoElement, 0},
         initial' = [initial EXCEPT ![t] = e] \/ UNCHANGED initial,
         UNCHANGED <<word, seg>>
  PROVE  IInv'
<1>1. /\ mem \in Memory /\ Ordered(mem) /\ Bounded(mem) /\ pc \in [Threads -> Points]
      /\ initial \in [Threads -> Int]
      /\ mem.active \in Int /\ 0 <= mem.active /\ mem.active <= High
  BY ReachableBound DEF IInv, MemoryInv, Good, Types, Ordered
<1>2. /\ mem' \in Memory /\ mem'.heap = mem.heap /\ mem'.active = mem.active
      /\ SameAreas(mem, mem') /\ MoreBits(mem, mem') /\ mem'.sidx = mem.sidx
      /\ \A s \in Slots : mem'.slot[s] \in {mem.slot[s], 0, v}
      /\ \A u \in Threads \ {t} : Obj(mem', u) = Obj(mem, u) /\ Val(mem', u) = Val(mem, u)
  <2> DEFINE n == SetReg(mem, t, 0, v)
  <2>1. /\ n \in Memory /\ n.heap = mem.heap /\ n.active = mem.active /\ SameAreas(mem, n)
        /\ n.refbits = mem.refbits /\ n.refidx = mem.refidx
        /\ n.sbits = mem.sbits /\ n.sidx = mem.sidx
        /\ \A s \in Slots : n.slot[s] \in {mem.slot[s], 0, v}
        /\ \A u \in Threads \ {t} : Obj(n, u) = Obj(mem, u) /\ Val(n, u) = Val(mem, u)
    BY <1>1, Registers1
  <2> HIDE DEF n
  <2>2. mem' = n \/ mem' = mem
    BY DEF n
  <2> QED
    BY <1>1, <2>1, <2>2 DEF SameAreas, MoreBits
<1>3. \A u \in Threads \ {t} : pc'[u] = pc[u]
  BY <1>1
<1>4. MemoryInv'
  <2>1. \A s \in Slots : mem'.slot[s] <= mem'.active
    BY <1>1, <1>2 DEF Bounded
  <2>2. \A d \in Dnodes : mem'.heap[d] <= mem'.active
    BY <1>1, <1>2 DEF Bounded
  <2> QED
    BY <1>1, <1>2, <1>3, <2>1, <2>2, QuietStep
<1>5. SegmentInv'
  <2>1. mem'.low = mem.low /\ mem.low \in Int
    BY <1>1, <1>2 DEF SameAreas, Memory
  <2> QED
    BY <1>1, <1>2, <2>1, SameSegments DEF IInv
<1>6. Types'
  <2>1. e \in Int
    BY DEF NoElement
  <2>2. initial' \in [Threads -> Int] /\ pc' \in [Threads -> Points]
    BY <1>1, <2>1
  <2> QED
    BY <2>2 DEF IInv, Types
<1>7. IndexInv'
  BY <1>2, IndexStep DEF InHand
<1>8. ElementInv'
  BY <1>1 DEF IInv, ElementInv
<1> QED
  BY <1>4, <1>5, <1>6, <1>7, <1>8 DEF IInv

(* handle_alloc_trap: the contents of the new cons are in a register.      *)
LEMMA StepAllocTrap == ASSUME IInv, NEW t \in Threads, AllocTrap(t) PROVE IInv'
<1>1. PICK v \in Values(mem) \cup {Raw} : mem' = SetReg(mem, t, 0, v)
  BY DEF AllocTrap
<1>2. v \in Int /\ v <= mem.active
  BY ReachableBound DEF IInv, MemoryInv, Good, Raw
<1> QED
  BY <1>1, <1>2, TrapStep DEF AllocTrap, Goto, Points, InHand

(* allocate_list, whose element the collector does not see, with elements  *)
(* that the collector need not see.                                        *)
LEMMA StepAllocateListTrap ==
  ASSUME Restricted, IInv, NEW t \in Threads, AllocateListTrap(t)
  PROVE  IInv'
<1>1. mem' = SetReg(mem, t, 0, 0) /\ initial' = [initial EXCEPT ![t] = 0]
  BY DEF AllocateListTrap, Restricted
<1>2. 0 \in Int /\ 0 <= mem.active
  BY ReachableBound DEF IInv, MemoryInv, Good
<1> QED
  BY <1>1, <1>2, TrapStep DEF AllocateListTrap, Goto, Points, InHand

(* handle_gc_trap with GC_TRAP_FUNCTION_IMMEDIATE_GC.                      *)
LEMMA StepImmediateGcTrap == ASSUME IInv, NEW t \in Threads, ImmediateGcTrap(t) PROVE IInv'
<1>1. 0 \in Int /\ 0 <= mem.active
  BY ReachableBound DEF IInv, MemoryInv, Good
<1> QED
  BY <1>1, TrapStep DEF ImmediateGcTrap, Goto, Points, InHand

(* lisp_allocation_failure: the trap returns without a cons.               *)
LEMMA StepAllocationFailure == ASSUME IInv, NEW t \in Threads, AllocationFailure(t) PROVE IInv'
<1>1. 0 \in Int /\ 0 <= mem.active
  BY ReachableBound DEF IInv, MemoryInv, Good
<1>2. mem' = SetReg(mem, t, 0, 0)
  BY DEF AllocationFailure, Return, Forget, SetReg
<1> QED
  BY <1>1, <1>2, TrapStep DEF AllocationFailure, Return, Goto, Points, InHand

(* The program drops a reference.                                          *)
LEMMA StepDrop == ASSUME IInv, NEW r \in Roots, Drop(r) PROVE IInv'
<1> DEFINE slots == [mem.slot EXCEPT ![r] = 0]
<1>1. /\ mem \in Memory /\ Ordered(mem) /\ Bounded(mem) /\ mem.active \in Int
      /\ 0 <= mem.active /\ mem.active <= High /\ mem.low \in Int
  BY ReachableBound DEF IInv, MemoryInv, Good, Ordered, Memory
<1>2. slots \in [Slots -> Int] /\ \A s \in Slots : slots[s] \in {mem.slot[s], 0}
  <2>1. mem.slot \in [Slots -> Int] /\ 0 \in Int
    BY <1>1 DEF Memory
  <2> QED
    BY <2>1
<1>3. \A u \in Threads : /\ slots[<<u, "obj">>] = mem.slot[<<u, "obj">>]
                         /\ slots[<<u, "val">>] = mem.slot[<<u, "val">>]
  <2> TAKE u \in Threads
  <2>1. /\ <<u, "obj">> \in Slots /\ <<u, "val">> \in Slots
        /\ <<u, "obj">> # r /\ <<u, "val">> # r
    BY GenerationsAssumption DEF Slots, Registers
  <2> QED
    BY <1>1, <2>1 DEF Memory
<1>4. mem' = [mem EXCEPT !.slot = slots] /\ UNCHANGED <<pc, word, initial, seg>>
  BY <1>1 DEF Drop, Memory
<1> HIDE DEF slots
<1>5. /\ mem' \in Memory /\ mem'.heap = mem.heap /\ mem'.active = mem.active
      /\ SameAreas(mem, mem') /\ MoreBits(mem, mem') /\ mem'.sidx = mem.sidx
      /\ mem'.slot = slots
      /\ \A u \in Threads : Obj(mem', u) = Obj(mem, u) /\ Val(mem', u) = Val(mem, u)
  BY <1>1, <1>2, <1>3, <1>4 DEF Memory, SameAreas, MoreBits, Obj, Val
<1>6. MemoryInv'
  <2>1. \A s \in Slots : mem'.slot[s] <= mem'.active
    BY <1>1, <1>2, <1>5 DEF Bounded
  <2>2. \A d \in Dnodes : mem'.heap[d] <= mem'.active
    BY <1>1, <1>5 DEF Bounded
  <2> QED
    BY <1>1, <1>4, <1>5, <2>1, <2>2, QuietStep
<1>7. SegmentInv'
  <2>1. mem'.low = mem.low
    BY <1>5 DEF SameAreas
  <2> QED
    BY <1>1, <1>4, <1>5, <2>1, SameSegments DEF IInv
<1> QED
  BY <1>4, <1>5, <1>6, <1>7 DEF IInv, Types, IndexInv, ElementInv

(* new_heap_segment: the new segment, and the cons in it, lie past what    *)
(* was in use.                                                             *)
LEMMA StepNewHeapSegment == ASSUME IInv, NEW t \in Threads, NewHeapSegment(t) PROVE IInv'
<1> DEFINE limit == NewLimit(mem)
           taken == [mem EXCEPT !.active = limit]
           v == FirstContents(t)
<1>1. /\ mem \in Memory /\ Ordered(mem) /\ Bounded(mem) /\ pc \in [Threads -> Points]
      /\ initial \in [Threads -> Int] /\ seg \in [Threads -> SUBSET Int]
      /\ mem.active \in Int /\ 0 <= mem.active /\ Statics <= mem.active /\ mem.low \in Int
      /\ mem.low <= mem.active
  BY ReachableBound, ConstantTypes DEF IInv, MemoryInv, Good, Types, Ordered, Memory
<1>2. limit \in Int /\ mem.active < limit
  <2>1. mem.active - Statics \in Nat
    BY <1>1, ConstantTypes
  <2>2. /\ RoundUp(mem.active - Statics, Quantum) \in Int
        /\ mem.active - Statics <= RoundUp(mem.active - Statics, Quantum)
    BY <2>1, ConstantTypes, RoundUpBound
  <2> QED
    BY <1>1, <2>2, ConstantTypes DEF NewLimit
<1> HIDE DEF limit
<1>3. /\ pc[t] \in {"segment", "extend"} /\ limit <= High
      /\ seg' = [seg EXCEPT ![t] = (mem.active + 1)..(limit - 1)]
      /\ initial' = [initial EXCEPT ![t] = NoElement]
      /\ pc' = [pc EXCEPT ![t] = "idle"] /\ UNCHANGED word
  BY DEF NewHeapSegment, Goto, limit
<1>4. limit \in Dnodes
  BY <1>1, <1>2, <1>3 DEF Dnodes
<1>5. v \in Int /\ v <= mem.active
  <2>1. Val(mem, t) \in Int /\ Val(mem, t) <= mem.active
    BY <1>1, Registered DEF Bounded, Val, Slots, Registers
  <2>2. initial[t] = NoElement \/ initial[t] = 0
    BY DEF IInv, ElementInv
  <2> QED
    BY <1>1, <2>1, <2>2 DEF FirstContents
<1> HIDE DEF v
<1>6. PICK r \in Roots : mem' = Forget(ConsIn(taken, limit, r, v), t)
  BY DEF NewHeapSegment, limit, v
<1>7. /\ taken \in Memory /\ taken.heap = mem.heap /\ taken.slot = mem.slot
      /\ taken.active = limit /\ SameAreas(mem, taken)
      /\ taken.refbits = mem.refbits /\ taken.refidx = mem.refidx
      /\ taken.sbits = mem.sbits /\ taken.sidx = mem.sidx
  BY <1>1, <1>2 DEF Memory, SameAreas
<1> HIDE DEF taken
<1>8. /\ mem' \in Memory /\ mem'.active = limit /\ SameAreas(mem, mem')
      /\ MoreBits(mem, mem') /\ mem'.sidx = mem.sidx
      /\ \A e \in Dnodes : mem'.heap[e] = IF e = limit THEN v ELSE mem.heap[e]
      /\ \A s \in Slots : mem'.slot[s] \in {mem.slot[s], limit, 0}
      /\ \A u \in Threads \ {t} : Obj(mem', u) = Obj(mem, u) /\ Val(mem', u) = Val(mem, u)
  <2> DEFINE c == ConsIn(taken, limit, r, v)
             n == Forget(c, t)
  <2>1. /\ c \in Memory /\ c.active = taken.active /\ SameAreas(taken, c)
        /\ c.refbits = taken.refbits /\ c.refidx = taken.refidx
        /\ c.sbits = taken.sbits /\ c.sidx = taken.sidx
        /\ \A e \in Dnodes : c.heap[e] = IF e = limit THEN v ELSE taken.heap[e]
        /\ \A s \in Slots : c.slot[s] \in {taken.slot[s], limit}
        /\ \A u \in Threads : Obj(c, u) = Obj(taken, u) /\ Val(c, u) = Val(taken, u)
    BY <1>4, <1>5, <1>7, ConsFields
  <2> HIDE DEF c
  <2>2. /\ n \in Memory /\ n.heap = c.heap /\ n.active = c.active /\ SameAreas(c, n)
        /\ n.refbits = c.refbits /\ n.refidx = c.refidx /\ n.sbits = c.sbits /\ n.sidx = c.sidx
        /\ \A s \in Slots : n.slot[s] \in {c.slot[s], 0}
        /\ \A u \in Threads \ {t} : Obj(n, u) = Obj(c, u) /\ Val(n, u) = Val(c, u)
    BY <2>1, ForgetFields
  <2> HIDE DEF n
  <2>3. mem' = n
    BY <1>6 DEF n, c
  <2>4. \A u \in Threads : Obj(taken, u) = Obj(mem, u) /\ Val(taken, u) = Val(mem, u)
    BY <1>7 DEF Obj, Val
  <2>5. \A s \in Slots : n.slot[s] \in {mem.slot[s], limit, 0}
    BY <1>7, <2>1, <2>2
  <2>6. SameAreas(mem, n)
    BY <1>7, <2>1, <2>2 DEF SameAreas
  <2> QED
    BY <1>7, <2>1, <2>2, <2>3, <2>4, <2>5, <2>6 DEF MoreBits
<1>9. \A u \in Threads \ {t} : pc'[u] = pc[u]
  BY <1>1, <1>3
<1>10. MemoryInv'
  <2>1. \A s \in Slots : mem'.slot[s] <= mem'.active
    BY <1>1, <1>2, <1>8 DEF Bounded, Memory
  <2>2. \A d \in Dnodes : mem'.heap[d] <= mem'.active
    BY <1>1, <1>2, <1>5, <1>8 DEF Bounded, Memory
  <2>3. \A d \in Dnodes : mem'.heap[d] = mem.heap[d] \/ d > mem.low
    BY <1>1, <1>2, <1>8
  <2>4. \A u \in Threads : pc[u] \in InHand => u # t
    BY <1>3 DEF InHand
  <2>5. mem.active <= mem'.active /\ mem'.active <= High
    BY <1>1, <1>2, <1>3, <1>8
  <2> QED
    BY <1>8, <1>9, <2>1, <2>2, <2>3, <2>4, <2>5, QuietStep
<1>11. SegmentInv'
  <2>1. mem'.low = mem.low
    BY <1>8 DEF SameAreas
  <2> DEFINE a == mem.active + 1
             b == limit - 1
  <2>2. seg'[t] = a..b /\ a \in Int /\ b \in Int /\ mem.low < a /\ b <= limit
    BY <1>1, <1>2, <1>3
  <2>3. a > b \/ (a \in Dnodes /\ b \in Dnodes /\ a <= b)
    BY <1>1, <1>2, <1>3, ConstantTypes DEF Dnodes
  <2>4. \A u \in Threads \ {t} : seg'[u] = seg[u]
    BY <1>1, <1>3
  <2>5. seg'[t] = {} \/ \E x, y \in Dnodes : /\ seg'[t] = x..y /\ x <= y
                                             /\ mem'.low < x /\ y <= mem'.active
    <3>1. a > b => a..b = {}
      BY <2>2
    <3> QED
      BY <1>8, <2>1, <2>2, <2>3, <3>1
  <2>6. ASSUME NEW u \in Threads \ {t}
        PROVE seg'[u] = {} \/ \E x, y \in Dnodes : /\ seg'[u] = x..y /\ x <= y
                                                   /\ mem'.low < x /\ y <= mem'.active
    <3>1. CASE seg[u] = {}
      BY <2>4, <3>1
    <3>2. CASE seg[u] # {}
      <4>1. PICK x \in Dnodes, y \in Dnodes :
              seg[u] = x..y /\ x <= y /\ mem.low < x /\ y <= mem.active
        BY <3>2 DEF IInv, SegmentInv
      <4>2. y \in Int
        BY ConstantTypes DEF Dnodes
      <4>3. y <= mem'.active
        BY <1>1, <1>2, <1>8, <4>1, <4>2
      <4> QED
        BY <2>1, <2>4, <4>1, <4>3
    <3> QED
      BY <3>1, <3>2
  <2> QED
    BY <2>5, <2>6 DEF SegmentInv
<1>12. Types'
  <2>1. (mem.active + 1)..(limit - 1) \in SUBSET Int /\ NoElement \in Int
    BY <1>1, <1>2 DEF NoElement
  <2>2. seg' \in [Threads -> SUBSET Int] /\ initial' \in [Threads -> Int]
    BY <1>1, <1>3, <2>1
  <2>3. pc' \in [Threads -> Points]
    BY <1>1, <1>3 DEF Points
  <2> QED
    BY <1>3, <2>2, <2>3 DEF IInv, Types
<1>13. IndexInv'
  BY <1>3, <1>8, IndexStep DEF Points, InHand
<1>14. ElementInv'
  BY <1>1, <1>3 DEF IInv, ElementInv
<1> QED
  BY <1>10, <1>11, <1>12, <1>13, <1>14 DEF IInv

----------------------------------------------------------------------------
(* Collections and moves of the boundaries.                               *)

(* gc_like_from_xp: pc_luser_xp finishes every barrier, so that nothing is *)
(* left in the threads' hands, and no thread keeps its segment.            *)
LEMMA CollectingStep ==
  ASSUME IInv, NEW t \in Threads, NEW l \in Points \ ({"store", "retry"} \cup InHand),
         pc[t] \notin InHand, StopAndCollect(t, l), UNCHANGED <<word, initial>>
  PROVE  IInv'
<1>1. \A u \in Threads : pc[u] # "btsq"
  BY DEF StopAndCollect
<1>2. mem' = Gc(PcLuserXp(mem)) /\ seg' = [u \in Threads |-> {}]
  BY DEF StopAndCollect
<1>3. pc \in [Threads -> Points] /\ initial \in [Threads -> Int]
  BY DEF IInv, Types
<1>4. MemoryInv'
  <2>1. Good(PcLuserXp(mem), {}, {})
    BY <1>1, Finished DEF IInv, MemoryInv
  <2>2. Good(Gc(PcLuserXp(mem)), {}, {})
    BY <2>1, Collects
  <2>3. Good(mem', {}, {})
    BY <1>2, <2>2
  <2>4. Good(mem', OldHands(mem)', StaticHands(mem)')
    BY <2>3, FewerHands
  <2> QED
    BY <2>4 DEF MemoryInv
<1>5. ASSUME NEW u \in Threads
      PROVE  /\ pc'[u] \in Points /\ pc'[u] # "btsq"
             /\ pc'[u] \in {"store", "retry"} \cup InHand => u \in Storers
  <2>1. pc'[u] = CASE u = t -> l
                   [] u \in Finishing -> "idle"
                   [] OTHER -> pc[u]
    BY DEF StopAndCollect
  <2>2. CASE u = t
    <3>1. pc'[u] = l
      BY <2>1, <2>2 DEF Finishing, InHand
    <3> QED
      BY <3>1 DEF InHand
  <2>3. CASE u # t /\ u \in Finishing
    BY <2>1, <2>3 DEF InHand, Points
  <2>4. CASE u # t /\ u \notin Finishing
    BY <1>1, <1>3, <2>1, <2>4 DEF IInv, IndexInv
  <2> QED
    BY <2>2, <2>3, <2>4
<1>6. pc' \in [Threads -> Points]
  <2>1. pc' = [u \in Threads |-> CASE u = t -> l
                                   [] u \in Finishing -> "idle"
                                   [] OTHER -> pc[u]]
    BY DEF StopAndCollect
  <2>2. \A u \in Threads : pc'[u] \in Points
    BY <1>5
  <2> QED
    BY <2>1, <2>2
<1>7. Types'
  BY <1>2, <1>6 DEF IInv, Types
<1>8. SegmentInv'
  BY <1>2 DEF SegmentInv
<1>9. IndexInv'
  BY <1>5 DEF IndexInv
<1>10. ElementInv'
  BY DEF IInv, ElementInv
<1> QED
  BY <1>4, <1>7, <1>8, <1>9, <1>10 DEF IInv

(* allocate_object: an ephemeral collection when it is due.                *)
LEMMA StepMaybeDoEgc == ASSUME IInv, NEW t \in Threads, MaybeDoEgc(t) PROVE IInv'
<1>0. "segment" \in Points \ ({"store", "retry"} \cup InHand)
  BY DEF Points, InHand
<1>1. CASE StopAndCollect(t, "segment")
  BY <1>0, <1>1, CollectingStep DEF MaybeDoEgc, InHand
<1>2. CASE Goto(t, "segment") /\ UNCHANGED <<mem, seg>>
  <2>1. 0 \in Int /\ 0 <= mem.active
    BY ReachableBound DEF IInv, MemoryInv, Good
  <2> QED
    BY <1>0, <1>2, <2>1, TrapStep DEF MaybeDoEgc, Goto, InHand
<1> QED
  BY <1>1, <1>2 DEF MaybeDoEgc

(* allocate_object: a full collection when there is no room.               *)
LEMMA StepFullGc == ASSUME IInv, NEW t \in Threads, FullGc(t) PROVE IInv'
<1>1. "extend" \in Points \ ({"store", "retry"} \cup InHand)
  BY DEF Points, InHand
<1> QED
  BY <1>1, CollectingStep DEF FullGc, InHand

(* handle_gc_trap: the collection a thread asked for.                      *)
LEMMA StepGcFromTrap == ASSUME IInv, NEW t \in Threads, GcFromTrap(t) PROVE IInv'
<1>1. {"done", "enable"} \subseteq Points \ ({"store", "retry"} \cup InHand)
  BY DEF Points, InHand
<1> QED
  BY <1>1, CollectingStep DEF GcFromTrap, InHand

(* A step that moves boundaries: down, which uncovers nothing, or up to    *)
(* the end of what is in use when no thread has a segment.                 *)
LEMMA BoundaryStep ==
  ASSUME IInv, NEW t \in Threads, NEW l \in Points \ ({"store", "retry"} \cup InHand),
         pc[t] \notin InHand, pc' = [pc EXCEPT ![t] = l] \/ UNCHANGED pc,
         UNCHANGED <<word, initial, seg>>,
         mem'.slot = mem.slot, mem'.sbits = mem.sbits, mem'.sidx = mem.sidx,
         mem'.active = mem.active,
         \/ /\ mem'.refbits = mem.refbits /\ mem'.low <= mem.low
            /\ Good(mem', OldHands(mem), StaticHands(mem))
         \/ /\ Good(mem', {}, StaticHands(mem))
            /\ \A u \in Threads : seg[u] = {}
  PROVE  IInv'
<1>1. pc \in [Threads -> Points] /\ mem \in Memory /\ mem' \in Memory
  BY DEF IInv, Types, MemoryInv, Good
<1>2. \A u \in Threads : Obj(mem', u) = Obj(mem, u) /\ Val(mem', u) = Val(mem, u)
  BY DEF Obj, Val
<1>3. \A u \in Threads : pc[u] \in InHand => pc'[u] = pc[u]
  BY <1>1
<1>4. StaticHands(mem) \subseteq StaticHands(mem)'
  BY <1>2, <1>3 DEF StaticHands, InHand
<1>5. mem'.refbits = mem.refbits => OldHands(mem) \subseteq OldHands(mem)'
  BY <1>2, <1>3 DEF OldHands, InHand
<1>6. MemoryInv'
  <2>1. Good(mem', OldHands(mem)', StaticHands(mem)')
    BY <1>4, <1>5, FewerHands
  <2> QED
    BY <2>1 DEF MemoryInv
<1>7. SegmentInv'
  <2>1. CASE mem'.low <= mem.low
    <3>1. mem.low \in Int /\ mem'.low \in Int /\ mem.active \in Int
      BY <1>1 DEF Memory
    <3> QED
      BY <2>1, <3>1, SameSegments DEF IInv
  <2>2. CASE \A u \in Threads : seg[u] = {}
    BY <2>2 DEF SegmentInv
  <2> QED
    BY <2>1, <2>2
<1>8. Types'
  BY <1>1 DEF IInv, Types
<1>9. IndexInv'
  <2>1. CASE UNCHANGED pc
    BY <2>1 DEF IInv, IndexInv
  <2>2. CASE pc' = [pc EXCEPT ![t] = l]
    BY <2>2, IndexStep DEF InHand
  <2> QED
    BY <2>1, <2>2
<1>10. ElementInv'
  BY DEF IInv, ElementInv
<1> QED
  BY <1>6, <1>7, <1>8, <1>9, <1>10 DEF IInv

(* allocate_object: no room for a segment, untenure everything.            *)
LEMMA StepForceFullGc == ASSUME IInv, NEW t \in Threads, ForceFullGc(t) PROVE IInv'
<1>1. mem' = UntenureFromArea(mem, "tenured")
  BY DEF ForceFullGc
<1>2. Good(mem', OldHands(mem), StaticHands(mem))
  BY <1>1, Untenure DEF IInv, MemoryInv
<1>3. /\ mem'.slot = mem.slot /\ mem'.sbits = mem.sbits /\ mem'.sidx = mem.sidx
      /\ mem'.active = mem.active /\ mem'.refbits = mem.refbits /\ mem'.low <= mem.low
  <2> DEFINE n == UntenureFromArea(mem, "tenured")
  <2>1. /\ n.slot = mem.slot /\ n.sbits = mem.sbits /\ n.sidx = mem.sidx
        /\ n.active = mem.active /\ n.refbits = mem.refbits /\ n.low <= mem.low
    BY UntenureFields DEF IInv, MemoryInv, Good
  <2> QED
    BY <1>1, <2>1
<1>4. /\ "full" \in Points \ ({"store", "retry"} \cup InHand)
      /\ pc[t] \notin InHand /\ pc' = [pc EXCEPT ![t] = "full"]
      /\ UNCHANGED <<word, initial, seg>>
  BY DEF ForceFullGc, Goto, Points, InHand
<1> QED
  BY <1>2, <1>3, <1>4, BoundaryStep

(* egc_control inside a trap.                                              *)
LEMMA SwitchStep ==
  ASSUME IInv, NEW t \in Threads, NEW l \in Points \ ({"store", "retry"} \cup InHand),
         pc[t] \notin InHand, pc' = [pc EXCEPT ![t] = l] \/ UNCHANGED pc,
         UNCHANGED <<word, initial, seg>>,
         NEW activate \in BOOLEAN, mem' = EgcControl(mem, activate),
         activate => \A u \in Threads : seg[u] = {}
  PROVE  IInv'
<1> DEFINE n == EgcControl(mem, activate)
<1>1. /\ n.slot = mem.slot /\ n.sbits = mem.sbits /\ n.sidx = mem.sidx
      /\ n.active = mem.active
      /\ \/ /\ n.refbits = mem.refbits /\ n.low <= mem.low
            /\ Good(n, OldHands(mem), StaticHands(mem))
         \/ activate /\ Good(n, {}, StaticHands(mem))
  BY Switch DEF IInv, MemoryInv
<1> HIDE DEF n
<1>2. mem' = n
  BY DEF n
<1> QED
  BY <1>1, <1>2, BoundaryStep

(* handle_gc_trap with GC_TRAP_FUNCTION_EGC_CONTROL, while no thread has a *)
(* segment.                                                                *)
LEMMA StepEgcControlTrap ==
  ASSUME Restricted, IInv, NEW t \in Threads, EgcControlTrap(t)
  PROVE  IInv'
<1>1. PICK activate \in BOOLEAN : mem' = EgcControl(mem, activate)
  BY DEF EgcControlTrap
<1>2. "idle" \in Points \ ({"store", "retry"} \cup InHand)
  BY DEF Points, InHand
<1> QED
  BY <1>1, <1>2, SwitchStep DEF EgcControlTrap, MaySwitch, Restricted, InHand

(* handle_gc_trap with GC_TRAP_FUNCTION_GC: the ephemeral collector is     *)
(* switched off.                                                           *)
LEMMA StepGcTrap == ASSUME IInv, NEW t \in Threads, GcTrap(t) PROVE IInv'
<1>1. PICK l \in {"gc and enable", "gc"} : pc' = [pc EXCEPT ![t] = l]
  BY DEF GcTrap, Goto
<1>2. l \in Points \ ({"store", "retry"} \cup InHand) /\ FALSE \in BOOLEAN
  BY DEF Points, InHand
<1> QED
  BY <1>1, <1>2, SwitchStep DEF GcTrap, InHand

(* handle_gc_trap: it is switched on again if it was on.                   *)
LEMMA StepLeaveGcTrap ==
  ASSUME Restricted, IInv, NEW t \in Threads, LeaveGcTrap(t)
  PROVE  IInv'
<1>1. "idle" \in Points \ ({"store", "retry"} \cup InHand) /\ TRUE \in BOOLEAN
  BY DEF Points, InHand
<1>2. CASE pc[t] = "done" /\ UNCHANGED mem
  <2>1. 0 \in Int /\ 0 <= mem.active
    BY ReachableBound DEF IInv, MemoryInv, Good
  <2> QED
    BY <1>1, <1>2, <2>1, TrapStep DEF LeaveGcTrap, Goto, InHand
<1>3. CASE pc[t] = "enable" /\ MaySwitch(t) /\ mem' = EgcControl(mem, TRUE)
  BY <1>1, <1>3, SwitchStep DEF LeaveGcTrap, Goto, MaySwitch, Restricted, InHand
<1> QED
  BY <1>2, <1>3 DEF LeaveGcTrap

(* handle_gc_trap with GC_TRAP_FUNCTION_USE_LISP_HEAP_THRESHOLD.           *)
LEMMA StepUseHeapThreshold ==
  ASSUME Restricted, IInv, NEW t \in Threads, UseHeapThreshold(t)
  PROVE  IInv'
<1> DEFINE u == UntenureFromArea(mem, "tenured")
           n == TenureToArea(u, "tenured")
<1>1. mem' = u \/ mem' = n
  BY DEF UseHeapThreshold
<1>2. /\ pc[t] = "idle" /\ UNCHANGED <<pc, word, initial, seg>>
      /\ \A w \in Threads : seg[w] = {}
  BY DEF UseHeapThreshold, MaySwitch, Restricted
<1>3. Good(u, OldHands(mem), StaticHands(mem))
  BY Untenure DEF IInv, MemoryInv
<1>4. /\ u.slot = mem.slot /\ u.sbits = mem.sbits /\ u.sidx = mem.sidx
      /\ u.active = mem.active /\ u.refbits = mem.refbits /\ u.low <= mem.low
  BY UntenureFields DEF IInv, MemoryInv, Good
<1> HIDE DEF u
<1>5. Good(n, {}, StaticHands(mem))
  BY <1>3, Tenure DEF Good
<1>6. /\ n.slot = mem.slot /\ n.sbits = mem.sbits /\ n.sidx = mem.sidx
      /\ n.active = mem.active
  BY <1>3, <1>4, TenureFields DEF Good
<1> HIDE DEF n
<1>7. "idle" \in Points \ ({"store", "retry"} \cup InHand) /\ pc[t] \notin InHand
  BY <1>2 DEF Points, InHand
<1>8. CASE mem' = u
  BY <1>2, <1>3, <1>4, <1>7, <1>8, BoundaryStep
<1>9. CASE mem' = n
  BY <1>2, <1>5, <1>6, <1>7, <1>9, BoundaryStep
<1> QED
  BY <1>1, <1>8, <1>9

----------------------------------------------------------------------------
(* The specification.                                                      *)

(* At the start everything that must be is memoized.                       *)
LEMMA Starts == ASSUME Init PROVE IInv
<1>1. PICK live \in 0..Survivors : 
        \E g2, g1, low \in Statics..(Statics + live), older \in BOOLEAN,
           cells \in [1..(Statics + live) -> {0, Raw} \cup 1..(Statics + live)],
           named \in [Roots -> 0..(Statics + live)] :
          LET m == [heap |-> [d \in Dnodes |-> IF d \in DOMAIN cells
                                                 THEN cells[d] ELSE 0],
                    slot |-> [s \in Slots |-> IF s \in Roots THEN named[s] ELSE 0],
                    refbits |-> {}, refidx |-> {}, sbits |-> {}, sidx |-> {},
                    g2 |-> g2, g1 |-> g1, low |-> low, active |-> Statics + live,
                    oldest |-> IF older THEN g2 ELSE 0,
                    oldspace |-> IF older THEN low ELSE 0, older |-> older]
          IN  /\ Generational(m) /\ \A d \in 1..Statics : cells[d] # Raw
              /\ mem = Memoized(m)
  BY DEF Init
<1>2. PICK g2 \in Statics..(Statics + live), g1 \in Statics..(Statics + live),
           low \in Statics..(Statics + live), older \in BOOLEAN,
           cells \in [1..(Statics + live) -> {0, Raw} \cup 1..(Statics + live)],
           named \in [Roots -> 0..(Statics + live)] :
        LET m == [heap |-> [d \in Dnodes |-> IF d \in DOMAIN cells
                                               THEN cells[d] ELSE 0],
                  slot |-> [s \in Slots |-> IF s \in Roots THEN named[s] ELSE 0],
                  refbits |-> {}, refidx |-> {}, sbits |-> {}, sidx |-> {},
                  g2 |-> g2, g1 |-> g1, low |-> low, active |-> Statics + live,
                  oldest |-> IF older THEN g2 ELSE 0,
                  oldspace |-> IF older THEN low ELSE 0, older |-> older]
        IN  /\ Generational(m) /\ \A d \in 1..Statics : cells[d] # Raw
            /\ mem = Memoized(m)
  BY <1>1
<1> DEFINE last == Statics + live
<1> DEFINE heap == [d \in Dnodes |-> IF d \in DOMAIN cells THEN cells[d] ELSE 0]
           slots == [s \in Slots |-> IF s \in Roots THEN named[s] ELSE 0]
           oldest == IF older THEN g2 ELSE 0
           oldspace == IF older THEN low ELSE 0
           m == [heap |-> heap, slot |-> slots,
                 refbits |-> {}, refidx |-> {}, sbits |-> {}, sidx |-> {},
                 g2 |-> g2, g1 |-> g1, low |-> low, active |-> last,
                 oldest |-> oldest, oldspace |-> oldspace, older |-> older]
<1>3. Generational(m) /\ mem = Memoized(m)
  BY <1>2
<1>4. /\ last \in Int /\ Statics \in Int /\ Statics > 0 /\ Statics <= last /\ last <= High
      /\ High \in Int
      /\ g2 \in Int /\ g1 \in Int /\ low \in Int
      /\ Statics <= g2 /\ Statics <= g1 /\ Statics <= low /\ low <= last
  BY ConstantTypes, GenerationsAssumption DEF High
<1>0. /\ cells \in [1..last -> {0, Raw} \cup 1..last] /\ named \in [Roots -> 0..last]
       /\ \A n \in {0, Raw} \cup 0..last : n \in Int /\ n <= last
  BY <1>4 DEF Raw
<1> HIDE DEF last
<1>5. heap \in [Dnodes -> Int] /\ \A d \in Dnodes : heap[d] <= last
  <2> SUFFICES ASSUME NEW d \in Dnodes PROVE heap[d] \in Int /\ heap[d] <= last
    OBVIOUS
  <2>1. CASE d \in 1..last
    <3>1. heap[d] = cells[d] /\ cells[d] \in {0, Raw} \cup 1..last
      BY <1>0, <2>1
    <3>2. cells[d] \in {0, Raw} \cup 0..last
      BY <3>1
    <3> QED
      BY <1>0, <3>1, <3>2
  <2>2. CASE d \notin 1..last
    BY <1>0, <2>2
  <2> QED
    BY <2>1, <2>2
<1>6. slots \in [Slots -> Int] /\ \A s \in Slots : slots[s] <= last
  <2> SUFFICES ASSUME NEW s \in Slots PROVE slots[s] \in Int /\ slots[s] <= last
    OBVIOUS
  <2> QED
    BY <1>0
<1>7. oldest \in Int /\ oldspace \in Int
  BY <1>4
<1> HIDE DEF heap, slots, oldest, oldspace
<1>8. m \in Memory
  BY <1>4, <1>5, <1>6, <1>7 DEF Memory
<1>9. Ordered(m) /\ Bounded(m)
  BY <1>3, <1>4, <1>5, <1>6 DEF Ordered, Bounded, Generational
<1> DEFINE refs == Between(m, m.g2) \cup Between(m, m.g1) \cup Between(m, m.low)
           bits == IF m.oldest = 0 THEN {} ELSE refs
           groups == IF m.oldest = 0 THEN {} ELSE {Group(d) : d \in refs}
           sbits == Between(m, Statics)
           sgroups == {Group(d) : d \in sbits}
<1> HIDE DEF m
<1>10. refs \in SUBSET Int /\ sbits \in SUBSET Int
  BY DEF Between
<1>11. /\ bits \in SUBSET Int /\ groups \in SUBSET Int /\ sgroups \in SUBSET Int
  BY <1>10, GroupType
<1>12. mem = [m EXCEPT !.refbits = bits, !.refidx = groups, !.sbits = sbits, !.sidx = sgroups]
  BY <1>3 DEF Memoized
<1>13. /\ m.oldest # 0 => \A d \in refs : d \in bits /\ Group(d) \in groups
       /\ \A d \in sbits : Group(d) \in sgroups
  OBVIOUS
<1> HIDE DEF bits, groups, sgroups
<1>14. mem \in Memory
  BY <1>8, <1>10, <1>11, <1>12 DEF Memory
<1>15. /\ mem.heap = m.heap /\ mem.slot = m.slot /\ mem.g2 = m.g2 /\ mem.g1 = m.g1
       /\ mem.low = m.low /\ mem.active = m.active /\ mem.oldest = m.oldest
       /\ mem.oldspace = m.oldspace
       /\ mem.refbits = bits /\ mem.refidx = groups /\ mem.sbits = sbits /\ mem.sidx = sgroups
  BY <1>8, <1>12 DEF Memory
<1>16. Ordered(mem) /\ Bounded(mem)
  BY <1>9, <1>15 DEF Ordered, Bounded
<1>17. OldCovered(mem, {})
  <2> SUFFICES ASSUME mem.oldest # 0, NEW b \in {mem.oldest, mem.g1, mem.low},
                      NEW d \in 1..b, mem.heap[d] > b
               PROVE  d \in Visited(mem)
    BY DEF OldCovered
  <2>1. d \in Between(m, b) /\ b \in {m.g2, m.g1, m.low}
    BY <1>15, <1>16 DEF Between, Ordered
  <2>2. d \in 1..mem.low
    BY <1>14, <1>16 DEF Ordered, Memory
  <2> QED
    BY <1>13, <1>15, <2>1, <2>2 DEF Visited
<1>18. StaticCovered(mem, {})
  BY <1>13, <1>15 DEF StaticCovered, VisitedStatics, Between
<1>19. MemoryInv
  <2>1. Good(mem, {}, {})
    BY <1>14, <1>16, <1>17, <1>18 DEF Good
  <2> QED
    BY <2>1, FewerHands DEF MemoryInv
<1> QED
  BY <1>19 DEF Init, IInv, Types, SegmentInv, IndexInv, ElementInv, Points, InHand, NoElement

(* Every step keeps the invariant.                                         *)
LEMMA Steps == ASSUME Restricted, IInv, [Next]_vars PROVE IInv'
<1>1. CASE UNCHANGED vars
  BY <1>1 DEF vars, IInv, Types, MemoryInv, OldHands, StaticHands, SegmentInv, IndexInv,
              ElementInv
<1>2. ASSUME NEW t \in Threads,
             \/ CallBarrier(t) \/ Store(t) \/ StoreConditional(t) \/ SetRefbit(t)
             \/ SetRefidx(t) \/ SetStaticRefbit(t) \/ SetStaticRefidx(t)
             \/ ReadStaticRefidx(t) \/ WriteStaticRefidx(t)
      PROVE  IInv'
  BY <1>2, StepCallBarrier, StepStore, StepStoreConditional, StepSetRefbit, StepSetRefidx,
     StepSetStaticRefbit, StepSetStaticRefidx, StepReadStaticRefidx, StepWriteStaticRefidx
<1>3. ASSUME NEW t \in Threads,
             \/ Cons(t) \/ AllocTrap(t) \/ AllocateListTrap(t) \/ MaybeDoEgc(t)
             \/ NewHeapSegment(t) \/ ForceFullGc(t) \/ FullGc(t) \/ AllocationFailure(t)
      PROVE  IInv'
  BY <1>3, StepCons, StepAllocTrap, StepAllocateListTrap, StepMaybeDoEgc,
     StepNewHeapSegment, StepForceFullGc, StepFullGc, StepAllocationFailure
<1>4. ASSUME NEW t \in Threads,
             \/ EgcControlTrap(t) \/ UseHeapThreshold(t) \/ ImmediateGcTrap(t)
             \/ GcTrap(t) \/ GcFromTrap(t) \/ LeaveGcTrap(t)
      PROVE  IInv'
  BY <1>4, StepEgcControlTrap, StepUseHeapThreshold, StepImmediateGcTrap, StepGcTrap,
     StepGcFromTrap, StepLeaveGcTrap
<1>5. ASSUME NEW r \in Roots, Drop(r) PROVE IInv'
  BY <1>5, StepDrop
<1> QED
  BY <1>1, <1>2, <1>3, <1>4, <1>5 DEF Next

(* The invariant holds in every state of every behaviour.                  *)
LEMMA Invariant == ASSUME Restricted PROVE Spec => []IInv
<1>1. Init => IInv
  BY Starts
<1>2. IInv /\ [Next]_vars => IInv'
  BY Steps
<1> QED
  BY <1>1, <1>2, PTL DEF Spec

(* The assertion of check_refmap_consistency ("Missing memoization in      *)
(* doublenode") for every generation: a reference from an older to a       *)
(* younger generation is in the reference map and its index, or the thread *)
(* that stored it is still inside the barrier, whatever collections,       *)
(* promotions and switches come between the barrier's instructions.        *)
THEOREM Memoization == ASSUME Restricted PROVE Spec => []MemoizationIsComplete
<1>1. IInv => MemoizationIsComplete
  <2> SUFFICES ASSUME IInv, mem.oldest # 0, NEW b \in {mem.oldest, mem.g1, mem.low},
                      NEW d \in 1..b, mem.heap[d] > b
               PROVE  d \in Visited(mem) \/ InBarrier(d)
    BY DEF MemoizationIsComplete
  <2>1. d \in Visited(mem) \/ d \in OldHands(mem)
    BY DEF IInv, MemoryInv, Good, OldCovered
  <2>2. d \in OldHands(mem) => InBarrier(d)
    BY DEF OldHands, InBarrier
  <2> QED
    BY <2>1, <2>2
<1>2. Spec => []IInv
  BY Invariant
<1> QED
  BY <1>1, <1>2, PTL

(* "Memoization for doublenode not indexed" never holds of the managed     *)
(* static area: each of its references to the dynamic area is in its map   *)
(* and index, or the thread that stored it is still inside the barrier.    *)
THEOREM StaticReferences == ASSUME Restricted PROVE Spec => []StaticRefsIndexed
<1>1. IInv => StaticRefsIndexed
  <2> SUFFICES ASSUME IInv, NEW d \in 1..Statics, mem.heap[d] > Statics
               PROVE  d \in VisitedStatics(mem) \/ InBarrier(d)
    BY DEF StaticRefsIndexed
  <2>1. d \in VisitedStatics(mem) \/ d \in StaticHands(mem)
    BY DEF IInv, MemoryInv, Good, StaticCovered
  <2>2. d \in StaticHands(mem) => InBarrier(d)
    BY DEF StaticHands, InBarrier
  <2> QED
    BY <2>1, <2>2
<1>2. Spec => []IInv
  BY Invariant
<1> QED
  BY <1>1, <1>2, PTL

----------------------------------------------------------------------------
(* What the program reaches.                                               *)

Less == OpToRel(<, Nat)

(* Counting up from 0 comes to every number: a least one that is left out  *)
(* would have a predecessor that is not.                                   *)
LEMMA CountingUp ==
  ASSUME NEW n \in Nat, NEW S, 0 \in S, \A k \in 0..(n - 1) : k \in S => k + 1 \in S
  PROVE  \A k \in 0..n : k \in S
<1> DEFINE T == {k \in 0..n : k \notin S}
<1> SUFFICES ASSUME T # {} PROVE FALSE
  OBVIOUS
<1>1. IsWellFoundedOn(Less, Nat)
  BY NatLessThanWellFounded DEF Less
<1>2. T \subseteq Nat
  OBVIOUS
<1>3. \A x, y \in Nat : <<x, y>> \in Less <=> x < y
  BY DEF Less, OpToRel
<1>4. \E x \in T : \A y \in T : <<y, x>> \notin Less
  BY <1>1, <1>2, WFMin, Zenon
<1>5. PICK x \in T : \A y \in T : ~(y < x)
  BY <1>2, <1>3, <1>4
<1>6. x - 1 \in 0..(n - 1) /\ x - 1 \notin T
  BY <1>5
<1> QED
  BY <1>6

(* The steps of a path.                                                    *)
Walks(m, start, n, f) ==
    f = [k \in 0..n |-> IF k = 0 THEN start
                          ELSE IF f[k - 1] \in Dnodes THEN m.heap[f[k - 1]] ELSE f[k - 1]]

LEMMA WalkExists ==
  ASSUME NEW m, NEW start, NEW n \in Nat
  PROVE  \E f : Walks(m, start, n, f)
<1> DEFINE S == {k \in Nat : \E f : Walks(m, start, k, f)}
<1>1. 0 \in S
  <2> DEFINE f == [k \in 0..0 |-> start]
  <2>1. Walks(m, start, 0, f)
    BY DEF Walks
  <2> QED
    BY <2>1
<1>2. ASSUME NEW k \in 0..(n - 1), k \in S PROVE k + 1 \in S
  <2>1. PICK f : Walks(m, start, k, f)
    BY <1>2
  <2> DEFINE next == IF f[k] \in Dnodes THEN m.heap[f[k]] ELSE f[k]
             g == [j \in 0..(k + 1) |-> IF j = k + 1 THEN next ELSE f[j]]
             h == [j \in 0..(k + 1) |-> IF j = 0 THEN start
                     ELSE IF g[j - 1] \in Dnodes THEN m.heap[g[j - 1]] ELSE g[j - 1]]
  <2>2. ASSUME NEW j \in 0..(k + 1) PROVE g[j] = h[j]
    <3>1. CASE j = k + 1
      BY <3>1
    <3>2. CASE j # k + 1
      <4>1. j \in 0..k /\ (j # 0 => j - 1 \in 0..k)
        BY <3>2
      <4>2. f[j] = IF j = 0 THEN start
                     ELSE IF f[j - 1] \in Dnodes THEN m.heap[f[j - 1]] ELSE f[j - 1]
        BY <2>1, <4>1 DEF Walks
      <4> QED
        BY <4>1, <4>2
    <3> QED
      BY <3>1, <3>2
  <2>3. g = h
    BY <2>2
  <2>4. Walks(m, start, k + 1, g)
    BY <2>3 DEF Walks
  <2> QED
    BY <2>4
<1> HIDE DEF S
<1>3. n \in S
  BY <1>1, <1>2, CountingUp
<1> QED
  BY <1>3 DEF S

LEMMA PathIs ==
  ASSUME NEW m, NEW start, NEW n \in Nat
  PROVE  \E f : Walks(m, start, n, f) /\ Path(m, start, n) = f[n]
<1> DEFINE f == CHOOSE g : Walks(m, start, n, g)
<1>1. Walks(m, start, n, f)
  BY WalkExists
<1>2. Path(m, start, n) = f[n]
  BY DEF Path, Walks
<1> QED
  BY <1>1, <1>2

(* F takes what the program has in m to what it has in q: it is one to     *)
(* one on G, in which the program stays, and agrees with the references.   *)
Maps(F, G, m, q) ==
    /\ \A v, w \in G : F[v] = F[w] => v = w
    /\ \A v \in G :
           IF v \in Dnodes
             THEN F[v] \in Dnodes /\ m.heap[v] \in G /\ q.heap[F[v]] = F[m.heap[v]]
             ELSE F[v] = v

LEMMA PathMaps ==
  ASSUME NEW F, NEW G, NEW m, NEW q, Maps(F, G, m, q), NEW v \in G, NEW n \in Nat
  PROVE  Path(m, v, n) \in G /\ Path(q, F[v], n) = F[Path(m, v, n)]
<1>1. PICK f : Walks(m, v, n, f) /\ Path(m, v, n) = f[n]
  BY PathIs
<1>2. PICK g : Walks(q, F[v], n, g) /\ Path(q, F[v], n) = g[n]
  BY PathIs
<1> DEFINE S == {k \in 0..n : f[k] \in G /\ g[k] = F[f[k]]}
<1>3. 0 \in S
  BY <1>1, <1>2 DEF Walks
<1>4. ASSUME NEW k \in 0..(n - 1), k \in S PROVE k + 1 \in S
  <2>1. k + 1 \in 0..n /\ k + 1 # 0 /\ (k + 1) - 1 = k
    OBVIOUS
  <2>2. /\ f[k + 1] = IF f[k] \in Dnodes THEN m.heap[f[k]] ELSE f[k]
        /\ g[k + 1] = IF g[k] \in Dnodes THEN q.heap[g[k]] ELSE g[k]
    BY <1>1, <1>2, <2>1 DEF Walks
  <2>3. f[k] \in G /\ g[k] = F[f[k]]
    BY <1>4
  <2>4. f[k + 1] \in G /\ g[k + 1] = F[f[k + 1]]
    BY <2>2, <2>3 DEF Maps
  <2> QED
    BY <2>1, <2>4
<1> HIDE DEF S
<1>5. n \in S
  BY <1>3, <1>4, CountingUp
<1> QED
  BY <1>1, <1>2, <1>5 DEF S

(* The program cannot tell the two states apart.                           *)
LEMMA MapsGraph ==
  ASSUME NEW F, NEW G, NEW m, NEW q, Maps(F, G, m, q),
         \A s \in Slots : s \in Roots \/ q.slot[s] # 0 => m.slot[s] \in G /\ q.slot[s] = F[m.slot[s]],
         \A d \in 1..Statics : d \in G /\ F[d] = d
  PROVE  SameGraph(m, q)
<1>1. \A n \in 0..High : n \in Nat
  BY ConstantTypes
<1>2. ASSUME NEW p \in Corresponding(m, q) PROVE p[1] \in G /\ p[2] = F[p[1]]
  <2> DEFINE live == Roots \cup {s \in Registers : q.slot[s] # 0}
             starts == {<<m.slot[s], q.slot[s]>> : s \in live}
                         \cup {<<d, d>> : d \in 1..Statics}
  <2>1. PICK b \in starts, n \in 0..High : p = <<Path(m, b[1], n), Path(q, b[2], n)>>
    BY <1>2 DEF Corresponding
  <2>2. b[1] \in G /\ b[2] = F[b[1]]
    BY DEF Slots
  <2>3. Path(m, b[1], n) \in G /\ Path(q, F[b[1]], n) = F[Path(m, b[1], n)]
    BY <1>1, <2>2, PathMaps
  <2> HIDE DEF starts
  <2> QED
    BY <2>1, <2>2, <2>3
<1> QED
  BY <1>2 DEF SameGraph, Maps

(* The dnodes that a collection keeps, with what is no dnode of the area   *)
(* it collects, and where it puts them.                                    *)
Kept(m) == {v \in Int : v <= m.low} \cup Marked(m)
Moved(m) == [v \in Int |-> Forward(m, Marked(m), v)]

(* Two dnodes do not go to one place.                                      *)
LEMMA PlacesDiffer ==
  ASSUME NEW m, m \in Memory, Ordered(m), NEW d \in Marked(m), NEW e \in Marked(m), d < e
  PROVE  Place(m, Marked(m), d) < Place(m, Marked(m), e)
<1> DEFINE M == Marked(m)
           D == {x \in M : x < d}
           E == {x \in M : x < e}
<1>1. /\ M \in SUBSET Area(m) /\ m.low \in Int /\ m.active \in Int /\ d \in Int /\ e \in Int
      /\ \A x \in M : x \in Int
  BY MarkedIsClosed DEF Area, Memory
<1>2. IsFiniteSet(M)
  <2> DEFINE a == m.low + 1
  <2>1. a \in Int /\ Area(m) = a..m.active
    BY <1>1 DEF Area
  <2> HIDE DEF a, M
  <2>2. IsFiniteSet(a..m.active)
    BY <1>1, <2>1, FS_Interval
  <2> QED
    BY <1>1, <2>1, <2>2, FS_Subset
<1>3. D \subseteq E /\ E \subseteq M /\ d \in E /\ d \notin D
  <2>1. d \in M /\ d < e /\ ~(d < d)
    BY <1>1
  <2>2. \A x \in M : x < d => x < e
    BY <1>1
  <2> HIDE DEF M
  <2> QED
    BY <2>1, <2>2
<1>4. IsFiniteSet(E) /\ IsFiniteSet(D)
  BY <1>2, <1>3, FS_Subset
<1>5. Cardinality(D) \in Nat /\ Cardinality(E) \in Nat /\ Cardinality(D) <= Cardinality(E)
      /\ Cardinality(D) # Cardinality(E)
  BY <1>3, <1>4, FS_Subset, FS_CardinalityType
<1>6. Place(m, M, d) = m.low + 1 + Cardinality(D) /\ Place(m, M, e) = m.low + 1 + Cardinality(E)
  BY DEF Place
<1> HIDE DEF D, E, M
<1>7. Place(m, M, d) < Place(m, M, e)
  BY <1>1, <1>5, <1>6
<1> QED
  BY <1>7 DEF M

(* Where the references go.                                                *)
LEMMA MovedIs ==
  ASSUME NEW m, Good(m, {}, {})
  PROVE  /\ \A v \in Marked(m) : /\ v \in Dnodes /\ v \in Area(m) /\ Moved(m)[v] = Place(m, Marked(m), v)
                                 /\ Moved(m)[v] \in Dnodes /\ Moved(m)[v] > m.low
         /\ \A v \in Int : v <= m.low => Moved(m)[v] = v
         /\ \A v \in Int : v <= m.active /\ (v \in Area(m) => v \in Marked(m)) => v \in Kept(m)
<1>1. /\ m \in Memory /\ Ordered(m) /\ m.low \in Int /\ m.active \in Int
      /\ 0 <= m.low /\ m.low <= m.active /\ m.active <= High /\ High \in Int
  BY ConstantTypes DEF Good, Memory, Ordered
<1>2. ASSUME NEW v \in Marked(m)
      PROVE  /\ v \in Dnodes /\ v \in Area(m) /\ Moved(m)[v] = Place(m, Marked(m), v)
             /\ Moved(m)[v] \in Dnodes /\ Moved(m)[v] > m.low
  <2>1. v \in Area(m) /\ v \in Int
    BY MarkedIsClosed DEF Area
  <2>2. Moved(m)[v] = Place(m, Marked(m), v)
    BY <2>1 DEF Moved, Forward, Area
  <2>3. /\ Place(m, Marked(m), v) \in Int /\ m.low < Place(m, Marked(m), v)
        /\ Cardinality(Marked(m)) \in Nat
        /\ Place(m, Marked(m), v) <= m.low + Cardinality(Marked(m))
        /\ m.low + Cardinality(Marked(m)) <= m.active
    BY <1>1, MarkedIsClosed, Counting
  <2> QED
    BY <1>1, <2>1, <2>2, <2>3 DEF Area, Dnodes
<1>3. ASSUME NEW v \in Int, v <= m.low PROVE Moved(m)[v] = v
  BY <1>1, <1>3 DEF Moved, Forward
<1>4. ASSUME NEW v \in Int, v <= m.active, v \in Area(m) => v \in Marked(m) PROVE v \in Kept(m)
  BY <1>1, <1>4 DEF Kept, Area
<1> QED
  BY <1>2, <1>3, <1>4

(* What is kept refers to what is kept.                                    *)
LEMMA KeptIsClosed ==
  ASSUME NEW m, Good(m, {}, {}), NEW v \in Kept(m), v \in Dnodes
  PROVE  m.heap[v] \in Kept(m)
<1>1. m.heap[v] \in Int /\ m.heap[v] <= m.active /\ m.low \in Int
  BY DEF Good, Memory, Bounded
<1>2. CASE v \in Marked(m)
  BY <1>1, <1>2, MarkedIsClosed, MovedIs
<1>3. CASE v <= m.low
  <2>1. v \in 1..m.low
    BY <1>1, <1>3, ConstantTypes DEF Dnodes
  <2>2. m.heap[v] \in Area(m) => m.heap[v] \in Marked(m)
    BY <1>1, <2>1, OutsideIsForwarded DEF Area
  <2> QED
    BY <1>1, <2>2, MovedIs
<1> QED
  BY <1>2, <1>3 DEF Kept

(* compact_dynamic_heap: the contents of a marked dnode are at its place,  *)
(* forwarded.                                                              *)
LEMMA PlacedCell ==
  ASSUME NEW m, Good(m, {}, {}), NEW v \in Marked(m)
  PROVE  Compact(m, Marked(m)).heap[Moved(m)[v]] = Moved(m)[m.heap[v]]
<1> DEFINE M == Marked(m)
           d == Place(m, M, v)
           here == {e \in M : Place(m, M, e) = d}
<1>1. m \in Memory /\ Ordered(m) /\ m.low \in Int /\ m.heap[v] \in Int /\ v \in Int
      /\ \A e \in M : e \in Int
  <2>1. \A e \in M : e \in Dnodes
    BY MovedIs
  <2> QED
    BY <2>1, ConstantTypes DEF Good, Memory, Dnodes
<1>2. d = Moved(m)[v] /\ d \in Dnodes /\ d > m.low
  BY MovedIs
<1>3. here = {v}
  <2> SUFFICES ASSUME NEW e \in here, e # v PROVE FALSE
    OBVIOUS
  <2>0. e \in M /\ Place(m, M, e) = d
    OBVIOUS
  <2>1. e < v \/ v < e
    BY <1>1, <2>0
  <2>2. Place(m, M, e) \in Int /\ Place(m, M, v) \in Int
    BY <1>1, <2>0, MarkedIsClosed, Counting
  <2>3. Place(m, M, e) < Place(m, M, v) \/ Place(m, M, v) < Place(m, M, e)
    BY <1>1, <2>0, <2>1, PlacesDiffer
  <2> QED
    BY <2>0, <2>2, <2>3
<1> DEFINE from == CHOOSE e \in here : TRUE
<1>4. from = v
  BY <1>3
<1>5. Cell(m, M, d) = Forward(m, M, m.heap[from])
  <2>0. Cell(m, M, d) = IF here # {} THEN Forward(m, M, m.heap[from]) ELSE 0
    <3>1. d > m.low /\ ~(d <= m.low)
      BY <1>1, <1>2, ConstantTypes DEF Dnodes
    <3> HIDE DEF d, M
    <3> QED
      BY <3>1 DEF Cell
  <2> HIDE DEF d, M, from, here
  <2> QED
    BY <1>3, <2>0
<1>6. Compact(m, M).heap = [e \in Dnodes |-> Cell(m, M, e)]
  BY <1>1 DEF Compact, Memory
<1>7. Compact(m, M).heap[d] = Forward(m, M, m.heap[v])
  BY <1>2, <1>4, <1>5, <1>6
<1> QED
  BY <1>1, <1>2, <1>7 DEF Moved

(* A compaction moves the whole graph by one function.                     *)
LEMMA CompactMaps ==
  ASSUME NEW m, Good(m, {}, {}), NEW q, q = Compact(m, Marked(m))
  PROVE  /\ Maps(Moved(m), Kept(m), m, q)
         /\ \A s \in Slots : m.slot[s] \in Kept(m) /\ q.slot[s] = Moved(m)[m.slot[s]]
         /\ \A d \in 1..Statics : d \in Kept(m) /\ Moved(m)[d] = d
<1>1. /\ m \in Memory /\ Ordered(m) /\ m.low \in Int /\ m.active \in Int
      /\ 0 <= m.low /\ Statics <= m.low /\ m.low <= m.active /\ m.active <= High /\ High \in Int
      /\ Statics \in Int
  BY ConstantTypes DEF Good, Memory, Ordered
<1>2. ASSUME NEW v \in Kept(m), NEW w \in Kept(m), Moved(m)[v] = Moved(m)[w] PROVE v = w
  <2>1. v \in Int /\ w \in Int
    BY MovedIs, ConstantTypes DEF Kept, Dnodes
  <2>2. CASE v \in Marked(m) /\ w \in Marked(m)
    <3>1. /\ Place(m, Marked(m), v) = Place(m, Marked(m), w)
          /\ Place(m, Marked(m), v) \in Int /\ Place(m, Marked(m), w) \in Int
      BY <1>1, <1>2, <2>2, MovedIs, MarkedIsClosed, Counting
    <3>2. ~(v < w) /\ ~(w < v)
      BY <1>1, <2>2, <3>1, PlacesDiffer
    <3> QED
      BY <2>1, <3>2
  <2>3. CASE v \notin Marked(m) \/ w \notin Marked(m)
    BY <1>1, <1>2, <2>1, <2>3, MovedIs DEF Kept
  <2> QED
    BY <2>2, <2>3
<1>3. ASSUME NEW v \in Kept(m)
      PROVE  IF v \in Dnodes
               THEN /\ Moved(m)[v] \in Dnodes /\ m.heap[v] \in Kept(m)
                    /\ q.heap[Moved(m)[v]] = Moved(m)[m.heap[v]]
               ELSE Moved(m)[v] = v
  <2>1. CASE v \in Marked(m)
    <3>1. v \in Dnodes /\ Moved(m)[v] \in Dnodes
      BY <2>1, MovedIs
    <3>2. q.heap[Moved(m)[v]] = Moved(m)[m.heap[v]]
      BY <2>1, PlacedCell
    <3>3. m.heap[v] \in Kept(m)
      BY <3>1, KeptIsClosed
    <3> QED
      BY <3>1, <3>2, <3>3
  <2>2. CASE v \in Int /\ v <= m.low
    <3>1. Moved(m)[v] = v
      BY <2>2, MovedIs
    <3>2. ASSUME v \in Dnodes
          PROVE  m.heap[v] \in Kept(m) /\ q.heap[v] = Moved(m)[m.heap[v]]
      <4>1. v \in 1..m.low /\ m.heap[v] \in Int
        BY <1>1, <2>2, <3>2, ConstantTypes DEF Dnodes, Memory
      <4>2. q.heap[v] = Forward(m, Marked(m), m.heap[v])
        BY <4>1, CompactFields
      <4> QED
        BY <3>2, <4>1, <4>2, KeptIsClosed DEF Moved
    <3> QED
      BY <3>1, <3>2
  <2> QED
    BY <2>1, <2>2 DEF Kept
<1>4. ASSUME NEW s \in Slots PROVE m.slot[s] \in Kept(m) /\ q.slot[s] = Moved(m)[m.slot[s]]
  <2>1. m.slot[s] \in Int /\ m.slot[s] <= m.active
    BY DEF Good, Memory, Bounded
  <2>2. m.slot[s] \in Kept(m)
    BY <2>1, MarkedIsClosed, MovedIs
  <2>3. q.slot = [r \in Slots |-> Forward(m, Marked(m), m.slot[r])]
    BY <1>1 DEF Compact, Memory
  <2> QED
    BY <2>1, <2>2, <2>3 DEF Moved
<1>5. \A d \in 1..Statics : d \in Kept(m) /\ Moved(m)[d] = d
  BY <1>1, MovedIs DEF Kept
<1> QED
  BY <1>2, <1>3, <1>4, <1>5 DEF Maps

(* gc, with the handlers of the threads before it: the program cannot tell *)
(* that it has happened.                                                   *)
LEMMA CollectionKeepsGraph ==
  ASSUME NEW m, m \in Memory, NEW p, p = PcLuserXp(m), Good(p, {}, {})
  PROVE  SameGraph(m, Gc(p))
<1> DEFINE u == IF FromArea(p) = "none" THEN p ELSE UntenureFromArea(p, FromArea(p))
           k == KeepBits(u)
           c == Compact(k, Marked(k))
           t == IF ToArea(p) = "none" THEN c ELSE TenureToArea(c, ToArea(p))
           z == Rebalance(t, Ephemeral(p))
<1>0. /\ p.heap = m.heap
      /\ \A s \in Slots : p.slot[s] = m.slot[s] \/ (s \in Registers /\ p.slot[s] = 0)
  <2>1. p.heap = m.heap
        /\ p.slot = [s \in Slots |-> IF s \in Finishing \X {"obj", "val"} THEN 0 ELSE m.slot[s]]
    BY DEF PcLuserXp, Memory
  <2> QED
    BY <2>1 DEF Registers, Finishing
<1>1. /\ FromArea(p) \in {"none", "g1", "g2"}
      /\ ToArea(p) \in {"none", "g1", "g2", "tenured"}
  BY DEF FromArea, ToArea
<1>2. Good(u, {}, {})
  BY <1>1, Untenure
<1>3. u.heap = p.heap /\ u.slot = p.slot
  BY DEF UntenureFromArea, Good, Memory
<1>3a. Gc(p) = IF u.active = u.low THEN u ELSE z
  BY DEF Gc
<1> HIDE DEF u
<1>4. Good(k, {}, {})
  BY <1>2, KeepsInteresting
<1>5. k.heap = u.heap /\ k.slot = u.slot
  BY <1>2 DEF KeepBits, MaskLastWord, Good, Memory
<1> HIDE DEF k
<1>6. c \in Memory /\ Good(c, {}, {})
  BY <1>4, Compacts DEF Good
<1>7. /\ Maps(Moved(k), Kept(k), k, c)
      /\ \A s \in Slots : k.slot[s] \in Kept(k) /\ c.slot[s] = Moved(k)[k.slot[s]]
      /\ \A d \in 1..Statics : d \in Kept(k) /\ Moved(k)[d] = d
  BY <1>4, CompactMaps
<1> HIDE DEF c
<1>8. t.heap = c.heap /\ t.slot = c.slot /\ t \in Memory
  <2>1. CASE ToArea(p) = "none"
    BY <1>6, <2>1
  <2>2. CASE ToArea(p) # "none"
    <3>1. ToArea(p) \in {"g1", "g2", "tenured"} /\ t = TenureToArea(c, ToArea(p)) /\ Ordered(c)
      BY <1>1, <1>6, <2>2 DEF Good
    <3> HIDE DEF t
    <3> QED
      BY <1>6, <3>1, TenureFields
  <2> QED
    BY <2>1, <2>2
<1> HIDE DEF t
<1>9. z.heap = c.heap /\ z.slot = c.slot
  BY <1>8 DEF Rebalance, UntenureFromArea, TenureToArea, Memory
<1> HIDE DEF z
<1>10. 0 \in Kept(k) /\ Moved(k)[0] = 0
  <2>1. 0 <= k.low
    BY <1>4, ConstantTypes DEF Good, Memory, Ordered
  <2> QED
    BY <1>4, <2>1, MovedIs DEF Kept
<1>11. CASE u.active = u.low
  <2> DEFINE I == [v \in Int |-> v]
  <2>1. Gc(p) = u
    BY <1>3a, <1>11
  <2>2. m.heap \in [Dnodes -> Int] /\ m.slot \in [Slots -> Int]
    BY DEF Memory
  <2>3. Maps(I, Int, m, u)
    BY <1>0, <1>3, <2>2 DEF Maps
  <2>4. \A s \in Slots : s \in Roots \/ u.slot[s] # 0 => m.slot[s] \in Int /\ u.slot[s] = I[m.slot[s]]
    BY <1>0, <1>3, <2>2, GenerationsAssumption DEF Registers
  <2>5. \A d \in 1..Statics : d \in Int /\ I[d] = d
    BY ConstantTypes
  <2> HIDE DEF I
  <2> QED
    BY <2>1, <2>3, <2>4, <2>5, MapsGraph
<1>12. CASE u.active # u.low
  <2>1. Gc(p) = z
    BY <1>3a, <1>12
  <2>2. Maps(Moved(k), Kept(k), m, z)
    BY <1>0, <1>3, <1>5, <1>7, <1>9 DEF Maps
  <2>3. ASSUME NEW s \in Slots, s \in Roots \/ z.slot[s] # 0
        PROVE  m.slot[s] \in Kept(k) /\ z.slot[s] = Moved(k)[m.slot[s]]
    <3>1. z.slot[s] = Moved(k)[p.slot[s]] /\ p.slot[s] \in Kept(k)
      BY <1>3, <1>5, <1>7, <1>9
    <3>2. p.slot[s] = m.slot[s]
      BY <1>0, <1>10, <2>3, <3>1, GenerationsAssumption DEF Registers
    <3> QED
      BY <3>1, <3>2
  <2> QED
    BY <1>7, <2>1, <2>2, <2>3, MapsGraph
<1> QED
  BY <1>11, <1>12

(* A step that is no collection of any generation changes nothing that     *)
(* KeepsGraph speaks of.                                                   *)
LEMMA CollectionSteps ==
  ASSUME IInv, Next, Collection
  PROVE  \/ mem' = mem
         \/ mem' = Gc(PcLuserXp(mem)) /\ \A u \in Threads : pc[u] # "btsq"
<1> DEFINE Collecting == {"alloc", "full", "gc", "gc and enable", "immediate"}
<1>1. PICK c \in Threads : pc[c] \in Collecting /\ pc'[c] # pc[c]
  BY DEF Collection
<1>2. pc \in [Threads -> Points]
  BY DEF IInv, Types
<1>3. ASSUME NEW t \in Threads,
             \/ CallBarrier(t) \/ Store(t) \/ StoreConditional(t) \/ SetRefbit(t)
             \/ SetRefidx(t) \/ SetStaticRefbit(t) \/ SetStaticRefidx(t)
             \/ ReadStaticRefidx(t) \/ WriteStaticRefidx(t)
      PROVE  FALSE
  <2>1. pc[t] \notin Collecting /\ \E l : pc' = [pc EXCEPT ![t] = l]
    BY <1>3 DEF CallBarrier, Store, StoreConditional, SetRefbit, SetRefidx, SetStaticRefbit,
                SetStaticRefidx, ReadStaticRefidx, WriteStaticRefidx, AfterGlobalMap, Return, Goto
  <2> QED
    BY <1>1, <1>2, <2>1
<1>4. ASSUME NEW t \in Threads,
             \/ Cons(t) \/ AllocTrap(t) \/ AllocateListTrap(t)
             \/ NewHeapSegment(t) \/ ForceFullGc(t) \/ AllocationFailure(t)
             \/ EgcControlTrap(t) \/ UseHeapThreshold(t) \/ ImmediateGcTrap(t)
             \/ GcTrap(t) \/ LeaveGcTrap(t)
      PROVE  FALSE
  <2>1. pc[t] \notin Collecting /\ (UNCHANGED pc \/ \E l : pc' = [pc EXCEPT ![t] = l])
    BY <1>4 DEF Cons, AllocTrap, AllocateListTrap, NewHeapSegment, ForceFullGc,
                AllocationFailure, EgcControlTrap, UseHeapThreshold, ImmediateGcTrap,
                GcTrap, LeaveGcTrap, Return, Goto
  <2> QED
    BY <1>1, <1>2, <2>1
<1>5. ASSUME NEW t \in Threads, MaybeDoEgc(t) \/ FullGc(t) \/ GcFromTrap(t)
      PROVE  mem' = mem \/ (mem' = Gc(PcLuserXp(mem)) /\ \A u \in Threads : pc[u] # "btsq")
  BY <1>5 DEF MaybeDoEgc, FullGc, GcFromTrap, StopAndCollect
<1>6. ASSUME NEW r \in Roots, Drop(r) PROVE FALSE
  BY <1>1, <1>6 DEF Drop
<1> QED
  BY <1>3, <1>4, <1>5, <1>6 DEF Next

(* A collection, of whatever generations, in a trap of any thread and with *)
(* others stopped inside the barrier, keeps what the program can reach, the*)
(* way it is connected, and the raw data it meets: no reference that it    *)
(* follows later leads to something freed, or to another object.           *)
THEOREM CollectionsKeepGraph == ASSUME Restricted PROVE Spec => KeepsGraph
<1>1. ASSUME IInv, Next, Collection PROVE SameGraph(mem, mem')
  <2>1. mem \in Memory /\ Good(mem, OldHands(mem), StaticHands(mem))
    BY <1>1 DEF IInv, MemoryInv, Good
  <2>2. CASE mem' = mem
    <3> DEFINE I == [v \in Int |-> v]
    <3>1. mem.heap \in [Dnodes -> Int] /\ mem.slot \in [Slots -> Int]
      BY <2>1 DEF Memory
    <3>2. Maps(I, Int, mem, mem')
      BY <2>2, <3>1 DEF Maps
    <3>3. \A s \in Slots : s \in Roots \/ mem'.slot[s] # 0 => mem.slot[s] \in Int /\ mem'.slot[s] = I[mem.slot[s]]
      BY <2>2, <3>1
    <3>4. \A d \in 1..Statics : d \in Int /\ I[d] = d
      BY ConstantTypes
    <3> HIDE DEF I
    <3> QED
      BY <3>2, <3>3, <3>4, MapsGraph
  <2>3. CASE mem' = Gc(PcLuserXp(mem)) /\ \A u \in Threads : pc[u] # "btsq"
    BY <2>1, <2>3, Finished, CollectionKeepsGraph
  <2> QED
    BY <1>1, <2>2, <2>3, CollectionSteps
<1>2. IInv /\ [Next]_vars => [Collection => SameGraph(mem, mem')]_vars
  BY <1>1
<1>3. Spec => []IInv
  BY Invariant
<1> QED
  BY <1>2, <1>3, PTL DEF Spec, KeepsGraph
=============================================================================
